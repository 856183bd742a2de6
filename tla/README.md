# TLA+ models of aura

This directory holds TLA+ models of the aura RPC library (`src/`) and the
TLC configurations that check them. `PROJECT.json` is the machine-readable
index. It lists the components, the runs, a mutant for each property, the
source lines each definition translates, the findings and the hazards.

## 1. The system

aura connects a host program to remote *nodes* (a DSP core, a UART or USB
device) over pluggable *transports*.

| Part | Source in this repository | What it does |
|---|---|---|
| Buffer queues | `src/queue.c` | `aura_queue_buffer` (tail insert), `aura_dequeue_buffer` (head remove), `aura_requeue_buffer` (head insert) on a node's intrusive lists |
| Node core | `src/include/aura/aura.h` only (the `aura.c`/`node.c` code is not in `src/`) | node status OFFLINE/ONLINE, outbound and inbound buffer queues, per-object `pending` counter and **one** `calldonecb`/`arg` slot per object, export table, `aura_set_status`, `aura_queue_call`, `aura_node_write`, `aura_close` |
| Buffer & pool | `aura.h` (`struct aura_buffer`) | buffer request/release to a per-node pool with a GC threshold |
| Export table | `aura.h` | table activation with migration by name |
| Format engine | not in `src/` | format strings → lengths, (de)serialization |
| NMC transport | `src/transport-nmc.c` | drives a NeuroMatrix DSP through a shared-memory sync buffer (IDLE → ARGOUT → RETIN → IDLE), one call on the DSP at a time |
| UART transport | `src/src/transports/transport-uart.c` | sends each outbound buffer's object name over a socket and writes the buffer back as its result |
| Event loop | `src/src/core/eventloop.c` | binds nodes to loops, re-arms node timers on add, removes descriptors on del, sends STARTED once per node, dispatches |
| Timer service | `aura.h` declarations only | node-bound timers, start/stop |
| Sync facade | not in `src/` | `aura_call`, `aura_wait_status` |
| Lua bindings | `src/bindings-lua.c` | Lua API: open/close, calls, event callbacks, format (de)serialization in Lua |
| xusb test | `src/src/tests/xusb/susb.c` | a libusb probe program |

How they interact: the user queues a call on a node. The core appends its
argument buffer to `outbound_buffers`, raises the object's `pending` and
stores the call's callback in the object. The event loop calls the
transport's `handle_event`, which takes buffers off the outbound queue and
puts return buffers on the inbound queue with `aura_node_write`. The loop
then drains the inbound queue and runs each object's completion callback.
The transport changes the node's status with `aura_set_status`. ONLINE →
OFFLINE fails every pending call with TRANSPORT_FAIL. `aura_close` cancels
everything and then calls the transport's `close`.

The hard behaviours are the ones where the NMC transport and its DSP run
concurrently:
- the DSP halts while the handler runs, between its two reads of the core state;
- a halted DSP is restarted by another program, with its sync buffer kept or reloaded;
- the OFFLINE cancellation fails the call that is still on the DSP;
- close releases buffers that both the core and the transport hold.

## 2. Modules

### `AuraCore.tla`: the node core
State is one record `node` (its type is `NodeType`):
- `status`, `outbound`, `inbound` (sequences of buffers);
- `pending[o]` and `objCb[o]` (the `aura_object` fields);
- `live` (the buffers the node owns, with `badRelease` set by a second release of a buffer);
- `tbl` and `freedTbls` (the active export table and the released ones);
- two history fields, `submitted[o]` (calls in queue order) and `done[o]` (completions fired).

A buffer is `[call, obj, kind]`, the call it carries and whether it holds
arguments or the return value.

Every core operation is an operator from a node record to a node record. A
transport handler that calls several core functions (`aura_set_status`,
then `aura_buffer_release`, then `aura_node_write`) is therefore one step,
as it is one uninterrupted C call on the single loop thread (spec 5).
- The queue operators translate `src/queue.c`.
- `aura_set_status`, `CancelAll`, `aura_queue_call`, `aura_node_write`, `aura_process_inbound` (the loop's inbound drain), `aura_etable_activate` and `CoreClose` follow spec 4.3–4.8, because their C code is not in this repository. They are marked `spec_modelled` in the map.
- The completion records the callback in the object's slot at the time it fires (aura.h:129-133).
- A result arriving for an object with no pending call is released unused. The spec does not say what happens, and this choice keeps `pending` non-negative.

### `NmcTransport.tla`: the NMC transport with the core
Variables and the code they model:
- `phase`: whether the node has been opened or closed;
- `node`: the AuraCore record;
- `dsp`: `easynmc_core_state()`;
- `sbuf`: the shared `nmc_aura_syncbuffer`, its state and the two buffers published in it;
- `isOnline`, `currentOut`, `currentIn`: `pv->is_online`, `pv->current_out`, `pv->current_in`;
- `mapped`: whether `pv->sbuf` is non-NULL, i.e. whether the image had a non-empty sync buffer section;
- `etbl`: `pv->etbl`, as the capacity `aura_etable_create` gave it and the number of objects added to it.

Host actions:
- `nmc_open`, over an image from the constant `Images`. An image is its ELF sections in order (name, word address, size), the two export-header checks and the export-table entries (a type and the name, argfmt and retfmt fields, each a zero-terminated, zero-padded sequence of 32-bit words, one character per word). `LoadSections` folds `handle_aura_rpc_section` over the sections: a non-empty export section sets `eaddr` to the uint32 `sh_addr << 2`, a non-empty sync buffer section maps `pv->sbuf`. `parse_and_register_exports` is its two walks of the entries (`CountExports` sizes the table, `AddExports` fills it) after the magic and strlen checks. Each added entry's three fields go through `nmc_fetch_str`: `FetchLen` is its length loop (the count includes the terminator), and `FetchCopy` is its do-while copy, which tests the next word only after it copies one. The model keeps the allocation size and the bytes written, so both the string and the write are visible. The easynmc failures, `eaddr == 0` and a bad header end in `FAILED` (aura_open returns NULL);
- `HandleEvent`, the whole of `nmc_handle_events` including `do_issue_next_call`;
- `UserCall` (`aura_queue_call`);
- `ProcessInbound` (the loop's drain). It is scheduled as a step of its own, so the model may drain the inbound queue between any two host or DSP steps. The code drains once per loop iteration, after the handler; the model's schedules include the code's and more, so an invariant that holds here holds for the code, and a violating trace may use an order the loop would not take, as a violation run's trace may;
- `aura_close` (the core's close, then `nmc_close`).

The handler reads the core state twice (lines 390 and 396). `nmc_handle_events(d2)`
takes the value of the second read as a parameter, and `StateAfterFirstRead`
says which values are possible: a running core may have halted in between.

DSP actions (the firmware is not in this repository):
- `DspBoot`: the core starts running;
- `DspServe`: ARGOUT → RETIN;
- `DspHalt`;
- `DspRestart`: another program restarts a halted core, and its sync buffer is either kept or reloaded as IDLE. It is enabled only when `DspRestarts` is TRUE.

`nmc_handle_events` serves the sync buffer only while `mapped` (line 404).

`MC_Nmc.tla` instantiates `NmcTransport` with two method objects. `MCGoodImages` is one well-formed image. `MCImages` combines seven section layouts (well-formed, no sync buffer, an empty sync buffer, the export section at word 0, at word 2^30 where the shift wraps to 0, an empty export section, and a repeated empty export section with an unrelated section between), good and bad header fields, and three export tables (method and event, a bad entry between two methods, empty). Their fields hold empty, one- and two-character strings.

### `CallEngine.tla`: what the call engine promises
The abstract specification of one node's calls (spec 4.4, 4.6, 7). Its state is the node's `status`, the calls pending on each object as a FIFO sequence (`queue`), the completions delivered per object (`done`, each with its status and whose result it carried), `closed`, and the name of the next call. `Submit` accepts a call only while ONLINE and open; `Complete` finishes, in one step, the oldest pending calls of one or more objects, in order, each with its own result (one loop iteration drains the whole inbound queue, so several completions reach the user with no user step between them); `GoOffline` and `Close` fail every pending call once, in queue order. All its definitions come from spec.md and are marked `spec_modelled`.

`UartTransport` (composed in `UartLoop`) and `NmcTransport` each define `Engine == INSTANCE CallEngine WITH ...` and `ImplementsCallEngine == Engine!Spec`. No run checks it as a PROPERTY: a mutant of the transport that breaks the refinement also breaks `ResultsMatchCalls`, `BuffersAccountedFor` or `CallsEventuallyComplete`, which say the same things about the code more directly. The mapping is kept as the statement of what the transports implement:
- `queue[o]` is `PendingCalls(node, o)`, the calls of `o` queued (`submitted`) after those already completed (`done`);
- `done[o]` is `Outcomes(node, o)`, each completion with `origin` (whose return buffer it received) as its result;
- `closed` is `phase = "CLOSED"`, `status` and `nextCall` are the node's own.

Each transport step maps to one abstract step or to a stutter. A call moving from the outbound queue to the DSP or the wire, or a result waiting in the inbound queue, is a stutter: the call stays pending.

### `LuaFormat.tla`: the argument serializer of `l_start_call`
`Serialize` is the `while` loop of `l_start_call` (`bindings-lua.c:398-467`) over the format and the Lua arguments, as a RECURSIVE operator. An integer token puts its width; `s` reads `blen` with `atoi` (`Atoi`), raises for 0, clamps the value's length to `blen`, copies that many bytes and skips past the `.` (`SkipDot`). A Lua string has its length; a userdata has length 0, because the code never sets `len` for it. Values and bytes are abstract: byte `i` of value `s` is `<<s.id, i>>`.

`RefEncode` is the wire layout of spec 4.2 and 6, built from `Fields(f)` with `FoldLeft`. Each `sN.` block is the value's first bytes, zero-padded to exactly N.

`MC_LuaFormat.tla` uses five one-field formats (`1`, `7`, `9`, `s2.`, `s10.`) and all their two-field concatenations. Integers are passed for integer fields; strings and userdata of lengths 0, 2, 10 and 12 are passed for the blocks.

### `EventLoop.tla`: loops, bound nodes, timers and descriptors
State is one record `el` and three more variables:
- `el.loopState` and `el.nodelist`: each loop's allocation and `loop->nodelist`. This includes each node's auto-created loop `AutoLoop(n)`.
- `el.nodeLoop`, `el.autocreated` and `el.fdCb`: `node->loop`, `node->evtloop_is_autocreated` and the fd-changed callback.
- `el.nodeFds` and `el.polled`: the node's descriptors, and the descriptors each loop's module polls.
- `el.isActive` and `el.armedIn`: one timer per node stands for the node's timer list. `armedIn` is the loop the timer is armed in.
- `el.startSent` and `el.waiting`: `node->start_event_sent` and `loop->waiting_for_status`.
- `status`: the nodes' status.
- `userArmed`: a history of the user's timer start/stop.
- `delivered`: the events one dispatch hands to the handlers, in order.

The loop functions call one another (`add` destroys an auto-created loop, which deletes its nodes), so each is an operator on `el`:
- `aura_eventloop_add`, `_del` and `_destroy` (a `FoldLeft` of `del` over the node list);
- `aura_eventloop_vcreate` (a `FoldLeft` of `add`);
- `aura_eventloop_dispatch`, which runs the STARTED pass first and returns early when a node in it is being waited on, then the module's poll.

`WaitStatus`, `WaitDispatch` and `WaitReturn` model `aura_wait_status`, which blocks the user. The module callbacks (`node_added`, `fd_action`, the module dispatch) and the core's timer and pollfd functions are not in `src/`; they follow spec 4.7–4.8.

### `UartTransport.tla`: the UART transport with the core
- Variables: `phase`, `node`, `onlineTimer` (the one-shot timer `uart_open` starts) and `answered` (a history of the calls the peer really answered).
- `uart_open`: the timer is armed, or the open fails.
- `online_cb_fn`: activates the table and goes ONLINE.
- `HandleEvent`: the whole of `uart_handle_event`. Its `while` loop is a `FoldLeft` of `uart_serve` over the outbound queue, and for each buffer the peer answers, fails the send or fails the receive.
- Its own `Next`, with `HandleEvent` and `ProcessInbound` as free-standing loop steps, is checked by `uart_send_fail` only. `UartLoop` reuses its operators (`uart_open`, `uart_online`, `uart_handle_event`) inside the loop's dispatch.

### `UartLoop.tla`: the UART transport driven by its event loop
Composes `UartTransport` (`U == INSTANCE UartTransport`) with `EventLoop`'s loop functions (`EL == INSTANCE EventLoop WITH Nodes <- {UNode}, ...`) for the one uart node. The loop side sees the node's status as `status` and the online timer as the node's one timer (`userArmed <- onlineTimer`).
- `Open`: `uart_open` inside `aura_open`. The node has no loop yet, so `aura_timer_start` only marks the timer active (`armedIn` stays `NoLoop`).
- `CreateEmpty`, `Create`, `Add`: the user's loop calls. `Create` and `Add` destroy the auto-created loop and re-arm the active timer through `aura_eventloop_add`.
- `WaitStatus`, `WaitDispatch`, `WaitReturn`: `aura_wait_status(node, ONLINE)`, which auto-creates a loop for an unbound node.
- `Dispatch(l)`: one `aura_eventloop_dispatch`. `handlers` runs, in the order of spec 4.8, `uart_handle_event` on STARTED, `online_cb_fn` (`uart_online`) when the module fires the timer, and `uart_handle_event` on HAVE_OUTBOUND. It then drains the inbound queue. The last two are skipped when the loop returned early for the waiting node.
- `LoopDispatch`: the application's `aura_handle_events` on the node's loop.
- `UserCall` and `Close`. `aura_close` is not in `src/`; following spec 4.4 ("resources released"), it releases the node's timers, takes the node out of its loop, and destroys an auto-created loop.

Once bound, the node stays in its loop until close. Removing it is the `eventloop` run's subject.

### `LuaBindings.tla`: a node used from Lua
Variables and what they model:
- `bdata`: the `struct lua_bindingsdata` block (NONE, LIVE or FREED);
- `refs`: its `REF_*` flags;
- `reg`: the Lua registry references taken, counted per binding kind;
- `freedDeref`: a history of a core callback reading `bdata` after it was freed;
- `luaTbl`: the export tables created from Lua (`LuaTables`), each with its capacity and fill count;
- `seen`: the last status and active table the Lua status and etable callbacks were given. No run states a property of it: the synthesized first call is what `l_set_status_change_cb` and `l_set_etable_change_cb` do in two lines (529, 551), so that Lua's view stays current follows from the model's shape.

Actions:
- `l_open`: the whole of `check_node_and_push`. When its calloc fails the node stays open and Lua never gets the handle (phase ORPHAN).
- The four binding calls (`l_set_*`). `l_set_status_change_cb` and `l_set_etable_change_cb` also synthesize a first call of `status_cb` / `etable_cb` with `node->status` / `node->tbl`.
- The etable wrappers `l_etable_create`, `l_etable_add` and `l_etable_activate`, on any handle Lua holds: nothing ties a handle to its table's lifetime. `aura_etable_activate` (core, spec 4.3) installs the table, calls the registered `etable_cb(old, new)` and releases the old one. A full table stops the program in the core, so `l_etable_add` has no step there.
- `StartCall`: `l_start_call` with its error paths. A nil passed for a binary argument leaves `srcbuf` uninitialized, a read the build may see as NULL or as garbage.
- `l_close`: unreferences the flagged references, frees `bdata`, then runs `aura_close`.
- `ProcessInbound`, where `calldone_cb` runs. Like the NMC model's, it is a step of its own rather than part of the loop iteration that follows a transport step.
- The transport (dummy, simpleusb or usb, whose code is not in `src/`) is the environment: `TransportStatus` (the core then calls the registered `status_cb`) and `TransportServe`.

## 3. Runs

| Run | Model, cfg | Expect | Checks | Result |
|---|---|---|---|---|
| nmc | MC_Nmc, MC_Nmc.cfg | pass | TypeOK, ResultsMatchCalls, BuffersAccountedFor, CallsEventuallyComplete | 11,590 distinct states (`MaxCalls = 4`); the well-formed image, no restarts: OFFLINE with a call on the DSP leaks no buffer and strands no call |
| nmc_restarts | MC_Nmc, MC_Nmc_restarts.cfg | pass | ExportsFitTable, ExportStringsFetched | 940,334 distinct states (`MaxCalls = 4`): over all of `MCImages` and with restarts, the export table is never filled past its size, and every string registered is the one the DSP exported |
| eventloop | MC_EventLoop, MC_EventLoop.cfg | pass | TypeOK, LoopMembership, PolledAreBoundDescriptors, TimersFollowNode, StartedBeforeOtherEvents, WaitStatusReturns | 68,496 distinct states |
| uart | MC_UartLoop, MC_UartLoop.cfg | pass | ResultsMatchCalls, BuffersAccountedFor, CallsEventuallyComplete, WaitOnlineReturns | 18,269 distinct states (`MaxCalls = 4`): the node, driven only by its loop, goes ONLINE and `aura_wait_status` returns; every call completes, eventually and with its own buffer |
| lua | MC_Lua, MC_Lua.cfg | pass | TypeOK, BuffersAccountedFor | 3,608,467 distinct states (about 80 s): `l_start_call` and `l_close` leak no buffer across transport changes and tables created and activated from Lua |
| uart_send_fail | MC_Uart, MC_Uart_fail.cfg | violation | CompletedOnlyIfAnswered | a call whose send or receive failed completes as COMPLETED |
| lua_bin_leak | MC_Lua, MC_Lua_binleak.cfg | violation | BuffersAccountedFor | a nil for a binary argument raises after the buffer was requested, leaking it |
| lua_close_uaf | MC_Lua, MC_Lua_uaf.cfg | violation | NoCallbackAfterFree | `l_close` frees `bdata` before `aura_close` fails the pending calls through `calldone_cb(bdata)` |
| nmc_etable_reactivate | MC_Nmc, MC_Nmc_etable.cfg | violation | ActiveTableLive | a restart re-activates the active table, which releases it |
| nmc_stale_result | MC_Nmc, MC_Nmc_stale.cfg | violation | ResultsMatchCalls | a cancelled call's late result completes a later call on the same object |
| nmc_restart_hang | MC_Nmc, MC_Nmc_hang.cfg | violation | CallsEventuallyComplete | a halt and restart between two handler runs strand the call that was on the DSP and leak its buffers |
| lua_arg_layout | MC_LuaFormat, MC_LuaFormat.cfg | violation | ArgsEncodedPerLayout | a string shorter than its `sN.` block is sent without padding, and a userdata contributes no bytes |

Bounds:
- **NMC, UART and Lua models**: two objects and `MaxCalls = 3`. Three calls are enough for two calls pending on one object while a third is in flight or queued behind it. Two objects are enough for results of different objects to interleave. The two NMC pass runs and the composed UART run use `MaxCalls = 4`, so that three calls can wait on one object behind the one in flight; the NMC violation runs keep three, which gives their shortest traces.
- **Lua model**: `o1` takes a binary argument, so that the uninitialized-`srcbuf` path exists. Two tables of capacity 0 or 1 (`MaxExports = 1`) let one activation replace another and an add follow an activation. The pass run binds each callback once (`MaxBinds = 1`), which keeps it under two minutes; the violation runs keep `MaxBinds = 2`.
- **NMC images**: the seven section layouts reach every branch of `handle_aura_rpc_section` and of the `eaddr` test, including the shift that wraps; the bad entry between two methods is where the two walks of `parse_and_register_exports` could disagree. The liveness run uses the well-formed image only (see the observation below).
- **LuaFormat**: every integer width class and a block shorter and longer than its values (2 and 10 bytes against values of 0, 2, 10 and 12 bytes), alone and after another field, so that the cursor after a block is exercised.
- **UartLoop model**: one user loop besides the auto-created one. This is enough for the timer to be armed on either loop: the user creates or joins a loop before any wait, or the wait auto-creates one, which a later `Create` or `Add` destroys.
- **EventLoop model**: two nodes, two user loops (plus the two auto-created ones) and one descriptor. These are enough for a node to move between loops, for `add` to destroy a node's auto-created loop, and for one loop's dispatch to serve two nodes.

Deadlock:
- The NMC, UART and Lua cfgs say `CHECK_DEADLOCK FALSE`. After `aura_close` the node has no further steps, which is the intended end of its life, not a deadlock. Every other state has a handler step.
- `MC_EventLoop.cfg` checks deadlock.

Each violation's finding is in `PROJECT.json`. In short:
- **ActiveTableLive**: `transport-nmc.c:390-394` activates `pv->etbl` whenever it sees the core running while `is_online` is 0.
- **ResultsMatchCalls**: OFFLINE (396-398) fails the call on the DSP but leaves `current_in` and the sync buffer as they are, and the RETIN branch (409-411) later delivers that result.
- **ArgsEncodedPerLayout**: `bindings-lua.c:455-458` copies `min(blen, len)` bytes and advances by that much, where spec 6 puts exactly N bytes, zero-padded; a userdata leaves `len` at 0 (443-444).
- **CompletedOnlyIfAnswered**: `transport-uart.c` only logs send and receive failures and writes the buffer back.
- **NoCallbackAfterFree**: `bindings-lua.c:213-214` frees `bdata` and then closes the node.
- **BuffersAccountedFor** (lua_bin_leak): `bindings-lua.c:453` returns a Lua error without releasing the requested buffer.

Observation without a run of its own: with an image whose sync buffer section is missing or empty, `nmc_open` succeeds with `pv->sbuf` NULL, the node goes ONLINE when the DSP runs, and `nmc_handle_events` never issues a queued call (line 404). Putting such an image in `MC_Nmc.cfg`'s `Images` makes TLC report `CallsEventuallyComplete` violated: three calls are queued and wait forever. The hazard at `transport-nmc.c:404` in `PROJECT.json` records it.

Observation without a run of its own: `nmc_fetch_str` writes one byte past its allocation for every empty field, such as an event's argfmt or the retfmt of a method without results. For `len = 1` (only the terminator) the copy writes the terminator at byte 0, and `*tmp = 0` then writes byte 1. On `MC_Nmc_restarts.cfg`, the invariant that the bytes written fit in `len` fails at the first `nmc_open`. The strings themselves are right (`ExportStringsFetched` holds). The hazard at `transport-nmc.c:99` records the overflow.

Observation without a run of its own: `BuffersAccountedFor` holds in the `nmc` run, which has no restarts, and fails on `MC_Nmc_restarts.cfg`. A call is issued, the DSP halts and is restarted with a fresh sync buffer, and the next `do_issue_next_call` (line 375) overwrites `current_out` and `current_in`, which still hold the cancelled call's buffers: they are never released. The hazard at `transport-nmc.c:375` records it; the restart path's other outcomes are `nmc_stale_result` and `nmc_restart_hang`.

Second observation without a run: `l_etable_activate` on a handle already activated (or replaced) installs a table the core has released. Checking `node.tbl \notin node.freedTbls` on `MC_Lua.cfg` makes TLC report it after `l_open`, `l_etable_create` and two `l_etable_activate` of the same table: the defect of `nmc_etable_reactivate`, reached from a Lua script.

The Lua model does not check `ImplementsCallEngine`: its transport is unconstrained, and it reaches the same stale-result behaviour as `nmc_stale_result` (a result left in the inbound queue across OFFLINE and ONLINE completes a later call).

## 4. Fairness

- **NMC**:
  - The loop thread keeps running the node's handler (descriptor events and the periodic timeout) and keeps draining the inbound queue.
  - The DSP, once booted, keeps serving its sync buffer.
  - These get weak fairness. The handler's fairness is on `nmc_handle_events(dsp)`, its runs in which the DSP does not halt: a fair scheduler does not make the DSP halt.
  - The user's calls and close, and the DSP's halts and restarts, get no fairness.
- **UART (UartLoop)**:
  - `aura_wait_status` keeps dispatching until the status is reached, and returns (weak fairness on `WaitDispatch` and `WaitReturn`).
  - The application keeps dispatching the node's loop. This is stated as `[]<>~LoopHasWork \/ []<><<LoopDispatch>>_vars`. `LoopHasWork` means the node is open, the user is free, and the loop has the node's STARTED, its armed timer or queued calls.
  - `LoopHasWork` implies `ENABLED <<LoopDispatch>>_vars`, so this assumption is no stronger than weak fairness on `LoopDispatch`. The implication was checked with TLC as an invariant at `MaxCalls = 2`. It is written this way because TLC's evaluation of `ENABLED` on the whole dispatch is too slow.
  - The timer fires only when a dispatch polls; no fairness is put on the timer itself.
- **EventLoop**: `aura_wait_status` keeps dispatching until it returns, and a started transport keeps being driven (weak fairness on `WaitDispatch`, `WaitReturn` and `TransportOnline`). The user's loop calls get none.
- **Lua**: no liveness property is checked, so no fairness.
- **CallEngine** has no fairness: `ImplementsCallEngine` would be a safety refinement (`Init /\ [][Next]_vars`).

## 5. Not modelled, and the plan

Parts not modelled yet, and why:
- The buffer pool's LIFO and GC threshold.
- Export-table contents and migration by name.
- Event objects and the unhandled-event callback.
- The sync facade beyond `aura_wait_status`.
- The format engine. Its code is not in this repository; the Lua walkers in `bindings-lua.c` are.
- In `nmc_open`, the ELF reading itself (easynmc, not in this repository) and the `max_buf_sz` scan over the table's `retlen`, which needs the format engine. `pv->inbufsize` is computed but never read. `fetch_stdout`, `nonblock`, `aura_buffer_to_nmc` and `nmc_buffer_put/get` are terminal I/O and driver address translation.
- The event decoder of `event_cb` (`bindings-lua.c:278-349`): spec.md's implementation note 1 already records its URPC_BIN cursor defect, and event objects are not modelled.
- Memory ordering between host and DSP. Each sync-buffer update is atomic in the model.
- The Lua eventloop wrappers, which are thin pass-throughs (`l_eventloop_del` reads argument 2, a hazard in `PROJECT.json`), and `l_get_exports` / `lua_push_etable`, which only read the table into Lua.
- The xusb probe program (`susb.c`), which is libusb I/O with no state shared with the library.
- The uart byte I/O (`uart_buffer_put/get`, the 2000-byte `recv`): buffers are named by their call, not by their bytes, so overruns of a buffer's capacity are hazards without a property.

What is left of `src/` beyond this is either declarations (`aura.h`), I/O with no state of the library's, or a defect that the existing runs do not reach and that would need a violation run of its own. The project keeps twelve runs, one per question. The defects without a run are the four observations in section 3 and the hazards without a property in `PROJECT.json`: the overwritten per-object callback (`aura.h:131`), the registry references leaked on re-registration, `l_eventloop_del`'s argument, the failed `connect` in `uart_open`, the buffers lost on a DSP restart, and the unprotected `lua_call` in core callbacks.

Plan, in order (EventLoop, UartTransport and its composition with the loop, the Lua node lifecycle, the CallEngine refinement, the Lua serializer, `nmc_open`'s parsing with `nmc_fetch_str`, and the Lua etable wrappers and callbacks are done):
1. **Buffer pool GC** (spec 4.1 and property 7) and export-table migration (spec 8 S5).
2. Periodic (`FREE`) timers, if the timer service's code becomes available; the uart online timer would then fire again and rebuild the export table.
