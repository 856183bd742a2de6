---------------------------- MODULE LuaBindings -----------------------------
(***************************************************************************)
(* The Lua bindings of one node (src/bindings-lua.c) over the node core of *)
(* AuraCore.                                                               *)
(*                                                                         *)
(* Opening a node from Lua allocates a struct lua_bindingsdata (bdata) and *)
(* stores it in the node's userdata slot.  The binding calls record Lua    *)
(* registry references in bdata and flag them in bdata->refs; the core    *)
(* calls back into Lua (calldone_cb, event_cb, status_cb) with bdata as   *)
(* the callback argument.  l_close releases the flagged references, frees  *)
(* bdata and then calls aura_close.                                        *)
(*                                                                         *)
(* The node's transport (dummy, simpleusb or usb) is not in this           *)
(* repository: it is the environment, which changes the node's status and *)
(* answers the calls in the outbound queue.                                *)
(***************************************************************************)
EXTENDS AuraCore

CONSTANTS
  BinObjects,  \* the objects whose arg_fmt holds a URPC_BIN field
  NilBinArg,   \* may the Lua caller pass a non-string for a binary argument?
  MaxBinds,    \* bound on the registry references of one binding kind
  LuaTables,   \* the export tables l_etable_create may return (strings)
  MaxExports   \* bound on the count passed to l_etable_create

ASSUME /\ BinObjects \subseteq Objects
       /\ NilBinArg \in BOOLEAN
       /\ MaxBinds \in Nat \ {0}
       /\ LuaTables \subseteq STRING
       /\ MaxExports \in Nat

VARIABLES
  phase,       \* "INIT", "OPEN" (Lua holds the node), "ORPHAN", "CLOSED"
  node,        \* the aura_node (AuraCore's record)
  bdata,       \* the lua_bindingsdata block: "NONE", "LIVE", "FREED"
  refs,        \* bdata->refs: the REF_* flags set
  reg,         \* live registry references taken for each binding kind
  freedDeref,  \* history: a callback read bdata after it was freed
  luaTbl,      \* tables from Lua: created?, capacity, objects added
  seen         \* the last status and table the Lua callbacks were given

vars == <<phase, node, bdata, refs, reg, freedDeref, luaTbl, seen>>
luaVars == <<bdata, refs, reg, luaTbl, seen>>

(* REF_NODE_CONTAINER, REF_STATUS_CB, REF_ETABLE_CB, REF_EVENT_CB *)
Bindings == {"container", "status", "etable", "event"}

-----------------------------------------------------------------------------
(* aura_open succeeded; check_node_and_push allocates bdata and stores it  *)
(* in the node's userdata.  When calloc fails it raises a Lua error: the   *)
(* node stays open but Lua never gets its handle.  A NULL node from        *)
(* aura_open pushes nil and changes nothing.                               *)
check_node_and_push ==
  \/ /\ phase' = "OPEN"
     /\ bdata' = "LIVE"
  \/ /\ phase' = "ORPHAN"
     /\ bdata' = "NONE"

(* l_open_dummy, l_open_susb, l_open_usb.                                  *)
l_open ==
  /\ phase = "INIT"
  /\ check_node_and_push
  /\ UNCHANGED <<node, refs, reg, freedDeref, luaTbl, seen>>

(* A binding call: two luaL_ref on the registry (the callback and its     *)
(* argument, or the container table) and the REF_* flag.  The previous    *)
(* references of the same kind, if any, are overwritten in bdata.         *)
LuaBind(k) ==
  /\ phase = "OPEN"
  /\ reg[k] < MaxBinds
  /\ refs' = refs \cup {k}
  /\ reg' = [reg EXCEPT ![k] = @ + 1]
  /\ UNCHANGED <<phase, node, bdata, freedDeref, luaTbl>>

(* status_cb and etable_cb call the Lua function with the new status, or  *)
(* with the old and new tables pushed by lua_push_etable; Lua's view is   *)
(* what it was last given.                                                 *)
status_cb(sn, s)      == [sn EXCEPT !.status = s]
etable_cb(sn, old, t) == [sn EXCEPT !.tbl = t]

l_set_node_container == LuaBind("container") /\ UNCHANGED seen
l_set_event_cb       == LuaBind("event") /\ UNCHANGED seen

(* The callback is registered with the core and then called once with the *)
(* node's current status (and table), so Lua starts from the present.     *)
l_set_status_change_cb ==
  LuaBind("status") /\ seen' = status_cb(seen, node.status)

l_set_etable_change_cb ==
  LuaBind("etable") /\ seen' = etable_cb(seen, NoTbl, node.tbl)

(* calldone_cb, then event_cb, run for each completion the core fires and *)
(* read bdata->L and bdata's references: TRUE when that happens on n while *)
(* bdata is freed.                                                          *)
calldone_cb(n, bd) == bd = "FREED" /\ \E o \in Objects : n.pending[o] > 0

(* Fault variant: every reference is released, flagged or not.            *)
l_close_unrefAll(r, rf) == [k \in Bindings |-> r[k] - 1]

(* The luaL_unref calls of l_close, each under its REF_* flag.             *)
l_close_unref(r, rf) == [k \in Bindings |-> IF k \in rf THEN r[k] - 1 ELSE r[k]]

(* l_close: release the flagged references, free bdata, then aura_close,   *)
(* which fails every pending call through calldone_cb(bdata).              *)
l_close ==
  /\ phase = "OPEN"
  /\ phase' = "CLOSED"
  /\ reg' = l_close_unref(reg, refs)
  /\ bdata' = "FREED"
  /\ node' = CoreClose(node)
  /\ freedDeref' = (freedDeref \/ calldone_cb(node, "FREED"))
  /\ UNCHANGED <<refs, luaTbl, seen>>

-----------------------------------------------------------------------------
(* l_start_call on object o with an argument of Lua type t.  The early     *)
(* errors (unknown id, wrong argument count, buffer allocation failure)    *)
(* raise before any state changes.  A URPC_BIN argument that is neither a  *)
(* string nor a userdata leaves srcbuf uninitialized: it may read as NULL  *)
(* (luaL_error with the buffer already requested) or as garbage (len 0 is  *)
(* copied and the call goes on).                                           *)
ArgTypes == {"string", "nil"}

SrcbufOutcomes(o, t) ==
  IF o \in BinObjects /\ t = "nil" THEN {"NULL", "garbage"} ELSE {"ok"}

(* Fault variant: a refused call's buffer is not released.                *)
l_start_call_noRelease(n, o, s) ==
  LET b  == [call |-> n.nextCall, obj |-> o, kind |-> "arg"]
      n1 == [aura_buffer_request(n, b) EXCEPT !.nextCall = @ + 1]
  IN  IF s = "NULL" THEN n1
      ELSE IF n.status = "ONLINE" THEN aura_queue_call(n, o)
      ELSE n1

l_start_call(n, o, s) ==
  LET b  == [call |-> n.nextCall, obj |-> o, kind |-> "arg"]
      n1 == [aura_buffer_request(n, b) EXCEPT !.nextCall = @ + 1]
  IN  IF s = "NULL" THEN n1
      ELSE IF n.status = "ONLINE" THEN aura_queue_call(n, o)
      ELSE aura_buffer_release(n1, b)

StartCall ==
  /\ phase = "OPEN"
  /\ node.nextCall <= MaxCalls
  /\ \E o \in Objects, t \in ArgTypes :
       /\ t = "nil" => NilBinArg
       /\ \E s \in SrcbufOutcomes(o, t) : node' = l_start_call(node, o, s)
  /\ UNCHANGED <<phase, luaVars, freedDeref>>

-----------------------------------------------------------------------------
(* The event loop drains the inbound queue: calldone_cb runs with bdata.   *)
ProcessInbound ==
  /\ phase \in {"OPEN", "ORPHAN"}
  /\ node.inbound # <<>>
  /\ node' = aura_process_inbound(node)
  /\ freedDeref' = (freedDeref \/ calldone_cb(node, bdata))
  /\ UNCHANGED <<phase, luaVars>>

(* The transport (not in this repository) goes ONLINE or OFFLINE; the     *)
(* core calls the registered status callback, status_cb.                  *)
TransportStatus ==
  /\ phase \in {"OPEN", "ORPHAN"}
  /\ \E s \in NodeStatus \ {node.status} :
       /\ node' = aura_set_status(node, s)
       /\ seen' = IF "status" \in refs THEN status_cb(seen, s) ELSE seen
  /\ UNCHANGED <<phase, bdata, refs, reg, luaTbl, freedDeref>>

(* The transport answers the head of the outbound queue: it takes the     *)
(* argument buffer, releases it, requests the return buffer and writes it. *)
TransportServe ==
  /\ phase \in {"OPEN", "ORPHAN"}
  /\ node.status = "ONLINE"
  /\ node.outbound # <<>>
  /\ LET r == aura_node_read(node)
         n1 == aura_buffer_request(aura_buffer_release(r[2], r[1]), RetBuf(r[1]))
     IN  node' = aura_node_write(n1, RetBuf(r[1]))
  /\ UNCHANGED <<phase, luaVars, freedDeref>>

-----------------------------------------------------------------------------
(* The etable wrappers pass the light userdata Lua holds straight to the  *)
(* core: nothing ties a handle to the table's lifetime.                    *)

(* l_etable_create: aura_etable_create(node, count); a NULL table raises. *)
l_etable_create ==
  /\ phase = "OPEN"
  /\ \E t \in LuaTables, count \in 0 .. MaxExports :
       /\ ~luaTbl[t].made
       /\ luaTbl' = [luaTbl EXCEPT ![t] = [made |-> TRUE, size |-> count, next |-> 0]]
  /\ UNCHANGED <<phase, node, bdata, refs, reg, freedDeref, seen>>

(* l_etable_add: aura_etable_add appends at next, whether or not the      *)
(* table was activated since; a full table stops the program in the core.  *)
l_etable_add ==
  /\ phase = "OPEN"
  /\ \E t \in LuaTables :
       /\ luaTbl[t].made
       /\ luaTbl[t].next < luaTbl[t].size
       /\ luaTbl' = [luaTbl EXCEPT ![t].next = @ + 1]
  /\ UNCHANGED <<phase, node, bdata, refs, reg, freedDeref, seen>>

(* l_etable_activate: aura_etable_activate installs the table on its      *)
(* owner, calls the registered etable_cb(old, new) and frees the old one.  *)
l_etable_activate ==
  /\ phase = "OPEN"
  /\ \E t \in LuaTables :
       /\ luaTbl[t].made
       /\ node' = aura_etable_activate(node, t)
       /\ seen' = IF "etable" \in refs THEN etable_cb(seen, node.tbl, t) ELSE seen
  /\ UNCHANGED <<phase, bdata, refs, reg, freedDeref, luaTbl>>

-----------------------------------------------------------------------------
Init ==
  /\ phase = "INIT"
  /\ node = NodeInit
  /\ bdata = "NONE"
  /\ refs = {}
  /\ reg = [k \in Bindings |-> 0]
  /\ freedDeref = FALSE
  /\ luaTbl = [t \in LuaTables |-> [made |-> FALSE, size |-> 0, next |-> 0]]
  /\ seen = [status |-> "NONE", tbl |-> "NONE"]

Next ==
  \/ l_open
  \/ l_set_node_container
  \/ l_set_status_change_cb
  \/ l_set_etable_change_cb
  \/ l_set_event_cb
  \/ StartCall
  \/ l_close
  \/ ProcessInbound
  \/ TransportStatus
  \/ TransportServe
  \/ l_etable_create
  \/ l_etable_add
  \/ l_etable_activate

Spec == Init /\ [][Next]_vars

-----------------------------------------------------------------------------
TypeOK ==
  /\ phase \in {"INIT", "OPEN", "ORPHAN", "CLOSED"}
  /\ node \in NodeType
  /\ bdata \in {"NONE", "LIVE", "FREED"}
  /\ refs \subseteq Bindings
  /\ reg \in [Bindings -> 0 .. MaxBinds]
  /\ freedDeref \in BOOLEAN
  /\ luaTbl \in [LuaTables -> [made : BOOLEAN, size : 0 .. MaxExports, next : 0 .. MaxExports]]
  /\ seen \in [status : NodeStatus \cup {"NONE"}, tbl : LuaTables \cup {NoTbl, "NONE"}]

(* Every call queued through l_start_call is pending or has had exactly    *)
(* one completion, across the transport's status changes and l_close.     *)
EveryCallCompletesOnce == CompletesOnce(node)

(* Every buffer l_start_call requested is in the outbound or inbound      *)
(* queue until it is released, none twice, and after l_close none is      *)
(* left: the refused-call path of l_start_call releases its buffer.       *)
BuffersAccountedFor ==
  /\ ~node.badRelease
  /\ phase \in {"OPEN", "ORPHAN"} => node.live = ToSet(node.outbound) \cup ToSet(node.inbound)
  /\ phase = "CLOSED" => node.live = {}

(* No core callback reads bdata after l_close has freed it.                *)
NoCallbackAfterFree == ~freedDeref

=============================================================================
