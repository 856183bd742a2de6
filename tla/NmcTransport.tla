---------------------------- MODULE NmcTransport ----------------------------
(***************************************************************************)
(* The "nmc" transport (src/transport-nmc.c) driving one aura node against *)
(* a NeuroMatrix DSP core through a shared-memory sync buffer, composed    *)
(* with the node core of AuraCore.                                         *)
(*                                                                         *)
(* Host and DSP share one nmc_aura_syncbuffer: the host writes the call's  *)
(* argument and return buffer addresses and sets ARGOUT; the DSP runs the  *)
(* call, fills the return buffer and sets RETIN; the host hands the return *)
(* buffer to the core (aura_node_write) and sets IDLE.  At most one call   *)
(* is on the DSP at a time; the others wait in node->outbound_buffers.     *)
(*                                                                         *)
(* The DSP runs concurrently with the host.  Its own steps (booting,       *)
(* serving the sync buffer, halting, being restarted by another program)   *)
(* are the environment.  The host's steps are the event-loop callbacks:    *)
(* nmc_handle_events, the user's aura_queue_call, the loop draining the    *)
(* inbound queue, and aura_close.                                          *)
(***************************************************************************)
EXTENDS AuraCore

CONSTANTS
  DspRestarts,  \* may another program restart a halted DSP core?
  Images        \* the DSP images (abs files) nmc_open may be given

ASSUME DspRestarts \in BOOLEAN

VARIABLES
  phase,       \* the node's life: "INIT" (before aura_open), "OPEN", "CLOSED",
               \* or "FAILED" (nmc_open returned an error)
  node,        \* the aura_node (AuraCore's record)
  dsp,         \* easynmc_core_state(h): "IDLE", "STARTING", "RUNNING", "STOPPED"
  sbuf,        \* *pv->sbuf: state and the two buffer addresses it holds
  isOnline,    \* pv->is_online
  currentOut,  \* pv->current_out
  currentIn,   \* pv->current_in
  mapped,      \* pv->sbuf # NULL: the image had a sync buffer section
  etbl         \* pv->etbl: its capacity, the objects added to it and the
               \* name/argfmt/retfmt strings nmc_fetch_str gave for each

vars == <<phase, node, dsp, sbuf, isOnline, currentOut, currentIn, mapped, etbl>>
nmcVars == <<dsp, sbuf, isOnline, currentOut, currentIn, mapped, etbl>>

SyncState == {"IDLE", "ARGOUT", "RETIN"}   \* SYNCBUF_IDLE, _ARGOUT, _RETIN

(* The export table parse_and_register_exports builds from the DSP image. *)
NmcTbl == "nmc_exports"

-----------------------------------------------------------------------------
(* An image is its ELF sections in file order, each [name, addr, size]     *)
(* (sh_addr in 32-bit DSP words, sh_size), the export table header checks *)
(* and the entries of the export table before its 0 terminator, each its  *)
(* type and its name, argfmt and retfmt fields: AURA_STRLEN 32-bit words, *)
(* one character per word, zero-terminated and zero-padded.               *)
ObjTypes == {"METHOD", "EVENT", "BAD"}

(* nmc_fetch_str, the length loop: while (n[len++]); len counts the words *)
(* up to and including the terminator.                                     *)
RECURSIVE FetchLen(_, _)
FetchLen(n, i) == IF n[i] = 0 THEN i ELSE FetchLen(n, i + 1)

(* The copy loop: do { *tmp++ = *n++ & 0xff } while the next word is not  *)
(* zero; the test is made after the copy.                                 *)
RECURSIVE FetchCopy(_, _)
FetchCopy(n, k) == <<n[k] % 256>> \o (IF n[k + 1] = 0 THEN <<>> ELSE FetchCopy(n, k + 1))

(* Fault variant: the copy pre-increments, *tmp++ = *++n & 0xff.          *)
nmc_fetch_str_preInc(n) == [len |-> FetchLen(n, 1), bytes |-> FetchCopy(n, 2) \o <<0>>]

(* nmc_fetch_str: malloc(len), the copy, then the terminating *tmp = 0.    *)
(* Returns the allocation's size and the bytes written from its start.     *)
nmc_fetch_str(n) == [len |-> FetchLen(n, 1), bytes |-> FetchCopy(n, 1) \o <<0>>]

(* The C string a char buffer holds: its bytes before the first NUL.       *)
CString(b) == SubSeq(b, 1, SelectInSeq(b, LAMBDA c : c = 0) - 1)

(* handle_aura_rpc_section: the section filter the loader calls for every  *)
(* section.  A non-empty export section sets eaddr (the byte address       *)
(* sh_addr << 2 in a uint32, which drops the top two bits) and esz; a non-empty sync buffer section maps pv->sbuf;   *)
(* an empty one of either is ignored.                                      *)
handle_aura_rpc_section(pv, sec) ==
  IF sec.name = ".aura_rpc_exports" /\ sec.size # 0
  THEN [pv EXCEPT !.eaddr = (sec.addr % 2^30) * 4, !.esz = sec.size]
  ELSE IF sec.name = ".aura_rpc_syncbuf" /\ sec.size # 0
  THEN [pv EXCEPT !.sbuf = TRUE]
  ELSE pv

(* easynmc_load_abs runs the filter over the image's sections in order.    *)
LoadSections(img) ==
  FoldLeft(handle_aura_rpc_section, [eaddr |-> 0, esz |-> 0, sbuf |-> FALSE],
           img.sections)

(* The first loop of parse_and_register_exports: the entries before the    *)
(* first one that is neither a method nor an event.                        *)
RECURSIVE CountExports(_)
CountExports(objs) ==
  IF objs = <<>> \/ Head(objs).type \notin {"METHOD", "EVENT"} THEN 0
  ELSE 1 + CountExports(Tail(objs))

(* Fault variant: the second loop adds a bad entry instead of stopping.    *)
RECURSIVE AddExports_noBreak(_)
AddExports_noBreak(objs) ==
  IF objs = <<>> THEN 0 ELSE 1 + AddExports_noBreak(Tail(objs))

(* The second loop: aura_etable_add for each method or event entry, up to  *)
(* the first bad one ("load stopped").                                     *)
RECURSIVE AddExports(_)
AddExports(objs) ==
  IF objs = <<>> \/ Head(objs).type = "BAD" THEN 0
  ELSE 1 + AddExports(Tail(objs))

(* parse_and_register_exports: the magic and strlen checks return -EIO;    *)
(* otherwise a table of CountExports entries is created and filled, each   *)
(* added entry with the strings nmc_fetch_str makes of its three fields.   *)
parse_and_register_exports(img) ==
  IF ~img.magic \/ ~img.strlenOk THEN [ok |-> FALSE, cap |-> 0, n |-> 0, strs |-> <<>>, src |-> <<>>]
  ELSE LET n == AddExports(img.objs)
       IN  [ok |-> TRUE, cap |-> CountExports(img.objs), n |-> n,
            strs |-> [i \in 1 .. n |-> [f \in 1 .. 3 |-> CString(nmc_fetch_str(img.objs[i].fields[f]).bytes)]],
            src |-> [i \in 1 .. n |-> img.objs[i].fields]]

(* nmc_open with image img.  easynmc_open, the calloc of pv and            *)
(* easynmc_load_abs may fail (loadOk); a load without a non-empty export   *)
(* section at a non-zero address, or a bad table header, fails too.  The   *)
(* failure paths free pv, close the handle and return an error: aura_open  *)
(* returns NULL ("FAILED").  Otherwise pv->etbl is built (not yet active),  *)
(* the descriptors are registered and the DSP program is started.          *)
nmc_open ==
  /\ phase = "INIT"
  /\ \E img \in Images, loadOk \in BOOLEAN :
       LET pv == LoadSections(img)
           t  == parse_and_register_exports(img)
       IN  IF loadOk /\ pv.eaddr # 0 /\ t.ok
           THEN /\ phase' = "OPEN"
                /\ dsp' = "STARTING"
                /\ mapped' = pv.sbuf
                /\ etbl' = [cap |-> t.cap, n |-> t.n, strs |-> t.strs, src |-> t.src]
           ELSE /\ phase' = "FAILED"
                /\ UNCHANGED <<dsp, mapped, etbl>>
  /\ UNCHANGED <<node, sbuf, isOnline, currentOut, currentIn>>

(* do_issue_next_call: take the head of the outbound queue, allocate its   *)
(* return buffer, publish both to the DSP and set ARGOUT.                  *)
do_issue_next_call(n) ==
  LET d   == aura_dequeue_buffer(n.outbound)
      out == d[1]
      in  == RetBuf(out)
  IN  \/ /\ out = NoBuf
         /\ node' = n
         /\ UNCHANGED <<sbuf, currentOut, currentIn>>
      \/ /\ out # NoBuf
         /\ node' = aura_buffer_request([n EXCEPT !.outbound = d[2]], in)
         /\ currentOut' = out
         /\ currentIn'  = in
         /\ sbuf' = [state |-> "ARGOUT", out |-> out, in |-> in]

(* The DSP core may halt while the handler runs, between its two reads of *)
(* easynmc_core_state(): the second read may see the core stopped.        *)
StateAfterFirstRead(d) == IF d = "RUNNING" THEN {"RUNNING", "STOPPED"} ELSE {d}

(* nmc_handle_events, the whole handler, when its second read of the core *)
(* state sees d2: go ONLINE when the core runs (activating pv->etbl), go   *)
(* OFFLINE when it no longer runs, then, if pv->sbuf is mapped, serve the *)
(* sync buffer: issue the next call when IDLE, deliver the result when    *)
(* RETIN, wait when ARGOUT.                                               *)
nmc_handle_events(d2) ==
  /\ phase = "OPEN"
  /\ LET goOnline  == ~isOnline /\ dsp = "RUNNING"
         n1        == IF goOnline
                      THEN aura_set_status(aura_etable_activate(node, NmcTbl), "ONLINE")
                      ELSE node
         goOffline == (isOnline \/ goOnline) /\ d2 # "RUNNING"
         n2        == IF goOffline THEN aura_set_status(n1, "OFFLINE") ELSE n1
     IN  /\ dsp' = d2
         /\ isOnline' = ((isOnline \/ goOnline) /\ ~goOffline)
         /\ \/ /\ ~mapped
               /\ node' = n2
               /\ UNCHANGED <<sbuf, currentOut, currentIn>>
            \/ /\ mapped /\ sbuf.state = "IDLE"
               /\ do_issue_next_call(n2)
            \/ /\ mapped /\ sbuf.state = "RETIN"
               /\ node' = aura_node_write(aura_buffer_release(n2, currentOut), currentIn)
               /\ currentOut' = NoBuf
               /\ currentIn'  = NoBuf
               /\ sbuf' = [sbuf EXCEPT !.state = "IDLE"]
            \/ /\ mapped /\ sbuf.state = "ARGOUT"
               /\ node' = n2
               /\ UNCHANGED <<sbuf, currentOut, currentIn>>
  /\ UNCHANGED <<phase, mapped, etbl>>

(* The loop dispatches a descriptor event; the DSP core may halt while the *)
(* handler runs, between its two reads of easynmc_core_state().           *)
HandleEvent == \E d2 \in StateAfterFirstRead(dsp) : nmc_handle_events(d2)

(* Fault variant: the in-flight return buffer is not released on close.   *)
nmc_close_keepIn(n) ==
  IF currentOut # NoBuf THEN aura_buffer_release(n, currentOut) ELSE n

(* nmc_close: drop the descriptors, close the device and release the      *)
(* buffers of the call still on the DSP, if any.                           *)
nmc_close(n) ==
  LET n1 == IF currentOut # NoBuf THEN aura_buffer_release(n, currentOut) ELSE n
  IN  IF currentIn # NoBuf THEN aura_buffer_release(n1, currentIn) ELSE n1

(* aura_close: the core cancels and releases its work, then nmc_close.     *)
aura_close ==
  /\ phase = "OPEN"
  /\ phase' = "CLOSED"
  /\ node' = nmc_close(CoreClose(node))
  /\ currentOut' = NoBuf
  /\ currentIn'  = NoBuf
  /\ UNCHANGED <<dsp, sbuf, isOnline, mapped, etbl>>

-----------------------------------------------------------------------------
(* The user and the event loop.                                            *)

(* aura_queue_call / aura_start_call on a method object.  A call on an     *)
(* OFFLINE node is refused with no change of state.                        *)
UserCall ==
  /\ phase = "OPEN"
  /\ CanQueueCall(node)
  /\ \E o \in Objects : node' = aura_queue_call(node, o)
  /\ UNCHANGED <<phase, nmcVars>>

(* Event-loop step 6: one buffer of the inbound queue is processed.        *)
ProcessInbound ==
  /\ phase = "OPEN"
  /\ node.inbound # <<>>
  /\ node' = aura_process_inbound(node)
  /\ UNCHANGED <<phase, nmcVars>>

-----------------------------------------------------------------------------
(* The DSP: firmware running on the NeuroMatrix core (not in this         *)
(* repository).                                                            *)

DspBoot ==
  /\ phase = "OPEN" /\ dsp = "STARTING"
  /\ dsp' = "RUNNING"
  /\ UNCHANGED <<phase, node, sbuf, isOnline, currentOut, currentIn, mapped, etbl>>

(* The DSP runs the call published in the sync buffer.                     *)
DspServe ==
  /\ phase = "OPEN" /\ dsp = "RUNNING" /\ sbuf.state = "ARGOUT"
  /\ sbuf' = [sbuf EXCEPT !.state = "RETIN"]
  /\ UNCHANGED <<phase, node, dsp, isOnline, currentOut, currentIn, mapped, etbl>>

DspHalt ==
  /\ phase = "OPEN" /\ dsp \in {"STARTING", "RUNNING"}
  /\ dsp' = "STOPPED"
  /\ UNCHANGED <<phase, node, sbuf, isOnline, currentOut, currentIn, mapped, etbl>>

(* A restarted program either resumes with the sync buffer as it was or   *)
(* reloads the image, whose sync buffer section starts IDLE.              *)
DspRestart ==
  /\ DspRestarts
  /\ phase = "OPEN" /\ dsp = "STOPPED"
  /\ dsp' = "RUNNING"
  /\ sbuf' \in {sbuf, [sbuf EXCEPT !.state = "IDLE"]}
  /\ UNCHANGED <<phase, node, isOnline, currentOut, currentIn, mapped, etbl>>

-----------------------------------------------------------------------------
Init ==
  /\ phase = "INIT"
  /\ node = NodeInit
  /\ dsp = "IDLE"
  /\ sbuf = [state |-> "IDLE", out |-> NoBuf, in |-> NoBuf]
  /\ isOnline = FALSE
  /\ currentOut = NoBuf
  /\ currentIn = NoBuf
  /\ mapped = FALSE
  /\ etbl = [cap |-> 0, n |-> 0, strs |-> <<>>, src |-> <<>>]

Next ==
  \/ nmc_open
  \/ HandleEvent
  \/ UserCall
  \/ ProcessInbound
  \/ aura_close
  \/ DspBoot
  \/ DspServe
  \/ DspHalt
  \/ DspRestart

(* The event loop keeps dispatching the node's descriptors and draining   *)
(* its inbound queue; a booted DSP keeps serving its sync buffer.  The    *)
(* user (calls, close) and the DSP's halts and restarts get no fairness:  *)
(* the handler is fair only in its runs where the DSP does not halt.      *)
Fairness ==
  /\ WF_vars(nmc_handle_events(dsp))
  /\ WF_vars(ProcessInbound)
  /\ WF_vars(DspBoot)
  /\ WF_vars(DspServe)

Spec == Init /\ [][Next]_vars /\ Fairness

-----------------------------------------------------------------------------
MaybeBuf == Buffers \cup {NoBuf}

TypeOK ==
  /\ phase \in {"INIT", "OPEN", "CLOSED", "FAILED"}
  /\ node \in NodeType
  /\ dsp \in {"IDLE", "STARTING", "RUNNING", "STOPPED"}
  /\ sbuf \in [state : SyncState, out : MaybeBuf, in : MaybeBuf]
  /\ isOnline \in BOOLEAN
  /\ currentOut \in MaybeBuf
  /\ currentIn \in MaybeBuf
  /\ mapped \in BOOLEAN
  /\ etbl \in [cap : Nat, n : Nat, strs : Seq(Seq(Seq(Nat))), src : Seq(Seq(Seq(Nat)))]

-----------------------------------------------------------------------------
(* Every call the user queued is, at every moment, either still pending   *)
(* or has had its completion callback run exactly once: the OFFLINE       *)
(* cancellation, the sync-buffer hand-back and the loop's inbound drain    *)
(* never fail or complete a call twice or lose one (spec 7: "OFFLINE      *)
(* transitions fail every pending call exactly once").                    *)
EveryCallCompletesOnce == CompletesOnce(node)

(* A call reported COMPLETED receives its own return buffer: the result    *)
(* the DSP wrote for one call is never handed to a later call on the same  *)
(* object (the RETIN hand-back of nmc_handle_events against the OFFLINE   *)
(* cancellation of aura_set_status).                                       *)
ResultsMatchCalls == ResultsMatch(node)

(* Every buffer the node owns is held by exactly one of the outbound      *)
(* queue, the inbound queue or the transport's current_out/current_in,     *)
(* none is released twice, and aura_close leaves none behind.              *)
BuffersAccountedFor ==
  /\ ~node.badRelease
  /\ phase = "OPEN" =>
       node.live = ToSet(node.outbound) \cup ToSet(node.inbound)
                     \cup ({currentOut, currentIn} \ {NoBuf})
  /\ phase = "CLOSED" => node.live = {}

(* The export table parse_and_register_exports fills holds no more        *)
(* objects than aura_etable_create made room for: its two walks over the   *)
(* DSP's export section stop at the same entry, for every image.           *)
ExportsFitTable == etbl.n <= etbl.cap

(* The string an export field holds on the DSP: its characters before the *)
(* first zero word.                                                        *)
DspString(w) == [i \in 1 .. Min({j \in DOMAIN w : w[j] = 0}) - 1 |-> w[i]]

(* Every name, argfmt and retfmt nmc_open registers is the string the DSP *)
(* exported in that field, including the empty argfmt of an event and the *)
(* empty retfmt of a method that returns nothing.                          *)
ExportStringsFetched ==
  \A i \in 1 .. etbl.n : \A f \in 1 .. 3 : etbl.strs[i][f] = DspString(etbl.src[i][f])

(* The node's active export table is never one that has been released     *)
(* (nmc_handle_events activates pv->etbl each time the DSP is seen         *)
(* running again).                                                         *)
ActiveTableLive == node.tbl \notin node.freedTbls

(* Every call the user queued eventually gets its completion callback,    *)
(* whether the DSP answers, halts, or the node is closed.                  *)
CallsEventuallyComplete ==
  \A o \in Objects : \A i \in Calls : Queued(node, o, i) ~> Completed(node, o, i)

(* The node, seen through the core's state, implements CallEngine: calls  *)
(* are accepted only ONLINE and open, complete per object in queue order  *)
(* with their own results, and OFFLINE and close fail every pending call.  *)
Engine == INSTANCE CallEngine WITH
  status   <- node.status,
  queue    <- [o \in Objects |-> PendingCalls(node, o)],
  done     <- [o \in Objects |-> Outcomes(node, o)],
  closed   <- phase = "CLOSED",
  nextCall <- node.nextCall

ImplementsCallEngine == Engine!Spec

=============================================================================
