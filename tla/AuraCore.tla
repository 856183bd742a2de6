------------------------------ MODULE AuraCore ------------------------------
(***************************************************************************)
(* The node core of aura: one node's status, its outbound and inbound      *)
(* buffer queues, the per-object pending counters and completion callback  *)
(* slot, the buffers it holds, and its active export table.                *)
(*                                                                         *)
(* The core's C sources (aura.c, node.c, buffer.c, export.c) are not part  *)
(* of this repository's src/, so the operations below follow spec.md       *)
(* (4.3, 4.4, 4.6, 4.8 step 6) and the field layout of                     *)
(* src/include/aura/aura.h; the queue primitives follow src/queue.c.       *)
(*                                                                         *)
(* Every operation is a function from a node record to a node record, so  *)
(* that a transport handler which calls several core functions in a row    *)
(* (set_status, then buffer_release, then node_write) is one atomic step   *)
(* of the transport's module, as it is one uninterrupted C call.           *)
(*                                                                         *)
(* Two fields are history, not program state: submitted[o] is the order in *)
(* which calls on object o were queued, and done[o] is the sequence of     *)
(* completion callbacks fired for o.  Completion i of o belongs, by the    *)
(* per-object FIFO rule of spec 4.6, to call submitted[o][i].              *)
(***************************************************************************)
EXTENDS Naturals, Sequences, SequencesExt

CONSTANTS
  Objects,   \* the method objects of the active export table
  MaxCalls,  \* bound on the number of calls the user submits
  NoCall,    \* model value: no call (a completion with nobody to pair with)
  NoBuf,     \* model value: NULL buffer pointer
  NoTbl      \* model value: node->tbl before any table is activated

ASSUME MaxCalls \in Nat \ {0}

Calls      == 1 .. MaxCalls
NodeStatus == {"OFFLINE", "ONLINE"}                       \* aura_node_status
CallStatus == {"COMPLETED", "TIMEOUT", "TRANSPORT_FAIL"}  \* aura_call_status

(* A buffer is named by the call it serializes and whether it carries the *)
(* call's arguments or its return values.                                 *)
Buffers == [call : Calls, obj : Objects, kind : {"arg", "ret"}]
RetBuf(b) == [b EXCEPT !.kind = "ret"]

Completions ==
  [call : Calls \cup {NoCall}, status : CallStatus,
   cb : Calls \cup {NoCall}, origin : Calls \cup {NoCall}]

NodeType ==
  [status : NodeStatus, outbound : Seq(Buffers), inbound : Seq(Buffers),
   pending : [Objects -> 0 .. MaxCalls], objCb : [Objects -> Calls \cup {NoCall}],
   live : SUBSET Buffers, badRelease : BOOLEAN,
   submitted : [Objects -> Seq(Calls)], done : [Objects -> Seq(Completions)],
   tbl : STRING \cup {NoTbl}, freedTbls : SUBSET STRING, nextCall : 1 .. MaxCalls + 1]

(* The node as aura_open leaves it: OFFLINE, empty queues, no table.       *)
NodeInit ==
  [status |-> "OFFLINE", outbound |-> <<>>, inbound |-> <<>>,
   pending |-> [o \in Objects |-> 0], objCb |-> [o \in Objects |-> NoCall],
   live |-> {}, badRelease |-> FALSE,
   submitted |-> [o \in Objects |-> <<>>], done |-> [o \in Objects |-> <<>>],
   tbl |-> NoTbl, freedTbls |-> {}, nextCall |-> 1]

-----------------------------------------------------------------------------
(* src/queue.c: the three list primitives on a buffer queue.               *)

aura_requeue_buffer(q, b) == <<b>> \o q            \* list_add at the head

aura_queue_buffer(q, b) == Append(q, b)            \* list_add_tail

(* Fault variant: the entry taken is the list's last (head->prev).        *)
aura_dequeue_buffer_last(q) ==
  IF q = <<>> THEN <<NoBuf, q>> ELSE <<q[Len(q)], SubSeq(q, 1, Len(q) - 1)>>

(* Returns <<buffer, rest>>; NULL and the list unchanged when empty.       *)
aura_dequeue_buffer(q) ==
  IF q = <<>> THEN <<NoBuf, q>> ELSE <<Head(q), Tail(q)>>

-----------------------------------------------------------------------------
(* Buffers: request adds a buffer to those the node owns, release gives it *)
(* back to the pool.  Releasing a buffer the node no longer owns is a      *)
(* double release, remembered in badRelease.                               *)

aura_buffer_request(n, b) == [n EXCEPT !.live = @ \cup {b}]

aura_buffer_release(n, b) ==
  [n EXCEPT !.live = @ \ {b}, !.badRelease = @ \/ b \notin n.live]

ReleaseAll(n, S) ==
  [n EXCEPT !.live = @ \ S, !.badRelease = @ \/ ~(S \subseteq n.live)]

-----------------------------------------------------------------------------
(* Completions.  The callback and argument live in the object (aura.h:    *)
(* calldonecb, arg), so a completion runs the callback of the call that   *)
(* was queued last on the object: cb records whose it is.                 *)

PairedCall(n, o, j) ==
  IF j <= Len(n.submitted[o]) THEN n.submitted[o][j] ELSE NoCall

Completion(n, o, j, st, origin) ==
  [call |-> PairedCall(n, o, j), status |-> st, cb |-> n.objCb[o],
   origin |-> origin]

(* The pending calls of o, each failed with TRANSPORT_FAIL.                *)
FailPending(n, o) ==
  [i \in 1 .. n.pending[o] |->
     Completion(n, o, Len(n.done[o]) + i, "TRANSPORT_FAIL", NoCall)]

(* Fault variant: only the calls still in the outbound queue are failed,  *)
(* the call the transport holds is forgotten.                              *)
CancelAll_outboundOnly(n) ==
  LET m == ReleaseAll(n, ToSet(n.outbound))
      queued(o) == SelectSeq(n.outbound, LAMBDA b : b.obj = o)
      fails(o) == [i \in 1 .. Len(queued(o)) |->
                     Completion(n, o, Len(n.done[o]) + i, "TRANSPORT_FAIL", NoCall)]
  IN  [m EXCEPT !.done     = [o \in Objects |-> @[o] \o fails(o)],
                !.pending  = [o \in Objects |-> 0],
                !.outbound = <<>>]

(* spec 4.4 / 5: fail every pending call once, release the outbound        *)
(* buffers, leave every pending counter at zero.                           *)
CancelAll(n) ==
  LET m == ReleaseAll(n, ToSet(n.outbound))
  IN  [m EXCEPT !.done     = [o \in Objects |-> @[o] \o FailPending(n, o)],
                !.pending  = [o \in Objects |-> 0],
                !.outbound = <<>>]

-----------------------------------------------------------------------------
(* Fault variant: the status changes but nothing is cancelled.            *)
aura_set_status_noCancel(n, s) == [n EXCEPT !.status = s]

(* aura_set_status (spec 4.4): ONLINE -> OFFLINE cancels everything.       *)
aura_set_status(n, s) ==
  IF n.status = "ONLINE" /\ s = "OFFLINE"
  THEN [CancelAll(n) EXCEPT !.status = s]
  ELSE [n EXCEPT !.status = s]

(* aura_queue_call (spec 4.6) after its checks passed: the buffer is       *)
(* tagged with the object, queued, pending is raised and the object's     *)
(* callback slot now holds this call's callback and argument.             *)
(* Fault variant: the bound on calls is off by one.                        *)
CanQueueCall_offByOne(n) == n.status = "ONLINE" /\ n.nextCall <= MaxCalls + 1

CanQueueCall(n) == n.status = "ONLINE" /\ n.nextCall <= MaxCalls

(* Fault variant: object.pending is not raised.                           *)
aura_queue_call_noPending(n, o) ==
  LET c == n.nextCall
      b == [call |-> c, obj |-> o, kind |-> "arg"]
  IN  [n EXCEPT !.outbound     = aura_queue_buffer(@, b),
                !.objCb[o]     = c,
                !.submitted[o] = Append(@, c),
                !.live         = @ \cup {b},
                !.nextCall     = c + 1]

aura_queue_call(n, o) ==
  LET c == n.nextCall
      b == [call |-> c, obj |-> o, kind |-> "arg"]
  IN  [n EXCEPT !.outbound     = aura_queue_buffer(@, b),
                !.pending[o]   = @ + 1,
                !.objCb[o]     = c,
                !.submitted[o] = Append(@, c),
                !.live         = @ \cup {b},
                !.nextCall     = c + 1]

(* aura_node_read (spec 4.5): the transport takes the next buffer to send; *)
(* returns <<buffer, node>>, NULL when the outbound queue is empty.        *)
aura_node_read(n) ==
  LET d == aura_dequeue_buffer(n.outbound)
  IN  <<d[1], [n EXCEPT !.outbound = d[2]]>>

(* aura_node_write (spec 4.5): the transport hands over a received buffer. *)
aura_node_write(n, b) == [n EXCEPT !.inbound = aura_queue_buffer(@, b)]

(* Fault variant: the callback runs whether or not a call is pending.     *)
aura_process_inbound_unchecked(n) ==
  LET b == Head(n.inbound)
      o == b.obj
      m == [aura_buffer_release(n, b) EXCEPT !.inbound = Tail(@)]
  IN  [m EXCEPT !.done[o] = Append(@, Completion(n, o, Len(n.done[o]) + 1,
                                                 "COMPLETED", b.call)),
                !.pending[o] = @ - 1]

(* Event loop step 6 (spec 4.6, 4.8): the head of the inbound queue is a   *)
(* method's return buffer.  While the object has a pending call the       *)
(* callback runs with COMPLETED and releases the buffer; with no pending  *)
(* call the result is an orphan and is released unused (the spec does not *)
(* say otherwise, and pending never goes negative).                       *)
aura_process_inbound(n) ==
  LET b == Head(n.inbound)
      o == b.obj
      m == [aura_buffer_release(n, b) EXCEPT !.inbound = Tail(@)]
  IN  IF n.pending[o] > 0
      THEN [m EXCEPT !.done[o] = Append(@, Completion(n, o, Len(n.done[o]) + 1,
                                                      "COMPLETED", b.call)),
                     !.pending[o] = @ - 1]
      ELSE m

(* aura_etable_activate (spec 4.3): install t; the previous table is      *)
(* migrated by name and then released.                                    *)
aura_etable_activate(n, t) ==
  [n EXCEPT !.tbl = t,
            !.freedTbls = IF n.tbl = NoTbl THEN @ ELSE @ \cup {n.tbl}]

(* aura_close, core part (spec 4.4, 5): cancel all work, release the       *)
(* inbound buffers and the table; the transport's close runs after it.     *)
CoreClose(n) ==
  LET m == ReleaseAll(CancelAll(n), ToSet(n.inbound))
  IN  [m EXCEPT !.inbound = <<>>, !.tbl = NoTbl,
                !.freedTbls = IF n.tbl = NoTbl THEN @ ELSE @ \cup {n.tbl}]

-----------------------------------------------------------------------------
(* Predicates on a node that the transport modules state as properties.   *)

(* Every queued call is either pending or has had exactly one completion. *)
CompletesOnce(n) ==
  \A o \in Objects : Len(n.done[o]) + n.pending[o] = Len(n.submitted[o])

(* A COMPLETED call received the return buffer made for it.               *)
ResultsMatch(n) ==
  \A o \in Objects : \A i \in DOMAIN n.done[o] :
    n.done[o][i].status = "COMPLETED" => n.done[o][i].origin = n.done[o][i].call

(* Call i of object o, once queued, has had its completion.               *)
Queued(n, o, i)   == Len(n.submitted[o]) >= i
Completed(n, o, i) == Len(n.done[o]) >= i

(* The refinement mapping to CallEngine: the calls of o still pending,     *)
(* oldest first, and the completions delivered, with whose result each    *)
(* carried.                                                                *)
PendingCalls(n, o) == SubSeq(n.submitted[o], Len(n.done[o]) + 1, Len(n.submitted[o]))

Outcomes(n, o) ==
  [i \in DOMAIN n.done[o] |->
     [call |-> n.done[o][i].call, status |-> n.done[o][i].status,
      result |-> n.done[o][i].origin]]

=============================================================================
