----------------------------- MODULE CallEngine -----------------------------
(***************************************************************************)
(* What aura's call engine promises one node's user (spec 4.4, 4.6, 7):   *)
(* calls are accepted only while the node is ONLINE and open; the calls   *)
(* pending on an object complete in the order they were queued, each with *)
(* its own result; going OFFLINE or closing the node fails every pending  *)
(* call with TRANSPORT_FAIL, each exactly once.                           *)
(*                                                                         *)
(* The transports' modules implement this specification under a          *)
(* refinement mapping from the node core's state.                         *)
(***************************************************************************)
EXTENDS Naturals, Sequences

CONSTANTS Objects, MaxCalls, NoCall

VARIABLES
  status,    \* "ONLINE" or "OFFLINE"
  queue,     \* queue[o]: the calls pending on object o, oldest first
  done,      \* done[o]: the completions delivered for o, in order
  closed,    \* the node has been closed
  nextCall   \* the name the next accepted call gets

vars == <<status, queue, done, closed, nextCall>>

Calls == 1 .. MaxCalls

(* A completion names its call, its status and whose result it carries.  *)
Outcome(c, st, r) == [call |-> c, status |-> st, result |-> r]

(* Every pending call is failed, in queue order, and no call stays queued. *)
FailEverything ==
  /\ done' = [o \in Objects |->
                done[o] \o [i \in DOMAIN queue[o] |->
                              Outcome(queue[o][i], "TRANSPORT_FAIL", NoCall)]]
  /\ queue' = [o \in Objects |-> <<>>]

Init ==
  /\ status = "OFFLINE"
  /\ queue = [o \in Objects |-> <<>>]
  /\ done = [o \in Objects |-> <<>>]
  /\ closed = FALSE
  /\ nextCall = 1

Submit(o) ==
  /\ status = "ONLINE" /\ ~closed /\ nextCall <= MaxCalls
  /\ queue' = [queue EXCEPT ![o] = Append(@, nextCall)]
  /\ nextCall' = nextCall + 1
  /\ UNCHANGED <<status, done, closed>>

(* Completions delivered together, in one iteration of the node's loop:  *)
(* the k[o] oldest pending calls of each object o complete, in order,     *)
(* each with its own result.                                               *)
Complete ==
  \E k \in [Objects -> 0 .. MaxCalls] :
    /\ \A o \in Objects : k[o] <= Len(queue[o])
    /\ \E o \in Objects : k[o] > 0
    /\ done' = [o \in Objects |->
                  done[o] \o [i \in 1 .. k[o] |-> Outcome(queue[o][i], "COMPLETED", queue[o][i])]]
    /\ queue' = [o \in Objects |-> SubSeq(queue[o], k[o] + 1, Len(queue[o]))]
    /\ UNCHANGED <<status, closed, nextCall>>

GoOnline ==
  /\ status = "OFFLINE" /\ ~closed
  /\ status' = "ONLINE"
  /\ UNCHANGED <<queue, done, closed, nextCall>>

GoOffline ==
  /\ status = "ONLINE"
  /\ status' = "OFFLINE"
  /\ FailEverything
  /\ UNCHANGED <<closed, nextCall>>

Close ==
  /\ ~closed
  /\ closed' = TRUE
  /\ FailEverything
  /\ UNCHANGED <<status, nextCall>>

Next ==
  \/ \E o \in Objects : Submit(o)
  \/ Complete \/ GoOnline \/ GoOffline \/ Close

Spec == Init /\ [][Next]_vars

=============================================================================
