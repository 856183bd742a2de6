--------------------------- MODULE UartTransport ----------------------------
(***************************************************************************)
(* The "uart" transport (src/src/transports/transport-uart.c) with the     *)
(* node core of AuraCore.  Despite its name it talks to a peer over a TCP  *)
(* socket: for every outbound buffer it sends the object's name, waits for *)
(* the peer's reply with a blocking recv, and hands the argument buffer    *)
(* itself back to the core as the call's result.  The node goes ONLINE     *)
(* from a one-shot timer armed in uart_open.                               *)
(***************************************************************************)
EXTENDS AuraCore

VARIABLES
  phase,        \* "INIT" (before aura_open), "OPEN", "FAILED" (open failed), "CLOSED"
  node,         \* the aura_node (AuraCore's record)
  onlineTimer,  \* the timer uart_open armed and that has not fired yet
  answered      \* history: calls whose name was sent and whose reply arrived

vars == <<phase, node, onlineTimer, answered>>

(* What happens to one buffer on the socket.                               *)
PeerOutcomes == {"ANSWERED", "SEND_FAILED", "RECV_FAILED"}

UartTbl == "uart_exports"   \* the table uart_populate_etable builds

-----------------------------------------------------------------------------
(* uart_open: create and connect the socket; when connect fails it returns *)
(* an error (aura_open fails); otherwise it arms the online timer.        *)
uart_open ==
  /\ phase = "INIT"
  /\ \/ phase' = "OPEN" /\ onlineTimer' = TRUE
     \/ phase' = "FAILED" /\ onlineTimer' = FALSE
  /\ UNCHANGED <<node, answered>>

(* online_cb_fn: the timer fires once (AURA_TIMER_FREE), the export table *)
(* is built and activated and the node goes ONLINE.                        *)
uart_online(n) == aura_set_status(aura_etable_activate(n, UartTbl), "ONLINE")

online_cb_fn ==
  /\ phase = "OPEN" /\ onlineTimer
  /\ node' = uart_online(node)
  /\ onlineTimer' = FALSE
  /\ UNCHANGED <<phase, answered>>

(* One pass of uart_handle_event's loop: read the next outbound buffer,   *)
(* send, recv (failures are only logged), and write the buffer back.       *)
uart_serve(acc, r) ==
  LET rd == aura_node_read(acc.node)
  IN  [node     |-> aura_node_write(rd[2], rd[1]),
       answered |-> IF r = "ANSWERED" THEN acc.answered \cup {rd[1].call}
                                      ELSE acc.answered]

(* Fault variant: a buffer whose send failed is dropped, not written back. *)
uart_handle_event_dropFailed(n, a, res) ==
  LET step(acc, r) ==
        LET rd == aura_node_read(acc.node)
        IN  IF r = "SEND_FAILED" THEN [acc EXCEPT !.node = rd[2]]
            ELSE [node     |-> aura_node_write(rd[2], rd[1]),
                  answered |-> IF r = "ANSWERED" THEN acc.answered \cup {rd[1].call}
                                                 ELSE acc.answered]
  IN  FoldLeft(step, [node |-> n, answered |-> a], res)

(* uart_handle_event: the while loop drains the whole outbound queue; res *)
(* is the peer outcome for each buffer, in queue order; n and a are the   *)
(* node and the answered calls before the handler runs.                   *)
uart_handle_event(n, a, res) ==
  FoldLeft(uart_serve, [node |-> n, answered |-> a], res)

HandleEvent ==
  /\ phase = "OPEN" /\ node.outbound # <<>>
  /\ \E res \in [1 .. Len(node.outbound) -> PeerOutcomes] :
       LET r == uart_handle_event(node, answered, res)
       IN  node' = r.node /\ answered' = r.answered
  /\ UNCHANGED <<phase, onlineTimer>>

(* aura_close: the core cancels and releases its work, then uart_close    *)
(* closes the socket.                                                      *)
aura_close ==
  /\ phase = "OPEN"
  /\ phase' = "CLOSED"
  /\ node' = CoreClose(node)
  /\ onlineTimer' = FALSE
  /\ UNCHANGED answered

UserCall ==
  /\ phase = "OPEN" /\ CanQueueCall(node)
  /\ \E o \in Objects : node' = aura_queue_call(node, o)
  /\ UNCHANGED <<phase, onlineTimer, answered>>

ProcessInbound ==
  /\ phase = "OPEN" /\ node.inbound # <<>>
  /\ node' = aura_process_inbound(node)
  /\ UNCHANGED <<phase, onlineTimer, answered>>

-----------------------------------------------------------------------------
Init ==
  /\ phase = "INIT"
  /\ node = NodeInit
  /\ onlineTimer = FALSE
  /\ answered = {}

Next ==
  \/ uart_open \/ online_cb_fn \/ HandleEvent \/ aura_close
  \/ UserCall \/ ProcessInbound

(* The loop fires due timers, runs the handler on HAVE_OUTBOUND and       *)
(* drains the inbound queue; the user's calls and close get no fairness.  *)
Fairness == WF_vars(online_cb_fn) /\ WF_vars(HandleEvent) /\ WF_vars(ProcessInbound)

Spec == Init /\ [][Next]_vars /\ Fairness

-----------------------------------------------------------------------------
TypeOK ==
  /\ phase \in {"INIT", "OPEN", "FAILED", "CLOSED"}
  /\ node \in NodeType
  /\ onlineTimer \in BOOLEAN
  /\ answered \subseteq Calls

(* Every queued call is pending or has had exactly one completion, through *)
(* the handler's drain and the close-time cancellation.                    *)
EveryCallCompletesOnce == CompletesOnce(node)

(* The buffer uart_handle_event writes back completes the call it was     *)
(* queued for, even when the queue holds calls of several objects.         *)
ResultsMatchCalls == ResultsMatch(node)

(* Every buffer the node owns is in its outbound or inbound queue, none is *)
(* released twice, and aura_close leaves none behind.                      *)
BuffersAccountedFor ==
  /\ ~node.badRelease
  /\ phase = "OPEN" => node.live = ToSet(node.outbound) \cup ToSet(node.inbound)
  /\ phase = "CLOSED" => node.live = {}

(* Every queued call eventually gets its completion callback.              *)
CallsEventuallyComplete ==
  \A o \in Objects : \A i \in Calls : Queued(node, o, i) ~> Completed(node, o, i)

(* A call is reported COMPLETED only if the peer received it and answered *)
(* (spec 4.6/7: asynchronous failures reach the callback as a status).     *)
CompletedOnlyIfAnswered ==
  \A o \in Objects : \A i \in DOMAIN node.done[o] :
    node.done[o][i].status = "COMPLETED" => node.done[o][i].call \in answered

(* The node, seen through the core's state, implements CallEngine: calls  *)
(* are accepted only ONLINE and open, complete per object in queue order  *)
(* with their own results, and OFFLINE and close fail every pending call.  *)
Engine == INSTANCE CallEngine WITH
  status   <- node.status,
  queue    <- [o \in Objects |-> PendingCalls(node, o)],
  done     <- [o \in Objects |-> Outcomes(node, o)],
  closed   <- phase = "CLOSED",
  nextCall <- node.nextCall

ImplementsCallEngine == Engine!Spec

=============================================================================
