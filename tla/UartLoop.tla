------------------------------ MODULE UartLoop -------------------------------
(***************************************************************************)
(* The uart transport driven by the event loop: UartTransport's node and  *)
(* handlers composed with EventLoop's loop functions for the one node.    *)
(*                                                                         *)
(* uart_open starts the online timer while the node has no loop yet, so   *)
(* the timer is only marked active; it is armed when the node is added to *)
(* a loop (its auto-created one, from aura_wait_status, or a user loop).  *)
(* A dispatch of the node's loop runs, in the order of spec 4.8, the      *)
(* transport's handler on STARTED, the timer callback online_cb_fn when    *)
(* the module reports the timer, the handler again on HAVE_OUTBOUND, and  *)
(* the drain of the inbound queue, all in one step of the loop thread.    *)
(***************************************************************************)
EXTENDS AuraCore

CONSTANTS
  UNode,    \* the uart node
  Loops,    \* loops the user creates
  NoLoop,   \* model value: NULL loop pointer
  NoNode    \* model value: no node

VARIABLES phase, node, onlineTimer, answered, el, delivered

uvars == <<phase, node, onlineTimer, answered>>
vars  == <<phase, node, onlineTimer, answered, el, delivered>>

U  == INSTANCE UartTransport

(* The loop side sees the node's status, and the online timer as the one  *)
(* timer of the node that was started and has neither fired nor stopped.  *)
EL == INSTANCE EventLoop WITH
  Nodes     <- {UNode},
  Fds       <- {},
  status    <- [n \in {UNode} |-> node.status],
  userArmed <- [n \in {UNode} |-> onlineTimer]

-----------------------------------------------------------------------------
(* aura_open with the uart transport: uart_open, whose timer start finds  *)
(* no loop on the new node.                                                *)
Open ==
  /\ U!uart_open
  /\ el' = IF phase' = "OPEN" THEN EL!aura_timer_start(el, UNode) ELSE el
  /\ delivered' = <<>>

(* A loop of the user: created empty or with the node                     *)
(* (aura_eventloop_create_empty / aura_eventloop_create), or the node     *)
(* added to an empty one; add and create destroy the node's auto-created *)
(* loop and re-arm its active timer.  The node is never removed from its  *)
(* loop while open.                                                        *)
CreateEmpty ==
  /\ phase = "OPEN" /\ EL!UserFree
  /\ \E l \in Loops : el.loopState[l] = "NONE" /\ el' = EL!aura_eventloop_create_empty(el, l)
  /\ delivered' = <<>>
  /\ UNCHANGED uvars

Create ==
  /\ phase = "OPEN" /\ EL!UserFree /\ EL!MayBind(UNode)
  /\ \E l \in Loops : el.loopState[l] = "NONE" /\ el' = EL!aura_eventloop_vcreate(el, l, <<UNode>>)
  /\ delivered' = <<>>
  /\ UNCHANGED uvars

Add ==
  /\ phase = "OPEN" /\ EL!UserFree /\ EL!MayBind(UNode)
  /\ \E l \in Loops : el.loopState[l] = "LIVE" /\ el' = EL!aura_eventloop_add(el, l, UNode)
  /\ delivered' = <<>>
  /\ UNCHANGED uvars

(* Loop l is one of the node's: the handlers of the node run.             *)
Serves(l) == UNode \in ToSet(el.nodelist[l])

(* The loop returns early for a node the user waits on, after its STARTED. *)
ReturnsEarly(l) == \E n \in ToSet(el.nodelist[l]) : ~el.startSent[n] /\ el.waiting[n]

(* The node's handlers in a dispatch of loop l that delivered evts, in    *)
(* the order of spec 4.8: uart_handle_event on STARTED, online_cb_fn on   *)
(* the timer, uart_handle_event on HAVE_OUTBOUND when the outbound queue  *)
(* is not empty, then the drain of the inbound queue; the last two only   *)
(* when the loop did not return early.  res are the peer's outcomes for   *)
(* the buffers the handler sends.                                         *)
handlers(l, evts, res) ==
  LET h0     == [node |-> node, answered |-> answered]
      h1     == IF <<UNode, "STARTED">> \in ToSet(evts)
                THEN U!uart_handle_event(h0.node, h0.answered, res) ELSE h0
      h2     == IF <<UNode, "TIMER">> \in ToSet(evts)
                THEN [h1 EXCEPT !.node = U!uart_online(@)] ELSE h1
      polled == Serves(l) /\ ~ReturnsEarly(l)
      notify == polled /\ h2.node.outbound # <<>>
      h3     == IF notify THEN U!uart_handle_event(h2.node, h2.answered, res) ELSE h2
      n4     == IF polled THEN FoldLeft(LAMBDA m, b : aura_process_inbound(m), h3.node, h3.node.inbound)
                ELSE h3.node
  IN  [node     |-> n4,
       answered |-> h3.answered,
       evts     |-> evts \o IF notify THEN <<<<UNode, "HAVE_OUTBOUND">>>> ELSE <<>>]

(* One dispatch of loop l in which the module reports ev.                 *)
Dispatch(l) ==
  \E ev \in EL!ReadyEvents(el, l) \cup {EL!NoEvent} :
    LET r == EL!aura_eventloop_dispatch(el, l, ev)
    IN  /\ el' = r.el
        /\ onlineTimer' = (onlineTimer /\ <<UNode, "TIMER">> \notin ToSet(r.evts))
        /\ UNCHANGED phase
        /\ \E res \in [1 .. Len(node.outbound) -> U!PeerOutcomes] :
             LET h == handlers(l, r.evts, res)
             IN  /\ answered' = h.answered
                 /\ node' = h.node
                 /\ delivered' = h.evts

(* The application's loop: aura_handle_events on the node's loop.         *)
LoopDispatch ==
  /\ phase = "OPEN" /\ EL!UserFree /\ el.nodeLoop[UNode] # NoLoop
  /\ Dispatch(el.nodeLoop[UNode])

(* aura_wait_status(node, ONLINE) and the dispatches it makes.            *)
(* A node without a loop gets an auto-created one.                        *)
WaitStatus ==
  /\ phase = "OPEN" /\ EL!UserFree /\ node.status = "OFFLINE"
  /\ LET e1 == IF el.nodeLoop[UNode] = NoLoop
               THEN [EL!aura_eventloop_vcreate(el, EL!AutoLoop(UNode), <<UNode>>)
                       EXCEPT !.autocreated[UNode] = TRUE]
               ELSE el
     IN  el' = [e1 EXCEPT !.waiting[UNode] = TRUE]
  /\ delivered' = <<>>
  /\ UNCHANGED uvars

WaitDispatch ==
  /\ el.waiting[UNode] /\ node.status = "OFFLINE"
  /\ Dispatch(el.nodeLoop[UNode])

WaitReturn ==
  /\ el.waiting[UNode] /\ node.status = "ONLINE"
  /\ el' = [el EXCEPT !.waiting[UNode] = FALSE]
  /\ delivered' = <<>>
  /\ UNCHANGED uvars

(* A call queued by the user; the transport hears of it on HAVE_OUTBOUND. *)
UserCall == EL!UserFree /\ U!UserCall /\ delivered' = <<>> /\ UNCHANGED el

(* aura_close: the core cancels its work, uart_close closes the socket,   *)
(* the node's timers are released and the node leaves its loop; a loop   *)
(* auto-created for it is destroyed.                                      *)
CloseEl(e) ==
  LET l  == e.nodeLoop[UNode]
      e1 == IF l = NoLoop THEN e
            ELSE IF e.autocreated[UNode] THEN EL!aura_eventloop_destroy(e, l)
            ELSE EL!aura_eventloop_del(e, UNode)
  IN  EL!aura_timer_stop(e1, UNode)

Close ==
  /\ EL!UserFree /\ U!aura_close
  /\ el' = CloseEl(el)
  /\ delivered' = <<>>

-----------------------------------------------------------------------------
Init == U!Init /\ el = EL!ElInit /\ delivered = <<>>

Next ==
  \/ Open \/ CreateEmpty \/ Create \/ Add \/ LoopDispatch
  \/ WaitStatus \/ WaitDispatch \/ WaitReturn \/ UserCall \/ Close

(* The node's loop has work for the node: its STARTED event, the online  *)
(* timer armed on it, or queued calls.  A dispatch then changes the state. *)
LoopHasWork ==
  /\ phase = "OPEN" /\ EL!UserFree /\ el.nodeLoop[UNode] # NoLoop
  /\ \/ ~el.startSent[UNode]
     \/ el.armedIn[UNode] = el.nodeLoop[UNode]
     \/ node.outbound # <<>>

(* aura_wait_status dispatches until the status is reached and returns;   *)
(* the application keeps handling its loop's events, so a loop that keeps *)
(* having work for the node is dispatched (LoopHasWork implies that       *)
(* LoopDispatch is enabled, so this is no stronger than weak fairness).   *)
(* Opening, binding, calls and close are the user's and get no fairness.  *)
Fairness ==
  /\ WF_vars(WaitDispatch) /\ WF_vars(WaitReturn)
  /\ []<>(~LoopHasWork) \/ []<><<LoopDispatch>>_vars

Spec == Init /\ [][Next]_vars /\ Fairness

-----------------------------------------------------------------------------
(* The transport's, the loop's and the delivered events' types.           *)
TypeOK == U!TypeOK /\ EL!TypeOK /\ delivered \in Seq({UNode} \X {"STARTED", "TIMER", "HAVE_OUTBOUND"})

(* Every queued call is pending or has had exactly one completion, through *)
(* the loop's drains and the close-time cancellation.                      *)
EveryCallCompletesOnce == U!EveryCallCompletesOnce

(* The buffer the loop's handler writes back completes the call it was    *)
(* queued for, per object in queue order.                                  *)
ResultsMatchCalls == U!ResultsMatchCalls

(* Every buffer the node owns is queued, none is released twice, and      *)
(* aura_close leaves none behind.                                          *)
BuffersAccountedFor == U!BuffersAccountedFor

(* Every queued call eventually gets its completion callback, with the    *)
(* loop driven only as the application drives it.                         *)
CallsEventuallyComplete == U!CallsEventuallyComplete

(* The node, driven by the loop, implements CallEngine (completions of   *)
(* one loop iteration form one batch).                                     *)
ImplementsCallEngine == U!ImplementsCallEngine

(* aura_wait_status(node, ONLINE) returns: the online timer uart_open     *)
(* started before the node had a loop is armed on the loop the wait       *)
(* auto-creates (or the loop the node was added to), fires in a dispatch  *)
(* after the early return for STARTED, and online_cb_fn sets ONLINE.      *)
WaitOnlineReturns == el.waiting[UNode] ~> ~el.waiting[UNode]

=============================================================================
