------------------------------ MODULE EventLoop ------------------------------
(***************************************************************************)
(* The event loop of aura (src/src/core/eventloop.c) with the nodes bound  *)
(* to it, their timers and their poll descriptors.                         *)
(*                                                                         *)
(* A loop holds a list of nodes (loop->nodelist) and, inside its module    *)
(* (epoll/libevent, not in this repository), the descriptors it polls and *)
(* the timers it has armed.  A node points back at its loop, may own an    *)
(* auto-created loop, keeps its descriptors (node->fds) and its timers     *)
(* (node->timer_list) whether or not it is bound, and remembers whether   *)
(* its STARTED event was sent and whether the user waits on its status.  *)
(* One timer per node stands for the node's timer list.                   *)
(*                                                                         *)
(* The loop functions call each other (add destroys an auto-created loop, *)
(* which deletes its nodes), so each is a function from the state record   *)
(* el to a new one, and a user call is one step.  The module callbacks     *)
(* (node_added, fd_action, destroy) and the core's timer and pollfd        *)
(* functions are not in this repository; they follow spec 4.7 and 4.8.    *)
(***************************************************************************)
EXTENDS Naturals, Sequences, SequencesExt

CONSTANTS
  Nodes,    \* the open nodes
  Loops,    \* handles of loops the user creates (aura_eventloop_create)
  Fds,      \* descriptors a node may register
  NoLoop,   \* model value: NULL loop pointer
  NoNode    \* model value: no node (nobody waits)

(* The loop aura creates by itself for a node used without one.          *)
AutoLoop(n) == <<"auto", n>>
LoopIds == Loops \cup {AutoLoop(n) : n \in Nodes}

LoopStates == {"NONE", "LIVE", "FREED"}   \* not allocated / allocated / freed

VARIABLES
  el,          \* the loops and the loop-related fields of the nodes
  status,      \* node->status
  userArmed,   \* history: the user started the node's timer and it has not
               \* been stopped or fired since
  delivered    \* the events handle_event received in this step, in order

vars == <<el, status, userArmed, delivered>>

ElInit ==
  [loopState   |-> [l \in LoopIds |-> "NONE"],
   nodelist    |-> [l \in LoopIds |-> <<>>],
   polled      |-> [l \in LoopIds |-> {}],
   nodeLoop    |-> [n \in Nodes |-> NoLoop],
   autocreated |-> [n \in Nodes |-> FALSE],
   fdCb        |-> [n \in Nodes |-> NoLoop],
   nodeFds     |-> [n \in Nodes |-> Fds],
   isActive    |-> [n \in Nodes |-> FALSE],
   armedIn     |-> [n \in Nodes |-> NoLoop],
   startSent   |-> [n \in Nodes |-> FALSE],
   waiting     |-> [n \in Nodes |-> FALSE]]

-----------------------------------------------------------------------------
(* The loop module and the core's timer and descriptor functions.         *)

(* module->fd_action: register or unregister one descriptor.               *)
fd_action(e, l, n, f, act) ==
  [e EXCEPT !.polled[l] = IF act = "ADDED" THEN @ \cup {<<n, f>>}
                                           ELSE @ \ {<<n, f>>}]

(* module->node_added: the node's descriptors are registered with the      *)
(* loop's poll primitive.                                                  *)
node_added(e, l, n) == [e EXCEPT !.polled[l] = @ \cup ({n} \X e.nodeFds[n])]

(* aura_timer_start: mark the timer active and arm it on the node's loop,  *)
(* if the node has one (spec 4.7).                                         *)
aura_timer_start(e, n) ==
  [e EXCEPT !.isActive[n] = TRUE, !.armedIn[n] = e.nodeLoop[n]]

aura_timer_stop(e, n) ==
  [e EXCEPT !.isActive[n] = FALSE, !.armedIn[n] = NoLoop]

(* aura_add_pollfds / aura_del_pollfds: the node's descriptor array        *)
(* changes and the fd_changed_cb, if set, tells the loop.                  *)
aura_add_pollfds(e, n, f) ==
  LET e1 == [e EXCEPT !.nodeFds[n] = @ \cup {f}]
  IN  IF e.fdCb[n] # NoLoop THEN fd_action(e1, e.fdCb[n], n, f, "ADDED") ELSE e1

aura_del_pollfds(e, n, f) ==
  LET e1 == [e EXCEPT !.nodeFds[n] = @ \ {f}]
  IN  IF e.fdCb[n] # NoLoop THEN fd_action(e1, e.fdCb[n], n, f, "REMOVED") ELSE e1

-----------------------------------------------------------------------------
(* src/src/core/eventloop.c                                                *)

(* Fault variant: the node is not unlinked from the loop's list.          *)
aura_eventloop_del_keepLinked(e, n) ==
  LET l  == e.nodeLoop[n]
      e1 == IF e.isActive[n]
            THEN [aura_timer_stop(e, n) EXCEPT !.isActive[n] = TRUE]
            ELSE e
  IN  [e1 EXCEPT !.nodeLoop[n]    = NoLoop,
                 !.polled[l]      = @ \ ({n} \X e.nodeFds[n]),
                 !.fdCb[n]        = NoLoop,
                 !.autocreated[n] = FALSE]

(* Fault variant: the fd_changed_cb is left pointing at the old loop.     *)
aura_eventloop_del_keepFdCb(e, n) ==
  LET l  == e.nodeLoop[n]
      e1 == IF e.isActive[n]
            THEN [aura_timer_stop(e, n) EXCEPT !.isActive[n] = TRUE]
            ELSE e
      e2 == [e1 EXCEPT !.nodelist[l] = Remove(@, n), !.nodeLoop[n] = NoLoop]
  IN  [e2 EXCEPT !.polled[l]      = @ \ ({n} \X e.nodeFds[n]),
                 !.autocreated[n] = FALSE]

(* aura_eventloop_del: stop the running timers but keep them marked       *)
(* active, unlink the node, unregister its descriptors (they stay in the  *)
(* node), drop the fd_changed_cb and forget the auto-created flag.  The   *)
(* caller guarantees the node is bound (BUG otherwise).                   *)
aura_eventloop_del(e, n) ==
  LET l  == e.nodeLoop[n]
      e1 == IF e.isActive[n]
            THEN [aura_timer_stop(e, n) EXCEPT !.isActive[n] = TRUE]
            ELSE e
      e2 == [e1 EXCEPT !.nodelist[l] = Remove(@, n), !.nodeLoop[n] = NoLoop]
  IN  [e2 EXCEPT !.polled[l]      = @ \ ({n} \X e.nodeFds[n]),
                 !.fdCb[n]        = NoLoop,
                 !.autocreated[n] = FALSE]

(* aura_eventloop_destroy: delete every node of the loop, then the module *)
(* releases its state and the loop is freed.                              *)
aura_eventloop_destroy(e, l) ==
  LET e1 == FoldLeft(LAMBDA acc, n : aura_eventloop_del(acc, n), e, e.nodelist[l])
  IN  [e1 EXCEPT !.loopState[l] = "FREED", !.polled[l] = {}, !.nodelist[l] = <<>>]

(* Fault variant: the auto-created loop is not destroyed first.           *)
aura_eventloop_add_keepAuto(e, l, n) ==
  LET e2 == [e EXCEPT !.nodelist[l] = Append(@, n), !.nodeLoop[n] = l]
      e3 == [node_added(e2, l, n) EXCEPT !.fdCb[n] = l]
  IN  IF e3.isActive[n]
      THEN aura_timer_start([e3 EXCEPT !.isActive[n] = FALSE], n)
      ELSE e3

(* Fault variant: the node's active timers are not started on the loop.   *)
aura_eventloop_add_noTimerRestart(e, l, n) ==
  LET cur == e.nodeLoop[n]
      e1  == IF cur # NoLoop THEN aura_eventloop_destroy(e, cur) ELSE e
      e2  == [e1 EXCEPT !.nodelist[l] = Append(@, n), !.nodeLoop[n] = l]
  IN  [node_added(e2, l, n) EXCEPT !.fdCb[n] = l]

(* aura_eventloop_add: an auto-created loop the node is bound to is       *)
(* destroyed first; the node is appended to the loop, the module is told, *)
(* the fd_changed_cb is pointed at the loop and every active timer is     *)
(* started again on it.  The caller guarantees the node is not bound to   *)
(* a loop it did not auto-create (BUG otherwise).                         *)
aura_eventloop_add(e, l, n) ==
  LET cur == e.nodeLoop[n]
      e1  == IF cur # NoLoop THEN aura_eventloop_destroy(e, cur) ELSE e
      e2  == [e1 EXCEPT !.nodelist[l] = Append(@, n), !.nodeLoop[n] = l]
      e3  == [node_added(e2, l, n) EXCEPT !.fdCb[n] = l]
  IN  IF e3.isActive[n]
      THEN aura_timer_start([e3 EXCEPT !.isActive[n] = FALSE], n)
      ELSE e3

(* aura_eventloop_create_empty: a new loop with no nodes.  Its failure    *)
(* paths return NULL and leave nothing behind.                             *)
aura_eventloop_create_empty(e, l) ==
  [e EXCEPT !.loopState[l] = "LIVE", !.nodelist[l] = <<>>, !.polled[l] = {}]

(* aura_eventloop_vcreate: a new loop with the given nodes added in order. *)
aura_eventloop_vcreate(e, l, ns) ==
  FoldLeft(LAMBDA acc, n : aura_eventloop_add(acc, l, n),
           aura_eventloop_create_empty(e, l), ns)

(* The events the loop's module may report in one poll of loop l: a ready *)
(* descriptor of a node it polls, or the expiry of a timer armed on it.    *)
NoEvent == <<NoNode, "NONE">>
ReadyEvents(e, l) ==
  {<<p[1], "DESCRIPTOR">> : p \in e.polled[l]}
    \cup {<<n, "TIMER">> : n \in {m \in Nodes : e.armedIn[m] = l}}

(* module->dispatch with the module reporting ev: a fired timer is         *)
(* one-shot and disarmed.                                                   *)
module_dispatch(e, ev) ==
  IF ev = NoEvent THEN [el |-> e, evts |-> <<>>]
  ELSE [el |-> IF ev[2] = "TIMER" THEN aura_timer_stop(e, ev[1]) ELSE e,
        evts |-> <<ev>>]

(* Fault variant: the module polls before the STARTED pass.               *)
aura_eventloop_dispatch_pollFirst(e, l, ev) ==
  LET ns      == e.nodelist[l]
      m       == module_dispatch(e, ev)
      stop    == SelectInSeq(ns, LAMBDA n : ~e.startSent[n] /\ e.waiting[n])
      upto    == IF stop = 0 THEN ns ELSE SubSeq(ns, 1, stop)
      toStart == SelectSeq(upto, LAMBDA n : ~e.startSent[n])
      e1      == [m.el EXCEPT !.startSent = [n \in Nodes |-> @[n] \/ n \in ToSet(toStart)]]
  IN  [el |-> e1, evts |-> m.evts \o [i \in 1 .. Len(toStart) |-> <<toStart[i], "STARTED">>]]

(* Fault variant: the loop returns for a waiting node before sending it   *)
(* STARTED.                                                                 *)
aura_eventloop_dispatch_returnFirst(e, l, ev) ==
  LET ns      == e.nodelist[l]
      stop    == SelectInSeq(ns, LAMBDA n : ~e.startSent[n] /\ e.waiting[n])
      upto    == IF stop = 0 THEN ns ELSE SubSeq(ns, 1, stop - 1)
      toStart == SelectSeq(upto, LAMBDA n : ~e.startSent[n])
      e1      == [e EXCEPT !.startSent = [n \in Nodes |-> @[n] \/ n \in ToSet(toStart)]]
      started == [i \in 1 .. Len(toStart) |-> <<toStart[i], "STARTED">>]
      m       == module_dispatch(e1, ev)
  IN  IF stop # 0 THEN [el |-> e1, evts |-> started]
      ELSE [el |-> m.el, evts |-> started \o m.evts]

(* aura_eventloop_dispatch: send STARTED to every node of the list not    *)
(* yet started, in list order; return at once after the STARTED of a node *)
(* the user waits on; otherwise let the module poll.                      *)
aura_eventloop_dispatch(e, l, ev) ==
  LET ns      == e.nodelist[l]
      stop    == SelectInSeq(ns, LAMBDA n : ~e.startSent[n] /\ e.waiting[n])
      upto    == IF stop = 0 THEN ns ELSE SubSeq(ns, 1, stop)
      toStart == SelectSeq(upto, LAMBDA n : ~e.startSent[n])
      e1      == [e EXCEPT !.startSent = [n \in Nodes |-> @[n] \/ n \in ToSet(toStart)]]
      started == [i \in 1 .. Len(toStart) |-> <<toStart[i], "STARTED">>]
      m       == module_dispatch(e1, ev)
  IN  IF stop # 0 THEN [el |-> e1, evts |-> started]
      ELSE [el |-> m.el, evts |-> started \o m.evts]

-----------------------------------------------------------------------------
(* Steps.  The user thread is either free or inside aura_wait_status.     *)

UserFree == \A n \in Nodes : ~el.waiting[n]

(* aura_eventloop_add panics on a node bound to a loop it did not         *)
(* auto-create; the user respects that documented precondition.          *)
MayBind(n) == el.nodeLoop[n] = NoLoop \/ el.autocreated[n]

(* A dispatch of loop l in which the module reports ev.                   *)
Dispatch(l) ==
  \E ev \in ReadyEvents(el, l) \cup {NoEvent} :
    LET r == aura_eventloop_dispatch(el, l, ev)
    IN  /\ el' = r.el
        /\ delivered' = r.evts
        /\ userArmed' = [n \in Nodes |-> userArmed[n] /\ <<n, "TIMER">> \notin ToSet(r.evts)]
        /\ UNCHANGED status

(* Lua eventloop_create(node): aura_eventloop_create(node).               *)
UserCreate ==
  /\ UserFree
  /\ \E l \in Loops, n \in Nodes :
       /\ el.loopState[l] = "NONE" /\ MayBind(n)
       /\ el' = aura_eventloop_vcreate(el, l, <<n>>)
  /\ delivered' = <<>>
  /\ UNCHANGED <<status, userArmed>>

(* Lua eventloop_add(loop, node).                                          *)
UserAdd ==
  /\ UserFree
  /\ \E l \in Loops, n \in Nodes :
       /\ el.loopState[l] = "LIVE" /\ MayBind(n)
       /\ el' = aura_eventloop_add(el, l, n)
  /\ delivered' = <<>>
  /\ UNCHANGED <<status, userArmed>>

(* aura_eventloop_del(node) on a bound node.                               *)
UserDel ==
  /\ UserFree
  /\ \E n \in Nodes : el.nodeLoop[n] # NoLoop /\ el' = aura_eventloop_del(el, n)
  /\ delivered' = <<>>
  /\ UNCHANGED <<status, userArmed>>

(* Lua eventloop_destroy(loop).                                            *)
UserDestroy ==
  /\ UserFree
  /\ \E l \in Loops : el.loopState[l] = "LIVE" /\ el' = aura_eventloop_destroy(el, l)
  /\ delivered' = <<>>
  /\ UNCHANGED <<status, userArmed>>

(* Lua handle_events(loop[, timeout]): one dispatch of the loop.           *)
UserDispatch == UserFree /\ \E l \in Loops : el.loopState[l] = "LIVE" /\ Dispatch(l)

UserTimerStart ==
  /\ UserFree
  /\ \E n \in Nodes : el' = aura_timer_start(el, n) /\ userArmed' = [userArmed EXCEPT ![n] = TRUE]
  /\ delivered' = <<>>
  /\ UNCHANGED status

UserTimerStop ==
  /\ UserFree
  /\ \E n \in Nodes : el' = aura_timer_stop(el, n) /\ userArmed' = [userArmed EXCEPT ![n] = FALSE]
  /\ delivered' = <<>>
  /\ UNCHANGED status

(* A transport adds or removes one of its descriptors.                     *)
UserPollfds ==
  /\ UserFree
  /\ \E n \in Nodes, f \in Fds :
       el' = IF f \in el.nodeFds[n] THEN aura_del_pollfds(el, n, f)
                                    ELSE aura_add_pollfds(el, n, f)
  /\ delivered' = <<>>
  /\ UNCHANGED <<status, userArmed>>

(* aura_wait_status(node, ONLINE) (spec 4.9): a node used without a loop  *)
(* gets an auto-created one; waiting_for_status is set and the user      *)
(* thread dispatches the node's loop until the status is reached.         *)
WaitStatus ==
  /\ UserFree
  /\ \E n \in Nodes :
       /\ status[n] = "OFFLINE"
       /\ LET e1 == IF el.nodeLoop[n] = NoLoop
                    THEN [aura_eventloop_vcreate(el, AutoLoop(n), <<n>>)
                            EXCEPT !.autocreated[n] = TRUE]
                    ELSE el
          IN  el' = [e1 EXCEPT !.waiting[n] = TRUE]
  /\ delivered' = <<>>
  /\ UNCHANGED <<status, userArmed>>

WaitDispatch(n) ==
  /\ el.waiting[n] /\ status[n] = "OFFLINE"
  /\ Dispatch(el.nodeLoop[n])

WaitReturn(n) ==
  /\ el.waiting[n] /\ status[n] = "ONLINE"
  /\ el' = [el EXCEPT !.waiting[n] = FALSE]
  /\ delivered' = <<>>
  /\ UNCHANGED <<status, userArmed>>

(* The node's transport, once started and driven by its loop, brings the  *)
(* node ONLINE (aura_set_status from its handle_event).                    *)
TransportOnline(n) ==
  /\ status[n] = "OFFLINE" /\ el.startSent[n] /\ el.nodeLoop[n] # NoLoop
  /\ status' = [status EXCEPT ![n] = "ONLINE"]
  /\ delivered' = <<>>
  /\ UNCHANGED <<el, userArmed>>

-----------------------------------------------------------------------------
Init ==
  /\ el = ElInit
  /\ status = [n \in Nodes |-> "OFFLINE"]
  /\ userArmed = [n \in Nodes |-> FALSE]
  /\ delivered = <<>>

Next ==
  \/ UserCreate \/ UserAdd \/ UserDel \/ UserDestroy \/ UserDispatch
  \/ UserTimerStart \/ UserTimerStop \/ UserPollfds \/ WaitStatus
  \/ \E n \in Nodes : WaitDispatch(n) \/ WaitReturn(n) \/ TransportOnline(n)

(* aura_wait_status keeps dispatching until the status is reached, and a  *)
(* started transport keeps being driven; the user's calls get no fairness. *)
Fairness ==
  \A n \in Nodes : WF_vars(WaitDispatch(n)) /\ WF_vars(WaitReturn(n))
                   /\ WF_vars(TransportOnline(n))

Spec == Init /\ [][Next]_vars /\ Fairness

-----------------------------------------------------------------------------
MaybeLoop == LoopIds \cup {NoLoop}

(* A loop's node list is an intrusive list threaded through the node's    *)
(* single eventloop_node_list entry, so it holds a node at most once.     *)
NodeList == {s \in Seq(Nodes) : IsInjective(s)}

TypeOK ==
  /\ el.loopState \in [LoopIds -> LoopStates]
  /\ \A l \in LoopIds : el.nodelist[l] \in NodeList
  /\ el.polled \in [LoopIds -> SUBSET (Nodes \X Fds)]
  /\ el.nodeLoop \in [Nodes -> MaybeLoop]
  /\ el.fdCb \in [Nodes -> MaybeLoop]
  /\ el.armedIn \in [Nodes -> MaybeLoop]
  /\ el.nodeFds \in [Nodes -> SUBSET Fds]
  /\ el.autocreated \in [Nodes -> BOOLEAN]
  /\ el.isActive \in [Nodes -> BOOLEAN]
  /\ el.startSent \in [Nodes -> BOOLEAN]
  /\ el.waiting \in [Nodes -> BOOLEAN]
  /\ status \in [Nodes -> {"OFFLINE", "ONLINE"}]
  /\ userArmed \in [Nodes -> BOOLEAN]

(* node->loop and the loops' node lists agree, through every add, del and *)
(* destroy, including the silent destroy of an auto-created loop in      *)
(* aura_eventloop_add: a bound node is in the list of exactly its loop,  *)
(* which is allocated; its fd_changed_cb points at that loop; and a node *)
(* marked auto-created is bound to its own auto-created loop.            *)
LoopMembership ==
  \A n \in Nodes :
    /\ \A l \in LoopIds :
         n \in ToSet(el.nodelist[l]) <=> (el.nodeLoop[n] = l /\ el.loopState[l] = "LIVE")
    /\ el.fdCb[n] = el.nodeLoop[n]
    /\ el.autocreated[n] => el.nodeLoop[n] = AutoLoop(n)

(* Each live loop polls exactly the descriptors its bound nodes hold now: *)
(* aura_eventloop_del unregisters them and detaches the fd_changed_cb,   *)
(* node_added registers them again, and descriptors a transport adds or   *)
(* removes meanwhile reach the loop through the callback.                 *)
PolledAreBoundDescriptors ==
  \A l \in LoopIds : el.loopState[l] = "LIVE" =>
    el.polled[l] = {p \in Nodes \X Fds : el.nodeLoop[p[1]] = l /\ p[2] \in el.nodeFds[p[1]]}

(* A timer the user started, and that has not been stopped or fired since, *)
(* is marked active and armed on its node's current loop whenever the    *)
(* node is bound; eventloop_del keeps it marked active so that           *)
(* eventloop_add re-arms it, and no other timer is armed anywhere.        *)
TimersFollowNode ==
  \A n \in Nodes :
    /\ el.isActive[n] = userArmed[n]
    /\ el.armedIn[n] = IF userArmed[n] THEN el.nodeLoop[n] ELSE NoLoop

(* No node's handler sees a descriptor or timer event before its STARTED  *)
(* event (spec 5, ordering guarantee 2): within a dispatch the STARTED     *)
(* pass precedes the module's poll.                                        *)
StartedBeforeOtherEvents ==
  [][\A i \in 1 .. Len(delivered') :
       delivered'[i][2] # "STARTED" =>
         \/ el.startSent[delivered'[i][1]]
         \/ \E j \in 1 .. i - 1 : delivered'[j] = <<delivered'[i][1], "STARTED">>]_vars

(* aura_wait_status returns: the node's loop sends it STARTED even when  *)
(* the loop returns early for the waiting node, so its transport can      *)
(* bring it ONLINE.                                                        *)
WaitStatusReturns == \A n \in Nodes : el.waiting[n] ~> ~el.waiting[n]

=============================================================================
