------------------------ MODULE AssignmentBroker_proofs -----------------------
(***************************************************************************)
(* Type correctness and the absence of lost wake-ups, for any number of    *)
(* nodes, any lists, any bounds and any faults, restarts of the control    *)
(* plane included.                                                         *)
(***************************************************************************)
EXTENDS AssignmentBroker, TLAPS

\* A decoded list is a list: what nil is normalised to, or the list itself.
LEMMA DecodedType == ASSUME NEW list \in Value PROVE Decoded(list) \in Lists
BY ListsAssumption DEF Decoded, Value

\* Publish keeps the types of the four variables it assigns.
LEMMA PublishType ==
    ASSUME TypeOK, NEW n \in Node, NEW list \in Lists, Publish(n, list)
    PROVE  /\ assignments' \in [Node -> Value]
           /\ generation' \in [Node -> Generation]
           /\ notify' \in [Node -> Nat]
           /\ closed' \in [Node -> SUBSET Nat]
BY BoundsAssumption DEF TypeOK, Publish, Value, Generation

\* The records the steps build have their types.
LEMMA ResponseTypes ==
    /\ NoResponse \in Response
    /\ TypeOK => \A n \in Node : CurrentResponse(n) \in Response
BY BoundsAssumption DEF NoResponse, Response, Value, Generation, CurrentResponse, TypeOK

LEMMA HandlerTypes ==
    /\ NoHandler \in HandlerState
    /\ \A g \in Generation : [NoHandler EXCEPT !.pc = "register", !.after = g] \in HandlerState
<1>1. 0 \in Generation
  BY BoundsAssumption DEF Generation
<1> QED
  BY <1>1, ResponseTypes, Zenon DEF NoHandler, HandlerState

LEMMA AgentTypes == FreshAgent \in AgentState
<1>1. 0 \in Generation
  BY BoundsAssumption DEF Generation
<1> QED
  BY <1>1, ResponseTypes, ListsAssumption DEF FreshAgent, AgentState

\* What the steps write into a record has the type of its field.
LEMMA HandlerUpdates ==
    ASSUME NEW h \in HandlerState, NEW pc \in {"none", "register", "get", "wait", "respond"},
           NEW chan \in Nat, NEW resp \in Response
    PROVE  /\ h.resp \in Response
           /\ [h EXCEPT !.pc = pc] \in HandlerState
           /\ [h EXCEPT !.pc = pc, !.chan = chan] \in HandlerState
           /\ [h EXCEPT !.pc = pc, !.resp = resp] \in HandlerState
BY Zenon DEF HandlerState

LEMMA AgentUpdates ==
    ASSUME NEW a \in AgentState, NEW pc \in {"fetch", "poll", "reconcile", "report"},
           NEW g \in Generation, NEW resp \in Response, NEW list \in Lists
    PROVE  /\ a.generation \in Generation /\ a.resp \in Response /\ a.applied \in Lists
           /\ [a EXCEPT !.pc = pc] \in AgentState
           /\ [a EXCEPT !.pc = pc, !.resp = resp] \in AgentState
           /\ [a EXCEPT !.pc = pc, !.generation = g, !.applied = list] \in AgentState
BY Zenon DEF AgentState

LEMMA InitType == Init => TypeOK
<1> SUFFICES ASSUME Init PROVE TypeOK
  OBVIOUS
<1>1. 0 \in Generation /\ 0 \in 0 .. MaxFaults
  BY BoundsAssumption DEF Generation
<1> QED
  BY <1>1, HandlerTypes, AgentTypes, Zenon DEF Init, TypeOK, Value

LEMMA NextType == TypeOK /\ [Next]_vars => TypeOK'
<1> SUFFICES ASSUME TypeOK, [Next]_vars PROVE TypeOK'
  OBVIOUS
<1> USE ListsAssumption, BoundsAssumption
<1>h. ASSUME NEW n \in Node, NEW h \in HandlerState, handler' = [handler EXCEPT ![n] = h]
      PROVE  handler' \in [Node -> HandlerState]
  BY <1>h DEF TypeOK
<1>a. ASSUME NEW n \in Node, NEW a \in AgentState, agent' = [agent EXCEPT ![n] = a]
      PROVE  agent' \in [Node -> AgentState]
  BY <1>a DEF TypeOK
<1>t. /\ \A n \in Node : handler[n] \in HandlerState /\ agent[n] \in AgentState
      /\ NoResponse \in Response /\ 0 \in Generation /\ << >> \in Lists
      /\ \A n \in Node : CurrentResponse(n) \in Response
  BY ResponseTypes DEF TypeOK, Generation
<1>1. ASSUME NEW n \in Node, NEW list \in Value, SetAssignments(n, list)
      PROVE  TypeOK'
  <2>1. CASE assignments[n] # Nil /\ assignments[n] = list
    BY <1>1, <2>1 DEF SetAssignments, TypeOK
  <2>2. CASE ~(assignments[n] # Nil /\ assignments[n] = list)
    <3>1. Publish(n, Decoded(list))
      BY <1>1, <2>2 DEF SetAssignments
    <3> QED
      BY <1>1, <3>1, DecodedType, PublishType DEF SetAssignments, TypeOK
  <2> QED
    BY <2>1, <2>2
<1>2. ASSUME NEW n \in Node, NEW a \in Assignment, MergeAssignment(n, a)
      PROVE  TypeOK'
  <2> DEFINE existing == Decoded(assignments[n])
             merged == Append(SelectSeq(existing, LAMBDA x : x.dataset # a.dataset), a)
  <2>1. merged \in Lists
    BY <1>2 DEF MergeAssignment
  <2>2. CASE existing = merged
    BY <1>2, <2>2 DEF MergeAssignment, TypeOK
  <2>3. CASE existing # merged
    <3>1. Publish(n, merged)
      BY <1>2, <2>3, Zenon DEF MergeAssignment
    <3> HIDE DEF merged
    <3> QED
      BY <1>2, <2>1, <3>1, PublishType DEF MergeAssignment, TypeOK
  <2> QED
    BY <2>2, <2>3, Zenon
<1>3. ASSUME NEW n \in Node, HandlerRegister(n) PROVE TypeOK'
  <2>1. handler' = [handler EXCEPT ![n] = [handler[n] EXCEPT !.pc = "get"]]
    BY <1>3 DEF HandlerRegister
  <2>2. [handler[n] EXCEPT !.pc = "get"] \in HandlerState
    BY <1>t, HandlerUpdates, Zenon
  <2>3. handler' \in [Node -> HandlerState]
    BY <1>h, <2>1, <2>2, Zenon
  <2> QED
    BY <1>3, <2>3 DEF HandlerRegister, TypeOK
<1>4. ASSUME NEW n \in Node, GetAssignments(n) PROVE TypeOK'
  <2>1. CurrentResponse(n) \in Response
    BY ResponseTypes
  <2>2. CASE generation[n] > handler[n].after
    <3>1. handler' = [handler EXCEPT ![n] = [handler[n] EXCEPT !.pc = "respond",
                                                               !.resp = CurrentResponse(n)]]
      BY <1>4, <2>2, Zenon DEF GetAssignments
    <3>2. [handler[n] EXCEPT !.pc = "respond", !.resp = CurrentResponse(n)] \in HandlerState
      BY <1>t, <2>1, HandlerUpdates, Zenon
    <3>3. handler' \in [Node -> HandlerState]
      BY <1>h, <3>1, <3>2, Zenon
    <3> QED
      BY <1>4, <2>2, <3>3 DEF GetAssignments, TypeOK
  <2>3. CASE ~(generation[n] > handler[n].after)
    <3>1. notify' \in [Node -> Nat]
      BY <1>4, <2>3 DEF GetAssignments, TypeOK
    <3>2. handler' = [handler EXCEPT ![n] = [handler[n] EXCEPT !.pc = "wait",
                                                               !.chan = notify'[n]]]
      BY <1>4, <2>3, Zenon DEF GetAssignments
    <3>3. [handler[n] EXCEPT !.pc = "wait", !.chan = notify'[n]] \in HandlerState
      <4>1. notify'[n] \in Nat
        BY <3>1
      <4> QED
        BY <1>t, <4>1, HandlerUpdates, Zenon
    <3>4. handler' \in [Node -> HandlerState]
      BY <1>h, <3>2, <3>3, Zenon
    <3> QED
      BY <1>4, <2>3, <3>1, <3>4 DEF GetAssignments, TypeOK
  <2> QED
    BY <2>2, <2>3
<1>5. ASSUME NEW n \in Node, HandlerWake(n) PROVE TypeOK'
  <2>1. handler' = [handler EXCEPT ![n] = [handler[n] EXCEPT !.pc = "respond",
                                                             !.resp = CurrentResponse(n)]]
    BY <1>5, Zenon DEF HandlerWake
  <2>2. [handler[n] EXCEPT !.pc = "respond", !.resp = CurrentResponse(n)] \in HandlerState
    BY <1>t, HandlerUpdates, Zenon
  <2>3. handler' \in [Node -> HandlerState]
    BY <1>h, <2>1, <2>2, Zenon
  <2> QED
    BY <1>5, <2>3 DEF HandlerWake, TypeOK, brokerVars
<1>6. ASSUME NEW n \in Node, FetchAssignments(n) PROVE TypeOK'
  <2>1. agent[n].generation \in Generation /\ [agent[n] EXCEPT !.pc = "poll"] \in AgentState
    BY <1>t, AgentUpdates, Zenon
  <2>2. handler' \in [Node -> HandlerState]
    BY <1>6, <2>1, HandlerTypes, Zenon DEF FetchAssignments, TypeOK
  <2>3. agent' = [agent EXCEPT ![n] = [agent[n] EXCEPT !.pc = "poll"]]
    BY <1>6 DEF FetchAssignments
  <2>4. agent' \in [Node -> AgentState]
    BY <1>a, <2>1, <2>3, Zenon
  <2> QED
    BY <1>6, <2>2, <2>4 DEF FetchAssignments, TypeOK, brokerVars
<1>7. ASSUME NEW n \in Node, FetchReturns(n) PROVE TypeOK'
  <2>1. handler[n].resp \in Response
    BY <1>t, HandlerUpdates, Zenon
  <2>2. handler' \in [Node -> HandlerState]
    BY <1>7, HandlerTypes, Zenon DEF FetchReturns, TypeOK
  <2>3. agent' = [agent EXCEPT ![n] = [agent[n] EXCEPT !.pc = "reconcile",
                                                       !.resp = handler[n].resp]]
    BY <1>7, Zenon DEF FetchReturns
  <2>4. [agent[n] EXCEPT !.pc = "reconcile", !.resp = handler[n].resp] \in AgentState
    BY <1>t, <2>1, AgentUpdates, Zenon
  <2>5. agent' \in [Node -> AgentState]
    BY <1>a, <2>3, <2>4, Zenon
  <2> QED
    BY <1>7, <2>2, <2>5 DEF FetchReturns, TypeOK, brokerVars
<1>8. ASSUME NEW n \in Node, FetchEnds(n), faults' \in 0 .. MaxFaults PROVE TypeOK'
  <2>1. handler' \in [Node -> HandlerState]
    BY <1>8, HandlerTypes, Zenon DEF FetchEnds, TypeOK
  <2>2. agent' = [agent EXCEPT ![n] = [agent[n] EXCEPT !.pc = "fetch"]]
    BY <1>8 DEF FetchEnds
  <2>3. [agent[n] EXCEPT !.pc = "fetch"] \in AgentState
    BY <1>t, AgentUpdates, Zenon
  <2>4. agent' \in [Node -> AgentState]
    BY <1>a, <2>2, <2>3, Zenon
  <2> QED
    BY <1>8, <2>1, <2>4 DEF FetchEnds, TypeOK, brokerVars
<1>9. ASSUME NEW n \in Node, Reconcile(n) PROVE TypeOK'
  <2>1. agent[n].resp \in Response
    BY <1>t, AgentUpdates, Zenon
  <2>2. /\ Decoded(agent[n].resp.assignments) \in Lists
        /\ agent[n].resp.generation \in Generation
    BY <2>1, DecodedType DEF Response
  <2>3. agent' \in [Node -> AgentState]
    <3> DEFINE next == [agent[n] EXCEPT !.pc = "report",
                                        !.generation = agent[n].resp.generation,
                                        !.applied = Decoded(agent[n].resp.assignments)]
    <3>1. agent' = [agent EXCEPT ![n] = next]
      BY <1>9, Zenon DEF Reconcile
    <3>2. next \in AgentState
      BY <1>t, <2>2, AgentUpdates, Zenon
    <3> HIDE DEF next
    <3> QED
      BY <1>a, <3>1, <3>2, Zenon
  <2> QED
    BY <1>9, <2>3 DEF Reconcile, TypeOK, brokerVars
<1>10. ASSUME NEW n \in Node, RunReports(n) PROVE TypeOK'
  <2>1. agent[n].applied \in Lists /\ [agent[n] EXCEPT !.pc = "fetch"] \in AgentState
    BY <1>t, AgentUpdates, Zenon
  <2>2. posts' \in [Node -> SUBSET Lists]
    BY <1>10, <2>1 DEF RunReports, TypeOK
  <2>3. agent' = [agent EXCEPT ![n] = [agent[n] EXCEPT !.pc = "fetch"]]
    BY <1>10 DEF RunReports
  <2>4. agent' \in [Node -> AgentState]
    BY <1>a, <2>1, <2>3, Zenon
  <2> QED
    BY <1>10, <2>2, <2>4 DEF RunReports, TypeOK, brokerVars
<1>11. ASSUME NEW n \in Node, LoopReports(n) PROVE TypeOK'
  BY <1>11 DEF LoopReports, TypeOK, AgentState, brokerVars
<1>12. ASSUME NEW n \in Node, NEW state \in posts[n], ReportState(n, state) PROVE TypeOK'
  BY <1>12 DEF ReportState, TypeOK, Value
<1>13. ASSUME NEW n \in Node, NEW state \in posts[n], ReportLost(n, state) PROVE TypeOK'
  BY <1>13 DEF ReportLost, Fault, TypeOK, brokerVars
<1>14. ASSUME NEW n \in Node, AgentRestarts(n) PROVE TypeOK'
  <2>1. agent' \in [Node -> AgentState] /\ handler' \in [Node -> HandlerState]
    BY <1>14, HandlerTypes, AgentTypes, Zenon DEF AgentRestarts, TypeOK
  <2> QED
    BY <1>14, <2>1 DEF AgentRestarts, Fault, TypeOK, brokerVars
<1>15. ASSUME ControlPlaneRestarts PROVE TypeOK'
  <2>1. agent' \in [Node -> AgentState]
    <3>1. \A n \in Node : [agent[n] EXCEPT !.pc = "fetch"] \in AgentState
      BY <1>t, AgentUpdates, Zenon
    <3> QED
      BY <1>15, <1>t, <3>1 DEF ControlPlaneRestarts
  <2>2. handler' \in [Node -> HandlerState]
    BY <1>15, HandlerTypes, Zenon DEF ControlPlaneRestarts
  <2> QED
    BY <1>15, <2>1, <2>2 DEF ControlPlaneRestarts, Fault, TypeOK, Value, Generation
<1>16. CASE UNCHANGED vars
  BY <1>16 DEF vars, brokerVars, TypeOK
<1>17. ASSUME NEW n \in Node, FetchTimesOut(n) PROVE TypeOK'
  BY <1>8, <1>17 DEF FetchTimesOut, TypeOK
<1>18. ASSUME NEW n \in Node, FetchBreaks(n) PROVE TypeOK'
  BY <1>8, <1>18 DEF FetchBreaks, Fault, TypeOK
<1> QED
  BY <1>1, <1>2, <1>3, <1>4, <1>5, <1>6, <1>7, <1>9, <1>10, <1>11, <1>12, <1>13, <1>14,
     <1>15, <1>16, <1>17, <1>18
  DEF Next, FetchLoop, NodeFault

\* Every step of the broker, the server and the agents keeps the types.
THEOREM TypeCorrect == Spec => []TypeOK
BY InitType, NextType, PTL DEF Spec

-----------------------------------------------------------------------------

LEMMA InitWakeup == Init => WakeupInv
<1> SUFFICES ASSUME Init, NEW n \in Node PROVE closed[n] = {} /\ handler[n].pc = "none"
  BY Zenon DEF WakeupInv
<1> QED
  BY DEF Init, NoHandler

\* Publish closes the channel of every waiter it makes out of date.
LEMMA PublishWakeup ==
    ASSUME TypeOK, WakeupInv, NEW n \in Node, NEW list \in Lists, Publish(n, list),
           handler' = handler
    PROVE  WakeupInv'
<1> SUFFICES ASSUME NEW m \in Node
             PROVE  /\ \A c \in closed'[m] : c < notify'[m]
                    /\ handler[m].pc = "wait" =>
                          /\ handler[m].chan # 0
                          /\ handler[m].chan \notin closed'[m] =>
                                /\ handler[m].chan = notify'[m]
                                /\ generation'[m] <= handler[m].after
  BY DEF WakeupInv
<1>1. CASE m = n
  BY <1>1 DEF TypeOK, WakeupInv, Publish
<1>2. CASE m # n
  <2>1. closed'[m] = closed[m] /\ notify'[m] = notify[m] /\ generation'[m] = generation[m]
    BY <1>2 DEF TypeOK, Publish
  <2> QED
    BY <2>1 DEF WakeupInv
<1> QED
  BY <1>1, <1>2

LEMMA NextWakeup == TypeOK /\ WakeupInv /\ [Next]_vars => WakeupInv'
<1> SUFFICES ASSUME TypeOK, WakeupInv, [Next]_vars PROVE WakeupInv'
  OBVIOUS
<1>1. ASSUME NEW n \in Node, NEW list \in Value, SetAssignments(n, list)
      PROVE  WakeupInv'
  <2>1. CASE assignments[n] # Nil /\ assignments[n] = list
    BY <1>1, <2>1 DEF SetAssignments, WakeupInv
  <2>2. CASE ~(assignments[n] # Nil /\ assignments[n] = list)
    BY <1>1, <2>2, DecodedType, PublishWakeup DEF SetAssignments
  <2> QED
    BY <2>1, <2>2
<1>2. ASSUME NEW n \in Node, NEW a \in Assignment, MergeAssignment(n, a)
      PROVE  WakeupInv'
  <2> DEFINE existing == Decoded(assignments[n])
             merged == Append(SelectSeq(existing, LAMBDA x : x.dataset # a.dataset), a)
  <2>1. merged \in Lists /\ handler' = handler
    BY <1>2 DEF MergeAssignment
  <2>2. CASE existing = merged
    BY <1>2, <2>2 DEF MergeAssignment, WakeupInv
  <2>3. CASE existing # merged
    <3>1. Publish(n, merged)
      BY <1>2, <2>3, Zenon DEF MergeAssignment
    <3> HIDE DEF merged
    <3> QED
      BY <2>1, <3>1, PublishWakeup
  <2> QED
    BY <2>2, <2>3, Zenon
<1>3. ASSUME NEW n \in Node, GetAssignments(n) PROVE WakeupInv'
  <2> SUFFICES ASSUME NEW m \in Node
               PROVE  /\ \A c \in closed[m] : c < notify'[m]
                      /\ handler'[m].pc = "wait" =>
                            /\ handler'[m].chan # 0
                            /\ handler'[m].chan \notin closed[m] =>
                                  /\ handler'[m].chan = notify'[m]
                                  /\ generation[m] <= handler'[m].after
    BY <1>3 DEF WakeupInv, GetAssignments
  <2>1. CASE m # n
    BY <1>3, <2>1 DEF GetAssignments, TypeOK, WakeupInv
  <2>2. CASE m = n /\ generation[n] > handler[n].after
    BY <1>3, <2>2 DEF GetAssignments, TypeOK, WakeupInv, HandlerState
  <2>3. CASE m = n /\ ~(generation[n] > handler[n].after)
    <3>1. /\ notify'[n] = IF notify[n] = 0 THEN 1 ELSE notify[n]
          /\ handler'[n].chan = notify'[n]
          /\ handler'[n].after = handler[n].after
      BY <1>3, <2>3 DEF GetAssignments, TypeOK, HandlerState
    <3>2. generation[n] <= handler[n].after
      BY <2>3, BoundsAssumption DEF TypeOK, HandlerState, Generation
    <3> QED
      BY <2>3, <3>1, <3>2 DEF TypeOK, WakeupInv
  <2> QED
    BY <2>1, <2>2, <2>3
<1>4. ASSUME NEW n \in Node, HandlerRegister(n) \/ HandlerWake(n) PROVE WakeupInv'
  BY <1>4 DEF HandlerRegister, HandlerWake, TypeOK, WakeupInv, HandlerState, brokerVars
<1>5. ASSUME NEW n \in Node, handler' = [handler EXCEPT ![n] = NoHandler], UNCHANGED brokerVars
      PROVE  WakeupInv'
  BY <1>5 DEF TypeOK, WakeupInv, NoHandler, brokerVars
<1>6. ASSUME NEW n \in Node, FetchAssignments(n) PROVE WakeupInv'
  BY <1>6 DEF FetchAssignments, TypeOK, WakeupInv, NoHandler, brokerVars
<1>7. ASSUME handler' = handler, UNCHANGED <<generation, notify, closed>> PROVE WakeupInv'
  BY <1>7 DEF WakeupInv
<1>8. ASSUME ControlPlaneRestarts PROVE WakeupInv'
  BY <1>8 DEF ControlPlaneRestarts, WakeupInv, NoHandler
<1>9. ASSUME NEW n \in Node,
             FetchReturns(n) \/ FetchTimesOut(n) \/ FetchBreaks(n) \/ AgentRestarts(n)
      PROVE  WakeupInv'
  BY <1>5, <1>9 DEF FetchReturns, FetchTimesOut, FetchBreaks, FetchEnds, AgentRestarts
<1>10. ASSUME NEW n \in Node, Reconcile(n) \/ RunReports(n) \/ LoopReports(n)
       PROVE  WakeupInv'
  BY <1>7, <1>10 DEF Reconcile, RunReports, LoopReports, brokerVars
<1>11. ASSUME NEW n \in Node, NEW state \in posts[n],
              ReportState(n, state) \/ ReportLost(n, state)
       PROVE  WakeupInv'
  BY <1>7, <1>11 DEF ReportState, ReportLost, brokerVars
<1>12. CASE UNCHANGED vars
  BY <1>7, <1>12 DEF vars, brokerVars
<1> QED
  BY <1>1, <1>2, <1>3, <1>4, <1>6, <1>8, <1>9, <1>10, <1>11, <1>12
  DEF Next, FetchLoop, NodeFault

\* A poll that handleGetAssignments leaves blocked on an open channel misses
\* nothing the broker holds, in every interleaving with SetAssignments.
THEOREM PollsMissNothing == Spec => []NoLostWakeup
<1>1. TypeOK /\ WakeupInv => NoLostWakeup
  BY DEF WakeupInv, NoLostWakeup
<1> QED
  BY <1>1, TypeCorrect, InitWakeup, NextWakeup, PTL DEF Spec

=============================================================================
