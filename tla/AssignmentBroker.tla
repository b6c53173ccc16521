--------------------------- MODULE AssignmentBroker ---------------------------
(***************************************************************************)
(* The path of an assignment from the control plane to a node agent:       *)
(*                                                                         *)
(*   broker.go           the in-memory AssignmentBroker                    *)
(*   server.go           the long-poll and the state-report handlers       *)
(*   assignment/http.go  the agent's HTTP client                           *)
(*   agent.go            the agent's fetch loop and its report loop        *)
(*                                                                         *)
(* Every broker method takes b.mu for its whole body, so it is one step    *)
(* here; a handler that calls two of them is two steps, and other          *)
(* goroutines run in between.                                              *)
(***************************************************************************)
EXTENDS Naturals, Sequences

CONSTANTS
    Node,            \* node names
    Lists,           \* the assignment lists considered: sequences of
                     \* [dataset, version] records, << >> among them
    Nil,             \* Go's nil slice, also "no entry" in a map
    MaxGeneration,   \* bound on the generation of one node
    FaultKinds,      \* the faults considered, see Fault
    MaxFaults        \* bound on the faults of one behaviour

ASSUME ListsAssumption == << >> \in Lists /\ Nil \notin Lists
ASSUME BoundsAssumption == MaxGeneration \in Nat /\ MaxFaults \in Nat

VARIABLES
    nodes,        \* b.nodes
    assignments,  \* b.assignments; Nil where the map has no entry
    generation,   \* b.generation; 0 where the map has no entry
    notify,       \* b.notify: the number of the node's current channel, 0: none
    closed,       \* the numbers of the node's closed channels
    nodeStates,   \* b.nodeStates: last reported state, Nil where there is none
    handler,      \* the long-poll request in progress for the node
    agent,        \* the fetch loop of the node's agent
    posts,        \* the state reports in flight from the node
    faults        \* how many faults happened

brokerVars == <<nodes, assignments, generation, notify, closed, nodeStates>>
vars == <<brokerVars, handler, agent, posts, faults>>

Value == Lists \cup {Nil}
Generation == 0 .. MaxGeneration
Response == [generation : Generation, assignments : Value]
HandlerState == [pc : {"none", "register", "get", "wait", "respond"},
                 after : Generation, chan : Nat, resp : Response]
AgentState == [pc : {"fetch", "poll", "reconcile", "report"},
               generation : Generation, resp : Response, applied : Lists]

NoResponse == [generation |-> 0, assignments |-> Nil]
NoHandler == [pc |-> "none", after |-> 0, chan |-> 0, resp |-> NoResponse]
FreshAgent == [pc |-> "fetch", generation |-> 0, resp |-> NoResponse, applied |-> << >>]

\* A Go nil slice is encoded as JSON null and decoded as no assignment at all.
Decoded(list) == IF list = Nil THEN << >> ELSE list

TypeOK ==
    /\ nodes \subseteq Node
    /\ assignments \in [Node -> Value]
    /\ generation \in [Node -> Generation]
    /\ notify \in [Node -> Nat]
    /\ closed \in [Node -> SUBSET Nat]
    /\ nodeStates \in [Node -> Value]
    /\ handler \in [Node -> HandlerState]
    /\ agent \in [Node -> AgentState]
    /\ posts \in [Node -> SUBSET Lists]
    /\ faults \in 0 .. MaxFaults

Init ==
    /\ nodes = {}
    /\ assignments = [n \in Node |-> Nil]
    /\ generation = [n \in Node |-> 0]
    /\ notify = [n \in Node |-> 0]
    /\ closed = [n \in Node |-> {}]
    /\ nodeStates = [n \in Node |-> Nil]
    /\ handler = [n \in Node |-> NoHandler]
    /\ agent = [n \in Node |-> FreshAgent]
    /\ posts = [n \in Node |-> {}]
    /\ faults = 0

\* A fault of one kind: a request ("fetch") or a report ("report") that is lost,
\* a restart of an agent ("agent") or of the control plane ("controlplane").
Fault(kind) ==
    /\ kind \in FaultKinds
    /\ faults < MaxFaults
    /\ faults' = faults + 1

-----------------------------------------------------------------------------
(* The broker.  Publish is the common tail of SetAssignments and             *)
(* MergeAssignment: store, bump, close the channel, make a new one.          *)

\* Mutant of Publish: the channel is replaced but not closed.
PublishWithoutClose(n, list) ==
    /\ generation[n] < MaxGeneration
    /\ assignments' = [assignments EXCEPT ![n] = list]
    /\ generation' = [generation EXCEPT ![n] = @ + 1]
    /\ notify' = [notify EXCEPT ![n] = @ + 1]
    /\ UNCHANGED closed

Publish(n, list) ==
    /\ generation[n] < MaxGeneration
    /\ assignments' = [assignments EXCEPT ![n] = list]
    /\ generation' = [generation EXCEPT ![n] = @ + 1]
    /\ closed' = [closed EXCEPT ![n] = IF notify[n] = 0 THEN @ ELSE @ \cup {notify[n]}]
    /\ notify' = [notify EXCEPT ![n] = @ + 1]

\* reflect.DeepEqual never equates a nil slice with a stored, non-nil one, so
\* an incoming Nil always reaches Publish.
SetAssignments(n, list) ==
    /\ IF assignments[n] # Nil /\ assignments[n] = list
       THEN UNCHANGED <<assignments, generation, notify, closed>>
       ELSE Publish(n, Decoded(list))
    /\ UNCHANGED <<nodes, nodeStates, handler, agent, posts, faults>>

MergeAssignment(n, a) ==
    LET existing == Decoded(assignments[n])
        merged == Append(SelectSeq(existing, LAMBDA x : x.dataset # a.dataset), a)
    IN  /\ merged \in Lists
        /\ IF existing = merged
           THEN UNCHANGED <<assignments, generation, notify, closed>>
           ELSE Publish(n, merged)
        /\ UNCHANGED <<nodes, nodeStates, handler, agent, posts, faults>>

-----------------------------------------------------------------------------
(* handleGetAssignments.  RegisterNode and GetAssignments lock separately.   *)

HandlerRegister(n) ==
    /\ handler[n].pc = "register"
    /\ nodes' = nodes \cup {n}
    /\ handler' = [handler EXCEPT ![n].pc = "get"]
    /\ UNCHANGED <<assignments, generation, notify, closed, nodeStates, agent, posts, faults>>

CurrentResponse(n) == [generation |-> generation[n], assignments |-> assignments[n]]

\* GetAssignments creates the notify channel when it has to make the caller wait
\* and the node has none.
GetAssignments(n) ==
    /\ handler[n].pc = "get"
    /\ IF generation[n] > handler[n].after
       THEN /\ handler' = [handler EXCEPT ![n].pc = "respond", ![n].resp = CurrentResponse(n)]
            /\ UNCHANGED notify
       ELSE /\ notify' = [notify EXCEPT ![n] = IF @ = 0 THEN 1 ELSE @]
            /\ handler' = [handler EXCEPT ![n].pc = "wait", ![n].chan = notify'[n]]
    /\ UNCHANGED <<nodes, assignments, generation, closed, nodeStates, agent, posts, faults>>

\* The channel was closed: read again and respond, whatever the generation.
HandlerWake(n) ==
    /\ handler[n].pc = "wait"
    /\ handler[n].chan \in closed[n]
    /\ handler' = [handler EXCEPT ![n].pc = "respond", ![n].resp = CurrentResponse(n)]
    /\ UNCHANGED <<brokerVars, agent, posts, faults>>

-----------------------------------------------------------------------------
(* The agent: FetchAssignments, Run and reportLoop.                          *)

\* Mutant of FetchAssignments: asks for what comes after the next generation.
FetchAssignmentsNext(n) ==
    /\ agent[n].pc = "fetch"
    /\ agent' = [agent EXCEPT ![n].pc = "poll"]
    /\ handler' = [handler EXCEPT ![n] = [NoHandler EXCEPT !.pc = "register",
                                                         !.after = agent[n].generation + 1]]
    /\ UNCHANGED <<brokerVars, posts, faults>>

FetchAssignments(n) ==
    /\ agent[n].pc = "fetch"
    /\ agent' = [agent EXCEPT ![n].pc = "poll"]
    /\ handler' = [handler EXCEPT ![n] = [NoHandler EXCEPT !.pc = "register",
                                                         !.after = agent[n].generation]]
    /\ UNCHANGED <<brokerVars, posts, faults>>

\* The response reaches the client.
FetchReturns(n) ==
    /\ agent[n].pc = "poll"
    /\ handler[n].pc = "respond"
    /\ agent' = [agent EXCEPT ![n].pc = "reconcile", ![n].resp = handler[n].resp]
    /\ handler' = [handler EXCEPT ![n] = NoHandler]
    /\ UNCHANGED <<brokerVars, posts, faults>>

\* FetchAssignments returns an error: the handler's context is done, and Run tries
\* again, after a backoff, with the generation it had.
FetchEnds(n) ==
    /\ agent[n].pc = "poll"
    /\ agent' = [agent EXCEPT ![n].pc = "fetch"]
    /\ handler' = [handler EXCEPT ![n] = NoHandler]
    /\ UNCHANGED <<brokerVars, posts>>

\* The client's five-minute timeout, while the handler waits: part of normal
\* operation, as often as nothing changes.
FetchTimesOut(n) ==
    /\ handler[n].pc = "wait"
    /\ FetchEnds(n)
    /\ UNCHANGED faults

\* The connection breaks at any point, with the response computed or not.
FetchBreaks(n) == FetchEnds(n) /\ Fault("fetch")

\* Mutant of Reconcile: forgets to take over the generation.
ReconcileKeepsGeneration(n) ==
    /\ agent[n].pc = "reconcile"
    /\ agent' = [agent EXCEPT ![n].pc = "report",
                             ![n].applied = Decoded(agent[n].resp.assignments)]
    /\ UNCHANGED <<brokerVars, handler, posts, faults>>

\* Run reconciles every assignment of the response and then takes over its
\* generation, without looking at the outcome.
Reconcile(n) ==
    /\ agent[n].pc = "reconcile"
    /\ agent' = [agent EXCEPT ![n].pc = "report",
                             ![n].generation = agent[n].resp.generation,
                             ![n].applied = Decoded(agent[n].resp.assignments)]
    /\ UNCHANGED <<brokerVars, handler, posts, faults>>

\* doReport, from Run and from reportLoop's ticker.  The POST is given up after
\* ten seconds, so neither goroutine waits for the other's to arrive and two
\* reports can overtake each other.
RunReports(n) ==
    /\ agent[n].pc = "report"
    /\ agent' = [agent EXCEPT ![n].pc = "fetch"]
    /\ posts' = [posts EXCEPT ![n] = @ \cup {agent[n].applied}]
    /\ UNCHANGED <<brokerVars, handler, faults>>

\* Mutant of LoopReports: the ticker reports only when Run is about to.
LoopReportsWithRun(n) ==
    /\ agent[n].pc = "report"
    /\ posts' = [posts EXCEPT ![n] = @ \cup {agent[n].applied}]
    /\ UNCHANGED <<brokerVars, handler, agent, faults>>

LoopReports(n) ==
    /\ posts' = [posts EXCEPT ![n] = @ \cup {agent[n].applied}]
    /\ UNCHANGED <<brokerVars, handler, agent, faults>>

\* handlePostState: the broker stores the report.
ReportState(n, state) ==
    /\ state \in posts[n]
    /\ nodeStates' = [nodeStates EXCEPT ![n] = state]
    /\ posts' = [posts EXCEPT ![n] = @ \ {state}]
    /\ UNCHANGED <<nodes, assignments, generation, notify, closed, handler, agent, faults>>

ReportLost(n, state) ==
    /\ state \in posts[n]
    /\ posts' = [posts EXCEPT ![n] = @ \ {state}]
    /\ Fault("report")
    /\ UNCHANGED <<brokerVars, handler, agent>>

-----------------------------------------------------------------------------
(* Restarts.  The broker is memory only; an agent restarts from New.         *)

ControlPlaneRestarts ==
    /\ Fault("controlplane")
    /\ nodes' = {}
    /\ assignments' = [n \in Node |-> Nil]
    /\ generation' = [n \in Node |-> 0]
    /\ notify' = [n \in Node |-> 0]
    /\ closed' = [n \in Node |-> {}]
    /\ nodeStates' = [n \in Node |-> Nil]
    /\ handler' = [n \in Node |-> NoHandler]
    /\ agent' = [n \in Node |-> IF agent[n].pc = "poll"
                                THEN [agent[n] EXCEPT !.pc = "fetch"] ELSE agent[n]]
    /\ UNCHANGED posts

AgentRestarts(n) ==
    /\ Fault("agent")
    /\ agent' = [agent EXCEPT ![n] = FreshAgent]
    /\ handler' = [handler EXCEPT ![n] = NoHandler]
    /\ UNCHANGED <<brokerVars, posts>>

-----------------------------------------------------------------------------
\* The steps of one node's fetch loop and of the request it has sent.
FetchLoop(n) ==
    \/ FetchAssignments(n)
    \/ HandlerRegister(n)
    \/ GetAssignments(n)
    \/ HandlerWake(n)
    \/ FetchReturns(n)
    \/ Reconcile(n)
    \/ RunReports(n)

\* What can go wrong around one node.
NodeFault(n) ==
    \/ FetchBreaks(n)
    \/ \E state \in posts[n] : ReportLost(n, state)
    \/ AgentRestarts(n)

\* The assignments that appear in the lists considered.
Assignment == UNION {{l[i] : i \in 1 .. Len(l)} : l \in Lists}

Next ==
    \/ \E n \in Node :
          \/ \E list \in Value : SetAssignments(n, list)
          \/ \E a \in Assignment : MergeAssignment(n, a)
          \/ FetchLoop(n)
          \/ FetchTimesOut(n)
          \/ LoopReports(n)
          \/ \E state \in posts[n] : ReportState(n, state)
          \/ NodeFault(n)
    \/ ControlPlaneRestarts

Spec == Init /\ [][Next]_vars

\* Goroutines are scheduled, the ticker keeps firing, a request that does not
\* fail is served.  Faults are finite in number; timeouts are not.
Fairness ==
    \A n \in Node :
        /\ WF_vars(FetchLoop(n))
        /\ WF_vars(LoopReports(n))
        /\ WF_vars(\E state \in posts[n] : ReportState(n, state))

FairSpec == Spec /\ Fairness

-----------------------------------------------------------------------------
(* Properties.                                                               *)

\* No lost wake-up: a long-poll blocked in handleGetAssignments on an open
\* channel has already been given everything the broker holds for the node, so
\* SetAssignments between the handler's GetAssignments and its select never
\* leaves the agent waiting for a generation that exists.
NoLostWakeup ==
    \A n \in Node :
        handler[n].pc = "wait" /\ handler[n].chan \notin closed[n]
            => generation[n] <= handler[n].after

\* Why: a closed channel is older than the current one, and a handler that waits
\* on an open channel waits on the current one, taken when the generation was no
\* newer than its own.
WakeupInv ==
    \A n \in Node :
        /\ \A c \in closed[n] : c < notify[n]
        /\ handler[n].pc = "wait" =>
              /\ handler[n].chan # 0
              /\ handler[n].chan \notin closed[n] =>
                    handler[n].chan = notify[n] /\ generation[n] <= handler[n].after

\* "Diff-on-set": the generation is bumped, and blocked polls are woken, only
\* when the assignments of the node change.
BumpOnlyOnChange ==
    [][\A n \in Node : generation'[n] > generation[n]
                           => assignments'[n] # assignments[n]]_vars

\* The agent ends with the broker's last list, whatever responses were lost on
\* the way (the number of changes is bounded, so there is a last one).
AgentCatchesUp ==
    \A n \in Node : <>[](agent[n].applied = Decoded(assignments[n]))

\* Reports overtake each other and get lost, yet the broker's nodeStates ends
\* with the state the agent is in.
ReportsConverge ==
    \A n \in Node : <>[](nodeStates[n] = agent[n].applied)

=============================================================================
