---------------------------- MODULE AssignmentSync ----------------------------
(***************************************************************************)
(* The NodeAssignmentReconciler (nodeassignment.go) composed with the      *)
(* broker, the long-poll server and the agents of AssignmentBroker: custom *)
(* resources change, the reconciler recomputes every registered node's     *)
(* assignments and pushes them, and the agents pick them up.               *)
(*                                                                         *)
(* The labels of an object are one model value, and a label selector is    *)
(* the set of labels it matches.                                           *)
(***************************************************************************)
EXTENDS AssignmentBroker

CONSTANTS
    Dataset,       \* the datasets of the lists
    NodeLabel,     \* labels of Node objects
    DatasetLabel,  \* labels of Datasets
    StartLabels,   \* the labels the Datasets can start with
    Binding,       \* the DatasetBindings considered: their two selectors
    MaxChanges     \* bound on the changes of the custom resources and nodes

ASSUME ChangesAssumption == MaxChanges \in Nat
ASSUME LabelsAssumption ==
    /\ Nil \notin NodeLabel
    /\ StartLabels \subseteq [Dataset -> DatasetLabel]
    /\ Binding \subseteq [nodes : SUBSET NodeLabel, datasets : SUBSET DatasetLabel]

VARIABLES
    active,     \* the assignments of the DatasetVersions in state active, as listed
    bindings,   \* the DatasetBindings
    nodeLabel,  \* the labels of each Kubernetes Node object, Nil: there is none
    dsLabel,    \* the labels of each Dataset
    queued,     \* a reconcile request waits in the work queue
    sync,       \* the syncBroker call in progress
    signal,     \* the nodes whose handlePostState is between ReportState and OnStateReport
    changes,    \* how many changes happened
    unread,     \* history: labels of a Dataset changed since syncBroker read them
    restarted   \* history: the control plane restarted

clusterVars == <<active, bindings, nodeLabel, dsLabel, changes>>
history == <<unread, restarted>>
syncVars == <<clusterVars, queued, sync, signal, history>>
allVars == <<vars, syncVars>>

NoSync == [pc |-> "idle", all |-> << >>, labels |-> << >>, bindings |-> {}, todo |-> {}]

\* A controller starts with one request for every DatasetVersion that exists,
\* active or not.
StartQueue == {TRUE, active # << >>}

SyncInit ==
    /\ Init
    /\ active \in Lists
    /\ bindings \in SUBSET Binding
    /\ nodeLabel \in [Node -> NodeLabel]
    /\ dsLabel \in StartLabels
    /\ queued \in StartQueue
    /\ sync = NoSync
    /\ signal = {}
    /\ changes = 0
    /\ unread = FALSE /\ restarted = FALSE

-----------------------------------------------------------------------------
(* filterAssignmentsForNode.  The result is a nil slice when bindings match  *)
(* the node and none of them selects an active dataset.                      *)

FilterAssignments(n, all, labels, bs) ==
    LET matching == {b \in bs : nodeLabel[n] \in b.nodes}
        selected == SelectSeq(all, LAMBDA a : \E b \in matching : labels[a.dataset] \in b.datasets)
    IN  IF matching = {} THEN all
        ELSE IF selected = << >> THEN Nil ELSE selected

\* What a registered node should have been assigned.
Desired(n) ==
    IF nodeLabel[n] = Nil THEN << >> ELSE Decoded(FilterAssignments(n, active, dsLabel, bindings))

-----------------------------------------------------------------------------
(* The cluster changes.  The watches decide what is enqueued: any change of  *)
(* a DatasetVersion; for a DatasetBinding or a Node, one request per active  *)
(* version, so none when no version is active; for a Dataset, nothing.       *)

EnqueueActiveVersions == queued' = (queued \/ active # << >>)

Change ==
    /\ changes < MaxChanges
    /\ changes' = changes + 1
    /\ UNCHANGED <<vars, sync, signal, restarted>>

VersionsChange ==
    /\ Change
    /\ \E list \in Lists \ {active} : active' = list
    /\ queued' = TRUE
    /\ UNCHANGED <<bindings, nodeLabel, dsLabel, unread>>

BindingsChange ==
    /\ Change
    /\ \E bs \in SUBSET Binding \ {bindings} : bindings' = bs
    /\ EnqueueActiveVersions
    /\ UNCHANGED <<active, nodeLabel, dsLabel, unread>>

\* A Node object is created, relabelled or deleted.
NodeObjectChanges ==
    /\ Change
    /\ \E n \in Node : \E l \in (NodeLabel \cup {Nil}) \ {nodeLabel[n]} :
          nodeLabel' = [nodeLabel EXCEPT ![n] = l]
    /\ EnqueueActiveVersions
    /\ UNCHANGED <<active, bindings, dsLabel, unread>>

\* No watch tells the reconciler that the labels of a Dataset changed.
DatasetLabelsChange ==
    /\ Change
    /\ \E d \in Dataset : \E l \in DatasetLabel \ {dsLabel[d]} :
          dsLabel' = [dsLabel EXCEPT ![d] = l]
    /\ unread' = TRUE
    /\ UNCHANGED <<active, bindings, nodeLabel, queued>>

-----------------------------------------------------------------------------
(* Reconcile and syncBroker.  One worker; each read is a step of its own.    *)

SyncVersions ==
    /\ queued /\ sync.pc = "idle"
    /\ queued' = FALSE
    /\ sync' = [sync EXCEPT !.pc = "bindings", !.all = active, !.labels = dsLabel]
    /\ unread' = FALSE
    /\ UNCHANGED <<vars, clusterVars, signal, restarted>>

SyncBindings ==
    /\ sync.pc = "bindings"
    /\ sync' = [sync EXCEPT !.pc = "nodes", !.bindings = bindings]
    /\ UNCHANGED <<vars, clusterVars, queued, signal, history>>

SyncNodes ==
    /\ sync.pc = "nodes"
    /\ sync' = [sync EXCEPT !.pc = "push", !.todo = nodes]
    /\ UNCHANGED <<vars, clusterVars, queued, signal, history>>

\* One turn of the loop over Broker.Nodes(): a node without a Node object gets nil.
SyncPush(n) ==
    /\ sync.pc = "push"
    /\ n \in sync.todo
    /\ SetAssignments(n, IF nodeLabel[n] = Nil THEN Nil
                         ELSE FilterAssignments(n, sync.all, sync.labels, sync.bindings))
    /\ sync' = [sync EXCEPT !.todo = @ \ {n}]
    /\ UNCHANGED <<clusterVars, queued, signal, history>>

SyncDone ==
    /\ sync.pc = "push" /\ sync.todo = {}
    /\ sync' = NoSync
    /\ UNCHANGED <<vars, clusterVars, queued, signal, history>>

\* Mutant of SyncFails: the error is logged and swallowed.
SyncFailsQuietly ==
    /\ sync.pc # "idle"
    /\ sync.pc = "push" => sync.todo # {}
    /\ Fault("sync")
    /\ sync' = NoSync
    /\ UNCHANGED <<brokerVars, handler, agent, posts, clusterVars, signal, queued, history>>

\* A List or Get fails: syncBroker returns the error and the request is queued
\* again, with the pushes already done left in place.
SyncFails ==
    /\ sync.pc # "idle"
    /\ sync.pc = "push" => sync.todo # {}
    /\ Fault("sync")
    /\ sync' = NoSync
    /\ queued' = TRUE
    /\ UNCHANGED <<brokerVars, handler, agent, posts, clusterVars, signal, history>>

\* handlePostState calls OnStateReport after the broker has the report, which
\* enqueues every active version.  Its buffered channel drops an event only when it
\* is full of events not yet served, and then a request is queued all the same.
PostState(n, state) ==
    /\ n \notin signal
    /\ ReportState(n, state)
    /\ signal' = signal \cup {n}
    /\ UNCHANGED <<clusterVars, queued, sync, history>>

\* Mutant of OnStateReport: a report enqueues nothing.
OnStateReportIgnored(n) ==
    /\ n \in signal
    /\ signal' = signal \ {n}
    /\ UNCHANGED <<vars, clusterVars, sync, queued, history>>

OnStateReport(n) ==
    /\ n \in signal
    /\ signal' = signal \ {n}
    /\ EnqueueActiveVersions
    /\ UNCHANGED <<vars, clusterVars, sync, history>>

\* OnStateReport cannot list the versions and gives up.
OnStateReportFails(n) ==
    /\ n \in signal
    /\ signal' = signal \ {n}
    /\ Fault("sync")
    /\ UNCHANGED <<brokerVars, handler, agent, posts, clusterVars, sync, queued, history>>

SyncRestarts ==
    /\ ControlPlaneRestarts
    /\ sync' = NoSync
    /\ signal' = {}
    /\ queued' \in StartQueue
    /\ unread' = FALSE
    /\ restarted' = TRUE
    /\ UNCHANGED clusterVars

-----------------------------------------------------------------------------
SyncStep ==
    \/ SyncVersions
    \/ SyncBindings
    \/ SyncNodes
    \/ \E n \in Node : SyncPush(n)
    \/ SyncDone

SyncNext ==
    \/ VersionsChange
    \/ BindingsChange
    \/ NodeObjectChanges
    \/ DatasetLabelsChange
    \/ SyncStep
    \/ SyncFails
    \/ SyncRestarts
    \/ \E n \in Node :
          \/ OnStateReport(n)
          \/ OnStateReportFails(n)
          \/ \E state \in posts[n] : PostState(n, state)
          \/ /\ FetchLoop(n) \/ FetchTimesOut(n) \/ LoopReports(n) \/ NodeFault(n)
             /\ UNCHANGED syncVars

SyncSpec == SyncInit /\ [][SyncNext]_allVars

\* As in AssignmentBroker; the controller's worker serves its queue.
SyncFairness ==
    /\ WF_allVars(SyncStep)
    /\ \A n \in Node :
          /\ WF_allVars(FetchLoop(n) /\ UNCHANGED syncVars)
          /\ WF_allVars(LoopReports(n) /\ UNCHANGED syncVars)
          /\ WF_allVars(\E state \in posts[n] : PostState(n, state))
          /\ WF_allVars(OnStateReport(n))

SyncFairSpec == SyncSpec /\ SyncFairness

-----------------------------------------------------------------------------
(* Properties.                                                               *)

\* With nothing queued and no syncBroker call running, every node that has been
\* pushed to holds exactly what the active versions, the bindings and the labels
\* give it: no change is read too early and then forgotten.  Changed labels of a
\* Dataset that no sync has read yet are the one exception.
QuiescentAssignmentsCorrect ==
    ~queued /\ sync.pc = "idle" /\ ~unread =>
        \A n \in Node : assignments[n] # Nil => assignments[n] = Desired(n)

\* Every agent ends with the assignments its node should have, changed labels
\* included: "converges the node toward the desired dataset assignments".
AgentsConverge ==
    \A n \in Node : <>[](agent[n].applied = Desired(n))

\* That holds as long as the control plane does not restart: failed syncs are
\* retried, and the reports of the agents make up for the watch that is missing.
AgentsConvergeInOneLife ==
    \A n \in Node : <>[](agent[n].applied = Desired(n) \/ restarted)

=============================================================================
