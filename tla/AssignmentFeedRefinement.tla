---------------------- MODULE AssignmentFeedRefinement ------------------------
(***************************************************************************)
(* AssignmentBroker implements AssignmentFeed in one life of the control   *)
(* plane.  The log of the feed is a history variable: the list published   *)
(* under each generation of a node.                                        *)
(***************************************************************************)
EXTENDS AssignmentBroker

ASSUME OneLife == "controlplane" \notin FaultKinds

VARIABLE published

historyVars == <<vars, published>>

HistoryInit == Init /\ published = [n \in Node |-> << >>]

HistoryNext ==
    /\ Next
    /\ published' = [n \in Node |-> IF generation'[n] # generation[n]
                                    THEN Append(published[n], assignments'[n])
                                    ELSE published[n]]

HistorySpec == HistoryInit /\ [][HistoryNext]_historyVars

HistoryFairSpec == HistorySpec /\ Fairness

Feed == INSTANCE AssignmentFeed
            WITH log <- published,
                 seen <- [n \in Node |-> agent[n].generation],
                 value <- [n \in Node |-> agent[n].applied]

\* The broker, its server and the agent's loop implement the feed: every response
\* an agent acts on is strictly newer than the last, and is a published list.
FeedSpec == Feed!Spec

=============================================================================
