---------------------------- MODULE AssignmentFeed ----------------------------
(***************************************************************************)
(* What the control plane promises a node agent about its assignments: the *)
(* node has a log of published lists, and the agent's value is always one  *)
(* of them (or nothing), taken in order and possibly skipping some.  This  *)
(* is the contract behind the generation parameter of                      *)
(* GET /api/v1/node/{node}/assignments.                                    *)
(***************************************************************************)
EXTENDS Naturals, Sequences

CONSTANTS Node, Lists

VARIABLES
    log,    \* per node, the lists published so far
    seen,   \* per node, the position of the last list the agent applied, 0: none
    value   \* per node, the list the agent applied last

vars == <<log, seen, value>>

Init ==
    /\ log = [n \in Node |-> << >>]
    /\ seen = [n \in Node |-> 0]
    /\ value = [n \in Node |-> << >>]

PublishList(n) ==
    /\ \E list \in Lists : log' = [log EXCEPT ![n] = Append(@, list)]
    /\ UNCHANGED <<seen, value>>

\* The agent applies a list that is newer than the last one it applied.
Apply(n) ==
    /\ \E g \in (seen[n] + 1) .. Len(log[n]) :
          /\ seen' = [seen EXCEPT ![n] = g]
          /\ value' = [value EXCEPT ![n] = log[n][g]]
    /\ UNCHANGED log

\* The agent restarts and knows nothing.
Forget(n) ==
    /\ seen' = [seen EXCEPT ![n] = 0]
    /\ value' = [value EXCEPT ![n] = << >>]
    /\ UNCHANGED log

Next == \E n \in Node : PublishList(n) \/ Apply(n) \/ Forget(n)

Spec == Init /\ [][Next]_vars

=============================================================================
