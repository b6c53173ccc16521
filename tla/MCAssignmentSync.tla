--------------------------- MODULE MCAssignmentSync ---------------------------
(***************************************************************************)
(* Instances of AssignmentSync for TLC.                                    *)
(***************************************************************************)
EXTENDS AssignmentSync

A(d, v) == [dataset |-> d, version |-> v]

\* No active version, and one dataset at two versions.
MCUpgrade == {<< >>, <<A("d1", 1)>>, <<A("d1", 2)>>}

MCHot == {[d \in Dataset |-> "hot"]}

\* A binding of every node to the datasets of one label: without it a node gets
\* everything, and with it nil when no active dataset has the label.
MCBindOne == {[nodes |-> NodeLabel, datasets |-> {"hot"}]}

MCNoBinding == {}

=============================================================================
