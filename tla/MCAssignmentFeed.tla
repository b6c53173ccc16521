--------------------------- MODULE MCAssignmentFeed ---------------------------
(***************************************************************************)
(* Instances of AssignmentFeedRefinement: two datasets, so that a merge    *)
(* keeps one assignment and replaces the other.                            *)
(***************************************************************************)
EXTENDS AssignmentFeedRefinement

A(d, v) == [dataset |-> d, version |-> v]

\* No assignment, one version, its successor, and the successor beside a second
\* dataset.
MCLists == {<< >>, <<A("d1", 1)>>, <<A("d1", 2)>>, <<A("d2", 1), A("d1", 2)>>}

=============================================================================
