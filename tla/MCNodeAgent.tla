----------------------------- MODULE MCNodeAgent ------------------------------
(***************************************************************************)
(* Instances of NodeAgent for TLC.                                         *)
(***************************************************************************)
EXTENDS NodeAgent

A(d, v) == [dataset |-> d, version |-> v]

\* One dataset and its successive versions.
MCUpgrades == {<<A("d1", v)>> : v \in Version}

\* Two datasets; each can be upgraded beside the other, and the second removed.
MCTwoDatasets == {<<A("d1", 1), A("d2", 1)>>, <<A("d1", 2), A("d2", 1)>>,
                  <<A("d1", 2), A("d2", 2)>>, <<A("d1", 2)>>}

\* Three versions of one dataset beside another dataset.
MCSteps == {<<A("d1", 1), A("d2", 2)>>, <<A("d1", 2), A("d2", 3)>>, <<A("d1", 3), A("d2", 3)>>}

MCAllHavePV == {}
MCOneHasNoPV == {<<"d2", 2>>}

=============================================================================
