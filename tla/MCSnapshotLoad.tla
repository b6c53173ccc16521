---------------------------- MODULE MCSnapshotLoad ----------------------------
(***************************************************************************)
(* Instances of SnapshotLoad for TLC.                                      *)
(***************************************************************************)
EXTENDS SnapshotLoad, TLC

\* Two records in one partition and one in the other.
MCPartOf == "a1" :> 1 @@ "a2" :> 1 @@ "b1" :> 2

=============================================================================
