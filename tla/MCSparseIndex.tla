--------------------------- MODULE MCSparseIndex ---------------------------
(* Small instances of SparseIndex for TLC. *)
EXTENDS SparseIndex

(* Eight fingerprints, two to a fence: "b" and "c" share a fence. *)
MCKey == {"a", "b", "c"}
MCFpOf == [k \in MCKey |-> CASE k = "a" -> 1 [] k = "b" -> 4 [] OTHER -> 5]

(* Empty; inline at the threshold of the smallest block, and compressible;   *)
(* on the heap, raw or compressed; over the limit.                            *)
MCValue == {[raw |-> 0, frame |-> 1], [raw |-> 8, frame |-> 3],
            [raw |-> 17, frame |-> 9], [raw |-> 18, frame |-> 4]}
=============================================================================
