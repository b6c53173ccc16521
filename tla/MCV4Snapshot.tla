---------------------------- MODULE MCV4Snapshot ----------------------------
(* Three keys of partition 0, two of them with one compact fingerprint, and *)
(* one of partition 1 whose hash is zero in the half that is compacted.     *)
EXTENDS V4Snapshot

MCKey == {"a", "b", "c", "d"}

MCHash ==
    [k \in MCKey |->
        CASE k = "a" -> [lo |-> 2, hi |-> 5]
          [] k = "b" -> [lo |-> 4, hi |-> 5]
          [] k = "c" -> [lo |-> 6, hi |-> 7]
          [] k = "d" -> [lo |-> 0, hi |-> 0]]
=============================================================================
