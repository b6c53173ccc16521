--------------------------- MODULE RobinHoodIndex ---------------------------
(***************************************************************************)
(* The index of one partition of a V4 snapshot: the values and buckets that *)
(* PartitionWriter::write appends, the Robin Hood table that build_index    *)
(* makes of them, one loop iteration of insert per step, and the lookup     *)
(* that PartitionReader::get does in the finished table.                    *)
(*                                                                         *)
(* A bucket is the number of a record of the log, 0 when it is empty; its   *)
(* fingerprint and its offset are the record's.  The verify fingerprint in  *)
(* a value's header tells the keys apart: 64-bit collisions are left out.   *)
(***************************************************************************)
EXTENDS Integers, Sequences, FiniteSets

CONSTANTS
    Key,          \* keys of the partition, present or not
    Units,        \* Units[k]: the length of k's value, in units of VALUE_ALIGNMENT
    MaxHash,      \* the largest high half of a hash
    Hashings,     \* the hash functions considered
    MaxRecords,   \* bound on the records written
    MaxPsl,       \* MAX_PSL and MAX_DUPLICATE_FINGERPRINT_CHAIN
    MaxOffset,    \* MAX_OFFSET; the offset after it is NO_MATCH
    GroupSize     \* GROUP_SIZE

ASSUME IndexAssumption ==
    /\ Units \in [Key -> Nat \ {0}]
    /\ MaxHash \in Nat /\ MaxRecords \in Nat /\ MaxPsl \in Nat /\ MaxOffset \in Nat
    /\ Hashings \subseteq [Key -> 0 .. MaxHash]
    /\ GroupSize \in Nat \ {0}

VARIABLES
    hash,     \* the high half of each key's hash
    log,      \* the records of data.bin and spill.bin, in the order written
    top,      \* byte_offset of data.bin, in units
    nb,       \* n_buckets
    table,    \* bucket -> record number, 0 if empty
    psls,     \* bucket -> probe sequence length
    taken,    \* the last record that insert was called for
    cur,      \* the record in hand: cur_fp, cur_off
    pos, psl, \* where it is tried, and how far that is from its home
    pc        \* "write", "insert", "done", "refused" (duplicates), "full" (offset)

input == <<hash, log, top>>
buckets == <<nb, table, psls>>
hand == <<taken, cur, pos, psl>>
vars == <<input, buckets, hand, pc>>

IndexTypeOK ==
    /\ hash \in Hashings
    /\ log \in Seq([key : Key, off : 0 .. MaxOffset]) /\ Len(log) \in 0 .. MaxRecords
    /\ top \in Nat /\ nb \in Nat
    /\ table \in [0 .. nb - 1 -> 0 .. Len(log)]
    /\ psls \in [0 .. nb - 1 -> 0 .. MaxPsl]
    /\ taken \in 0 .. Len(log) /\ cur \in 0 .. Len(log)
    /\ pos \in Nat /\ psl \in 0 .. MaxPsl
    /\ pc \in {"write", "insert", "done", "refused", "full"}

Init ==
    /\ hash \in Hashings /\ log = <<>> /\ top = 0
    /\ nb = 0 /\ table = [p \in 0 .. nb - 1 |-> 0] /\ psls = [p \in 0 .. nb - 1 |-> 0]
    /\ taken = 0 /\ cur = 0 /\ pos = 0 /\ psl = 0
    /\ pc = "write"

-----------------------------------------------------------------------------
(* Fingerprints and sizes                                                   *)

\* Zero marks an empty bucket, so a fingerprint of zero becomes one.
CompactFingerprint(h) == IF h = 0 THEN 1 ELSE h

Fp(i) == CompactFingerprint(hash[log[i].key])

HomePosition(fp, n) == fp % n

\* ceil(n / 0.95)
BucketCount(n) == (20 * n + 18) \div 19

\* ceil(1.5 * n).  A table longer than this bound has no home near its end, and
\* a longer one holds the same buckets, so its length stands for all of them.
LongestTable == MaxHash + MaxRecords + 1

Grown(n) == IF n > LongestTable THEN n ELSE (3 * n + 1) \div 2

-----------------------------------------------------------------------------
(* PartitionWriter::write and finish_data                                   *)

\* write_value: the value goes to the next aligned offset.
WriteValue(k) == top' = top + Units[k]

\* Bucket::new: the offset fits in its 32 bits, and is not NO_MATCH.
OffsetFits(off) == off <= MaxOffset

\* The value is written, then Bucket::new refuses an offset it cannot hold.
Write(k) ==
    /\ pc = "write" /\ Len(log) < MaxRecords
    /\ WriteValue(k)
    /\ IF OffsetFits(top)
       THEN log' = Append(log, [key |-> k, off |-> top]) /\ UNCHANGED pc
       ELSE pc' = "full" /\ UNCHANGED log
    /\ UNCHANGED <<hash, buckets, hand>>

-----------------------------------------------------------------------------
(* build_index and index::build                                             *)

\* insert is called for record i in a table of n buckets.
Insert(i, n) ==
    IF i > Len(log)
    THEN /\ pc' = "done" /\ cur' = 0 /\ pos' = 0 /\ psl' = 0
         /\ UNCHANGED taken
    ELSE /\ pc' = "insert" /\ taken' = i
         /\ cur' = i /\ pos' = HomePosition(Fp(i), n) /\ psl' = 0

NewTable(n) ==
    /\ nb' = n
    /\ table' = [p \in 0 .. n - 1 |-> 0] /\ psls' = [p \in 0 .. n - 1 |-> 0]
    /\ Insert(1, n)

Having(fp) == {i \in 1 .. Len(log) : Fp(i) = fp}

PathologicalDuplicates == \E i \in 1 .. Len(log) : Cardinality(Having(Fp(i))) > MaxPsl

BuildIndex ==
    /\ pc = "write" /\ ~PathologicalDuplicates
    /\ NewTable(BucketCount(Len(log)))
    /\ UNCHANGED input

RefuseDuplicates ==
    /\ pc = "write" /\ PathologicalDuplicates
    /\ pc' = "refused"
    /\ UNCHANGED <<input, buckets, hand>>

-----------------------------------------------------------------------------
(* insert, one iteration of its loop at a time                              *)

NextPosition(p) == (p + 1) % nb

PlaceInEmpty ==
    /\ pc = "insert" /\ table[pos] = 0
    /\ table' = [table EXCEPT ![pos] = cur]
    /\ psls' = [psls EXCEPT ![pos] = psl]
    /\ Insert(taken + 1, nb)
    /\ UNCHANGED <<input, nb>>

\* The record in hand moves on to the next bucket.
Advance(i, d) ==
    /\ cur' = i /\ pos' = NextPosition(pos) /\ psl' = d + 1
    /\ UNCHANGED <<taken, pc>>

Displaced == psls[pos] < psl

\* PslOverflow: the record that would move on is as far from home as it may be.
Overflow == (IF Displaced THEN psls[pos] ELSE psl) = MaxPsl

\* The bucket's record is nearer to its home than the one in hand: they swap.
Displace ==
    /\ pc = "insert" /\ table[pos] # 0 /\ Displaced /\ ~Overflow
    /\ table' = [table EXCEPT ![pos] = cur]
    /\ psls' = [psls EXCEPT ![pos] = psl]
    /\ Advance(table[pos], psls[pos])
    /\ UNCHANGED <<input, nb>>

PassOver ==
    /\ pc = "insert" /\ table[pos] # 0 /\ ~Displaced /\ ~Overflow
    /\ Advance(cur, psl)
    /\ UNCHANGED <<input, buckets>>

\* Mutant of Regrow: the table is retried at the same length.
RegrowSame ==
    /\ pc = "insert" /\ table[pos] # 0 /\ Overflow
    /\ NewTable(nb)
    /\ UNCHANGED input

\* build starts again with a longer table.
Regrow ==
    /\ pc = "insert" /\ table[pos] # 0 /\ Overflow
    /\ NewTable(Grown(nb))
    /\ UNCHANGED input

-----------------------------------------------------------------------------
(* PartitionReader::get                                                     *)

NoMatch == MaxOffset + 1

Bucket(fp, j) == table[(HomePosition(fp, nb) + j) % nb]

\* Mutant of ProbeLimit: only whole groups within the table are looked at.
ProbeLimitWhole == (nb \div GroupSize) * GroupSize

\* The loop looks at groups until it has covered the table.
ProbeLimit == ((nb + GroupSize - 1) \div GroupSize) * GroupSize

\* The buckets it looks at: up to the first empty one.
Probed(fp) ==
    IF nb = 0 THEN {}
    ELSE {j \in 0 .. ProbeLimit - 1 : \A i \in 0 .. j : Bucket(fp, i) # 0}

Candidates(fp) ==
    {j \in Probed(fp) : Fp(Bucket(fp, j)) = fp /\ log[Bucket(fp, j)].off # NoMatch}

\* read_and_verify: the value at the offset belongs to k.
Verified(k, off) == \E i \in 1 .. Len(log) : log[i].off = off /\ log[i].key = k

Hit(k) ==
    LET fp == CompactFingerprint(hash[k])
    IN  \E j \in Candidates(fp) : Verified(k, log[Bucket(fp, j)].off)

-----------------------------------------------------------------------------
Finished ==
    /\ pc \in {"done", "refused", "full"}
    /\ UNCHANGED vars

Next ==
    \/ \E k \in Key : Write(k)
    \/ BuildIndex \/ RefuseDuplicates
    \/ PlaceInEmpty \/ Displace \/ PassOver \/ Regrow
    \/ Finished

Spec == Init /\ [][Next]_vars

\* One thread runs build_index to its end.
Inserts == PlaceInEmpty \/ Displace \/ PassOver \/ Regrow

FairSpec == Spec /\ WF_vars(Inserts)

-----------------------------------------------------------------------------
Present(k) == \E i \in 1 .. Len(log) : log[i].key = k

\* A finished table answers a lookup with a hit exactly for the keys that were
\* written, wherever displacement has moved their buckets, and around the end of
\* the table.
FindsWhatWasWritten == pc = "done" => \A k \in Key : Hit(k) <=> Present(k)

\* p lies in the run that starts at h and ends before e, around the table's end.
InRun(h, e, p) == IF h <= e THEN h <= p /\ p < e ELSE h <= p \/ p < e

\* Between the home of a record and the bucket that holds it, or in which the
\* record in hand is about to be tried, no bucket is empty: a lookup may stop at
\* the first empty one.
NoGaps ==
    /\ \A q \in 0 .. nb - 1 : table[q] # 0 =>
          \A p \in 0 .. nb - 1 : InRun(HomePosition(Fp(table[q]), nb), q, p) => table[p] # 0
    /\ pc = "insert" =>
          \A p \in 0 .. nb - 1 : InRun(HomePosition(Fp(cur), nb), pos, p) => table[p] # 0

\* Every record that was inserted is in the table or in hand.
NoneLost ==
    /\ pc = "insert" => \A i \in 1 .. taken : i = cur \/ \E p \in 0 .. nb - 1 : table[p] = i
    /\ pc = "done" => \A i \in 1 .. Len(log) : \E p \in 0 .. nb - 1 : table[p] = i

\* More records crowd into a range of fingerprints than a table of any length can
\* take within MAX_PSL of their homes.
Crowded ==
    \E lo \in 1 .. MaxHash : \E hi \in lo .. MaxHash :
        Cardinality(UNION {Having(fp) : fp \in lo .. hi}) > hi - lo + 1 + MaxPsl

\* Unless the fingerprints are crowded, growing the table ends with every record
\* in it.
BuildEnds == (pc = "insert" /\ ~Crowded) ~> (pc = "done")

\* What the comment at check_no_pathological_duplicates expects of the check: an
\* input that passes it does not make build loop forever.
BuildAlwaysEnds == (pc = "insert") ~> (pc = "done")
=============================================================================
