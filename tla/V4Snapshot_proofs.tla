-------------------------- MODULE V4Snapshot_proofs --------------------------
(***************************************************************************)
(* The byte layout of a V4 snapshot, for every set of keys and lengths,     *)
(* number of partitions and of records, and every crash and restart.        *)
(***************************************************************************)
EXTENDS V4Snapshot, TLAPS, FiniteSetTheorems

\* Every value and its header are shorter than a u32 can tell (MCV4SnapshotLong.cfg
\* shows what becomes of one that is not).
ShortValues == \A n \in Lengths : VALUE_HEADER_SIZE + n < Word

ValueType == [key : Key, len : Lengths]
SpillType == [exists : BOOLEAN, count : Nat, records : Seq(Bucket)]
FileType ==
    [step : {"new", "open", "over"}, values : Seq(ValueType), starts : Seq(Nat), size : Nat,
     byte_offset : Nat, spill : SpillType]

\* What OffsetsNameValues says of one partition.
Placed(f) ==
    /\ f.byte_offset = f.size /\ f.size % VALUE_ALIGNMENT = 0
    /\ Len(f.starts) = Len(f.values) /\ Len(f.spill.records) <= Len(f.starts)
    /\ \A i \in 1 .. Len(f.spill.records) : f.starts[i] = f.spill.records[i].off * VALUE_ALIGNMENT
    /\ \A i \in 1 .. Len(f.starts) :
          /\ f.starts[i] + VALUE_HEADER_SIZE + f.values[i].len <= f.size
          /\ \A j \in 1 .. Len(f.starts) :
                i < j => f.starts[i] + VALUE_HEADER_SIZE + f.values[i].len <= f.starts[j]

\* SnapshotWriter has no index.done.
UnmarkedWriter == driver = "writer" => pc # "mark"

\* A partition that takes values has noted each of those it took.
FilesInv ==
    /\ part \in [Partition -> FileType]
    /\ \A p \in Partition : Placed(part[p])
    /\ pc = "new" => \A p \in Partition : part[p].step = "new"
    /\ pc = "scatter" => \A p \in Partition :
          part[p].step = "open" => Len(part[p].spill.records) = Len(part[p].starts)
    /\ UnmarkedWriter

-----------------------------------------------------------------------------
(* Sizes                                                                    *)

\* Values are padded to a multiple of 64.
LEMMA Padding ==
    ASSUME NEW n \in Nat
    PROVE  aligned_size(n) \in Nat /\ aligned_size(n) >= n /\ aligned_size(n) % VALUE_ALIGNMENT = 0
BY DEF aligned_size, VALUE_ALIGNMENT

\* Multiples of 64 add up, and are what an offset in units of 64 stands for.
LEMMA Multiples ==
    ASSUME NEW a \in Nat, NEW b \in Nat, a % VALUE_ALIGNMENT = 0, b % VALUE_ALIGNMENT = 0
    PROVE  /\ (a + b) % VALUE_ALIGNMENT = 0
           /\ a \div VALUE_ALIGNMENT \in Nat /\ (a \div VALUE_ALIGNMENT) * VALUE_ALIGNMENT = a
BY DEF VALUE_ALIGNMENT

\* The bucket of a record.
LEMMA BucketType ==
    ASSUME NEW f \in FileType, NEW k \in Key, f.byte_offset % VALUE_ALIGNMENT = 0
    PROVE  BucketFor(f, k) \in Bucket /\ BucketFor(f, k).off * VALUE_ALIGNMENT = f.byte_offset
<1>1. f.byte_offset \in Nat
  BY DEF FileType
<1>2. Hash[k] \in [lo : Nat, hi : Nat]
  BY SnapshotAssumption
<1>3. compact_fingerprint(fingerprint(k)) \in Nat
  BY <1>2 DEF compact_fingerprint, fingerprint
<1> QED
  BY <1>1, <1>3, Multiples DEF BucketFor, Bucket

-----------------------------------------------------------------------------
(* data.bin and spill.bin                                                   *)

\* One value more.
LEMMA OneMore ==
    ASSUME ShortValues, NEW f \in FileType, Placed(f), NEW k \in Key, NEW n \in Lengths
    PROVE  /\ Advanced(f, k, n) \in FileType /\ Placed(Advanced(f, k, n))
           /\ Advanced(f, k, n).step = f.step /\ Advanced(f, k, n).spill = f.spill
           /\ Advanced(f, k, n).starts = Append(f.starts, f.size)
<1> DEFINE v == [key |-> k, len |-> n]
           padded == aligned_size(VALUE_HEADER_SIZE + n)
           g == Advanced(f, k, n)
<1>1. /\ n \in Nat /\ VALUE_HEADER_SIZE + n \in Nat
      /\ U32(n) = n /\ U32(VALUE_HEADER_SIZE + U32(n)) = VALUE_HEADER_SIZE + n
  BY SnapshotAssumption DEF ShortValues, U32, VALUE_HEADER_SIZE
<1>2. padded \in Nat /\ padded >= VALUE_HEADER_SIZE + n /\ padded % VALUE_ALIGNMENT = 0
  BY <1>1, Padding
<1>3. g = [f EXCEPT !.values = Append(@, v), !.starts = Append(@, f.size),
                    !.size = @ + VALUE_HEADER_SIZE + n + (padded - (VALUE_HEADER_SIZE + n)),
                    !.byte_offset = @ + padded]
  BY <1>1, Zenon DEF Advanced
<1> HIDE DEF padded, g
<1>4. /\ f.size \in Nat /\ f.byte_offset = f.size /\ f.size % VALUE_ALIGNMENT = 0
      /\ f.values \in Seq(ValueType) /\ f.starts \in Seq(Nat) /\ Len(f.starts) = Len(f.values)
  BY DEF FileType, Placed
<1>5. v \in ValueType
  BY DEF ValueType
<1> HIDE DEF v
<1>6. f.size + VALUE_HEADER_SIZE + n + (padded - (VALUE_HEADER_SIZE + n)) = f.size + padded
  <2>1. \A a, b, c, d \in Nat : a + b + c + (d - (b + c)) = a + d
    OBVIOUS
  <2>2. VALUE_HEADER_SIZE \in Nat
    BY DEF VALUE_HEADER_SIZE
  <2>3. n \in Nat /\ padded \in Nat /\ f.size \in Nat
    BY <1>1, <1>2, <1>4, Zenon
  <2> QED
    BY <2>1, <2>2, <2>3
<1>7. g = [f EXCEPT !.values = Append(@, v), !.starts = Append(@, f.size),
                    !.size = f.size + padded, !.byte_offset = f.size + padded]
  BY <1>3, <1>4, <1>6, Zenon
<1>8. g \in FileType
  <2>1. Append(f.values, v) \in Seq(ValueType) /\ Append(f.starts, f.size) \in Seq(Nat)
    BY <1>4, <1>5
  <2>2. f.size + padded \in Nat
    BY <1>2, <1>4
  <2> QED
    BY <1>7, <2>1, <2>2, Zenon DEF FileType
<1>9. /\ g.step = f.step /\ g.spill = f.spill /\ g.starts = Append(f.starts, f.size)
      /\ g.values = Append(f.values, v) /\ g.size = f.size + padded /\ g.byte_offset = f.size + padded
  BY <1>7 DEF FileType
<1>10. (f.size + padded) % VALUE_ALIGNMENT = 0
  BY <1>2, <1>4, Multiples, Zenon
<1>11. v.len = n
  BY DEF v
<1>12. Placed(g)
  <2>1. /\ g.byte_offset = g.size /\ g.size % VALUE_ALIGNMENT = 0
        /\ Len(g.starts) = Len(g.values) /\ Len(g.spill.records) <= Len(g.starts)
    BY <1>4, <1>9, <1>10 DEF Placed, FileType, SpillType
  <2>2. \A i \in 1 .. Len(f.starts) : g.starts[i] = f.starts[i] /\ g.values[i] = f.values[i]
    BY <1>4, <1>9
  <2>3. /\ Len(g.starts) = Len(f.starts) + 1 /\ g.starts[Len(f.starts) + 1] = f.size
        /\ g.values[Len(f.starts) + 1] = v
    BY <1>4, <1>9
  <2>4. /\ f.spill.records \in Seq(Bucket) /\ Len(f.spill.records) <= Len(f.starts)
        /\ \A i \in 1 .. Len(f.starts) : f.starts[i] \in Nat /\ f.values[i].len \in Nat
    <3>1. \A x \in ValueType : x.len \in Nat
      BY SnapshotAssumption, Zenon DEF ValueType
    <3>2. \A i \in 1 .. Len(f.starts) : f.starts[i] \in Nat /\ f.values[i] \in ValueType
      BY <1>4
    <3>3. f.spill.records \in Seq(Bucket)
      BY DEF FileType, SpillType
    <3> QED
      BY <3>1, <3>2, <3>3 DEF Placed
  <2>5. \A i \in 1 .. Len(g.spill.records) :
           g.starts[i] = g.spill.records[i].off * VALUE_ALIGNMENT
    BY <1>4, <1>9, <2>2, <2>4 DEF Placed
  <2>6. \A i \in 1 .. Len(f.starts) :
           f.starts[i] + VALUE_HEADER_SIZE + f.values[i].len <= f.size
    BY DEF Placed
  <2>7. f.size + VALUE_HEADER_SIZE + n <= g.size /\ f.size <= g.size
    BY <1>1, <1>2, <1>4, <1>9 DEF VALUE_HEADER_SIZE
  <2>8. ASSUME NEW i \in 1 .. Len(g.starts)
        PROVE  /\ g.starts[i] + VALUE_HEADER_SIZE + g.values[i].len <= g.size
               /\ \A j \in 1 .. Len(g.starts) :
                     i < j => g.starts[i] + VALUE_HEADER_SIZE + g.values[i].len <= g.starts[j]
    <3>1. CASE i = Len(f.starts) + 1
      BY <1>4, <1>11, <2>3, <2>7, <3>1
    <3>2. CASE i \in 1 .. Len(f.starts)
      <4>1. g.starts[i] + VALUE_HEADER_SIZE + g.values[i].len <= f.size
        BY <2>2, <2>6, <3>2
      <4>2. g.starts[i] + VALUE_HEADER_SIZE + g.values[i].len <= g.size
        <5>1. \A a, b, c \in Nat : a + VALUE_HEADER_SIZE + b <= c /\ c <= g.size =>
                 a + VALUE_HEADER_SIZE + b <= g.size
          BY <1>2, <1>4, <1>9 DEF VALUE_HEADER_SIZE
        <5>2. g.starts[i] \in Nat /\ g.values[i].len \in Nat
          BY <2>2, <2>4, <3>2, Zenon
        <5> QED
          BY <1>4, <2>7, <4>1, <5>1, <5>2
      <4>3. ASSUME NEW j \in 1 .. Len(g.starts), i < j
            PROVE  g.starts[i] + VALUE_HEADER_SIZE + g.values[i].len <= g.starts[j]
        <5>1. CASE j = Len(f.starts) + 1
          BY <2>3, <4>1, <5>1
        <5>2. CASE j \in 1 .. Len(f.starts)
          <6>1. f.starts[i] + VALUE_HEADER_SIZE + f.values[i].len <= f.starts[j]
            BY <3>2, <4>3, <5>2, Zenon DEF Placed
          <6> QED
            BY <2>2, <3>2, <5>2, <6>1, Zenon
        <5> QED
          BY <1>4, <2>3, <5>1, <5>2
      <4> QED
        BY <4>2, <4>3
    <3> QED
      BY <1>4, <2>3, <3>1, <3>2
  <2> QED
    BY <2>1, <2>5, <2>8 DEF Placed
<1> QED
  BY <1>8, <1>9, <1>12 DEF g
\* The value and its record.
LEMMA OneNoted ==
    ASSUME NEW f \in FileType, NEW b \in Bucket, Placed(f), Len(f.starts) > Len(f.spill.records),
           f.starts[Len(f.spill.records) + 1] = b.off * VALUE_ALIGNMENT
    PROVE  LET g == [f EXCEPT !.spill.records = Append(@, b)]
           IN  /\ g \in FileType /\ Placed(g) /\ g.step = f.step /\ g.starts = f.starts
               /\ Len(g.spill.records) = Len(f.spill.records) + 1
<1> DEFINE r == Append(f.spill.records, b)
           g == [f EXCEPT !.spill.records = Append(@, b)]
<1>1. f.spill \in SpillType /\ f.spill.records \in Seq(Bucket)
  BY DEF FileType, SpillType
<1>2. /\ r \in Seq(Bucket) /\ Len(r) = Len(f.spill.records) + 1 /\ r[Len(f.spill.records) + 1] = b
      /\ \A i \in 1 .. Len(f.spill.records) : r[i] = f.spill.records[i]
  BY <1>1
<1> HIDE DEF r
<1>3. [f.spill EXCEPT !.records = r] \in SpillType /\ [f.spill EXCEPT !.records = r].records = r
  BY <1>1, <1>2, Zenon DEF SpillType
<1>4. g = [f EXCEPT !.spill = [f.spill EXCEPT !.records = r]]
  BY DEF r, FileType
<1>5. g \in FileType
  BY <1>3, <1>4, Zenon DEF FileType
<1>6. /\ g.step = f.step /\ g.starts = f.starts /\ g.values = f.values /\ g.size = f.size
      /\ g.byte_offset = f.byte_offset /\ g.spill.records = r
  BY <1>3, <1>4, Zenon DEF FileType
<1> HIDE DEF g
<1>7. Len(r) <= Len(f.starts)
  BY <1>1, <1>2 DEF FileType
<1>8. \A i \in 1 .. Len(r) : f.starts[i] = r[i].off * VALUE_ALIGNMENT
  <2> SUFFICES ASSUME NEW i \in 1 .. Len(r)
               PROVE  f.starts[i] = r[i].off * VALUE_ALIGNMENT
    OBVIOUS
  <2>1. CASE i = Len(f.spill.records) + 1
    BY <1>2, <2>1
  <2>2. CASE i \in 1 .. Len(f.spill.records)
    BY <1>2, <2>2 DEF Placed
  <2>3. i = Len(f.spill.records) + 1 \/ i \in 1 .. Len(f.spill.records)
    BY <1>1, <1>2
  <2> QED
    BY <2>1, <2>2, <2>3, Zenon
<1>9. Placed(g)
  BY <1>6, <1>7, <1>8 DEF Placed
<1> QED
  BY <1>2, <1>5, <1>6, <1>9 DEF g

\* A partition without values, new or opened.
LEMMA FreshFiles ==
    /\ NewPartition \in FileType /\ Placed(NewPartition) /\ NewPartition.step = "new"
    /\ OpenPartition \in FileType /\ Placed(OpenPartition)
    /\ Len(OpenPartition.spill.records) = Len(OpenPartition.starts)
<1>1. NewSpill \in SpillType /\ NoSpill \in SpillType
  BY DEF NewSpill, NoSpill, SpillType
<1>2. NewPartition \in FileType /\ OpenPartition \in FileType
  <2>1. <<>> \in Seq(ValueType) /\ <<>> \in Seq(Nat)
    OBVIOUS
  <2>2. NewPartition \in FileType
    BY <1>1, <2>1 DEF NewPartition, FileType
  <2>3. OpenPartition = [NewPartition EXCEPT !.step = "open", !.spill = NewSpill]
    BY DEF OpenPartition
  <2> QED
    BY <1>1, <2>2, <2>3, Zenon DEF FileType
<1>3. /\ NewPartition.step = "new" /\ NewPartition.values = <<>> /\ NewPartition.starts = <<>>
      /\ NewPartition.size = 0 /\ NewPartition.byte_offset = 0
      /\ NewPartition.spill.records = <<>>
  BY DEF NewPartition, NoSpill
<1>4. /\ OpenPartition.values = <<>> /\ OpenPartition.starts = <<>>
      /\ OpenPartition.size = 0 /\ OpenPartition.byte_offset = 0
      /\ OpenPartition.spill.records = <<>>
  BY DEF NewPartition, OpenPartition, NewSpill
<1>5. ASSUME NEW f, f.values = <<>>, f.starts = <<>>, f.size = 0, f.byte_offset = 0,
             f.spill.records = <<>>
      PROVE  Placed(f)
  BY <1>5 DEF Placed, VALUE_ALIGNMENT
<1> QED
  BY <1>2, <1>3, <1>4, <1>5

\* Another step, or another header or no spill at all, moves no value.
LEMMA OtherStep ==
    ASSUME NEW f \in FileType, Placed(f), NEW s \in {"new", "open", "over"}
    PROVE  /\ [f EXCEPT !.step = s] \in FileType /\ Placed([f EXCEPT !.step = s])
           /\ [f EXCEPT !.step = s].step = s
BY Zenon DEF FileType, Placed

LEMMA NoSpillLeft ==
    ASSUME NEW f \in FileType, Placed(f)
    PROVE  /\ [f EXCEPT !.spill = NoSpill] \in FileType /\ Placed([f EXCEPT !.spill = NoSpill])
           /\ [f EXCEPT !.spill = NoSpill].step = f.step
<1>1. NoSpill \in SpillType /\ NoSpill.records = <<>>
  BY DEF NoSpill, SpillType
<1> DEFINE g == [f EXCEPT !.spill = NoSpill]
<1>2. g \in FileType
  BY <1>1, Zenon DEF FileType
<1>3. /\ g.step = f.step /\ g.starts = f.starts /\ g.values = f.values /\ g.size = f.size
      /\ g.byte_offset = f.byte_offset /\ g.spill.records = <<>>
  BY <1>1 DEF FileType
<1>4. Len(f.starts) \in Nat
  BY DEF FileType
<1> HIDE DEF g
<1>5. Placed(g)
  BY <1>3, <1>4 DEF Placed
<1> QED
  BY <1>2, <1>3, <1>5 DEF g

LEMMA CountFilledIn ==
    ASSUME NEW f \in FileType, Placed(f)
    PROVE  LET g == [f EXCEPT !.step = "over", !.spill.count = Len(f.spill.records)]
           IN  g \in FileType /\ Placed(g) /\ g.step = "over"
<1> DEFINE sp == [f.spill EXCEPT !.count = Len(f.spill.records)]
           g == [f EXCEPT !.step = "over", !.spill.count = Len(f.spill.records)]
<1>1. sp \in SpillType /\ sp.records = f.spill.records
  <2>1. f.spill \in SpillType
    BY DEF FileType
  <2> QED
    BY <2>1 DEF SpillType
<1>2. g = [f EXCEPT !.step = "over", !.spill = sp]
  BY DEF FileType
<1> HIDE DEF sp
<1>3. g \in FileType
  BY <1>1, <1>2, Zenon DEF FileType
<1>4. /\ g.step = "over" /\ g.starts = f.starts /\ g.values = f.values /\ g.size = f.size
      /\ g.byte_offset = f.byte_offset /\ g.spill.records = f.spill.records
  BY <1>1, <1>2, Zenon DEF FileType
<1> QED
  BY <1>3, <1>4 DEF Placed
-----------------------------------------------------------------------------
(* The invariant of the partitions                                          *)

\* The phases that follow the index open no partition.
LEMMA Phases ==
    ASSUME NEW phase \in {"index", "mark", "sweep", "meta"}, driver = "writer" => phase # "mark"
    PROVE  /\ PhaseAfter(phase) \in {"mark", "sweep", "meta", "done"}
           /\ driver = "writer" => PhaseAfter(phase) # "mark"
BY DEF PhaseAfter

LEMMA NextUnmarked ==
    ASSUME UnmarkedWriter, [Next]_vars
    PROVE  UnmarkedWriter'
<1> USE DEF UnmarkedWriter
<1>1. CASE NewWriter \/ NewBuilder \/ ScatterDone
  BY <1>1 DEF NewWriter, NewBuilder, ScatterDone, AfterNew
<1>2. ASSUME NEW p \in Partition, WriteStep(p) PROVE UnmarkedWriter'
  BY <1>2 DEF WriteStep, Appender, FinishData, Write
<1>3. CASE BuildIndexes \/ BuildFails \/ SkipBuild \/ RemoveSpill
  BY <1>3 DEF BuildIndexes, BuildFails, SkipBuild, RemoveSpill
<1>4. CASE WriteTable \/ MarkIndexDone \/ SpillsRemoved \/ WriteMeta
  <2>1. driver' = driver
    BY <1>4 DEF WriteTable, MarkIndexDone, SpillsRemoved, WriteMeta
  <2>2. pc' = pc \/ \E phase \in {"index", "mark", "sweep", "meta"} :
                        pc' = PhaseAfter(phase) /\ (driver = "writer" => phase # "mark")
    BY <1>4 DEF WriteTable, MarkIndexDone, SpillsRemoved, WriteMeta
  <2> QED
    BY <2>1, <2>2, Phases
<1>5. CASE Crash \/ Restart \/ UNCHANGED vars
  BY <1>5 DEF Crash, Restart, vars
<1> QED
  BY <1>1, <1>2, <1>3, <1>4, <1>5 DEF Next, FinishStep, Finished

LEMMA InitFiles == Init => FilesInv
BY FreshFiles DEF Init, FilesInv, UnmarkedWriter

LEMMA WriteFiles ==
    ASSUME ShortValues, FilesInv, NEW p \in Partition, NEW k \in KeysOf(p), NEW n \in Lengths,
           Write(p, k, n), UnmarkedWriter'
    PROVE  FilesInv'
<1> DEFINE f == part[p]
           b == BucketFor(f, k)
           g == Advanced(f, k, n)
           h == [g EXCEPT !.spill.records = Append(@, b)]
<1>1. /\ k \in Key /\ f \in FileType /\ Placed(f) /\ part \in [Partition -> FileType]
      /\ Len(f.spill.records) = Len(f.starts) /\ pc = "scatter"
  BY DEF FilesInv, Write, KeysOf
<1>2. f.starts \in Seq(Nat) /\ f.size \in Nat /\ f.byte_offset = f.size
      /\ f.size % VALUE_ALIGNMENT = 0
  BY <1>1 DEF FileType, Placed
<1>3. b \in Bucket /\ b.off * VALUE_ALIGNMENT = f.size
  BY <1>1, <1>2, BucketType
<1>4. /\ g \in FileType /\ Placed(g) /\ g.step = f.step /\ g.spill = f.spill
      /\ g.starts = Append(f.starts, f.size)
  BY <1>1, OneMore
<1>5. \/ part' = [part EXCEPT ![p] = h] /\ pc' = pc
      \/ part' = [part EXCEPT ![p] = g] /\ pc' = "dead"
  BY DEF Write
<1> HIDE DEF f, b, g
<1>6. /\ Len(g.starts) = Len(f.starts) + 1 /\ Len(f.starts) \in Nat
      /\ g.starts[Len(f.starts) + 1] = f.size
  BY <1>2, <1>4
<1>7. /\ h \in FileType /\ Placed(h) /\ h.step = g.step /\ h.starts = g.starts
      /\ Len(h.spill.records) = Len(g.spill.records) + 1
  <2>1. Len(g.spill.records) = Len(f.starts)
    BY <1>1, <1>4
  <2>2. Len(g.starts) > Len(g.spill.records)
        /\ g.starts[Len(g.spill.records) + 1] = b.off * VALUE_ALIGNMENT
    BY <1>3, <1>6, <2>1
  <2> QED
    BY <1>3, <1>4, <2>2, OneNoted, Zenon
<1>8. Len(h.spill.records) = Len(h.starts)
  BY <1>1, <1>4, <1>6, <1>7
<1> HIDE DEF h
<1>9. CASE part' = [part EXCEPT ![p] = h] /\ pc' = pc
  <2>1. part' \in [Partition -> FileType]
    BY <1>1, <1>7, <1>9, Zenon
  <2>2. \A q \in Partition : part'[q] = IF q = p THEN h ELSE part[q]
    BY <1>1, <1>9
  <2> QED
    BY <1>1, <1>7, <1>8, <1>9, <2>1, <2>2 DEF FilesInv
<1>10. CASE part' = [part EXCEPT ![p] = g] /\ pc' = "dead"
  BY <1>1, <1>4, <1>10 DEF FilesInv
<1> QED
  BY <1>5, <1>9, <1>10

LEMMA NextFiles ==
    ASSUME ShortValues, FilesInv, [Next]_vars
    PROVE  FilesInv'
<1>0. UnmarkedWriter'
  BY NextUnmarked DEF FilesInv
<1>1. CASE part' = part /\ (pc' = pc \/ pc' \notin {"new", "scatter"})
  BY <1>0, <1>1 DEF FilesInv
<1>2. CASE NewWriter
  BY <1>0, <1>2, FreshFiles DEF NewWriter, FilesInv, AfterNew
<1>3. CASE NewBuilder
  BY <1>0, <1>3 DEF NewBuilder, FilesInv, AfterNew, files
<1>4. ASSUME NEW p \in Partition, Appender(p) PROVE FilesInv'
  BY <1>0, <1>4, FreshFiles DEF Appender, FilesInv
<1>5. ASSUME NEW p \in Partition, FinishData(p) PROVE FilesInv'
  <2> DEFINE g == [part[p] EXCEPT !.step = "over", !.spill.count = Len(part[p].spill.records)]
  <2>1. part' = [part EXCEPT ![p] = g] /\ pc' = pc /\ pc = "scatter"
    BY <1>5, Zenon DEF FinishData, FilesInv
  <2>2. g \in FileType /\ Placed(g) /\ g.step = "over"
    BY CountFilledIn, Zenon DEF FilesInv
  <2> HIDE DEF g
  <2> QED
    BY <1>0, <2>1, <2>2 DEF FilesInv
<1>6. ASSUME NEW p \in Partition, NEW k \in KeysOf(p), NEW n \in Lengths, Write(p, k, n)
      PROVE  FilesInv'
  BY <1>0, <1>6, WriteFiles
<1>7. CASE RemoveSpill
  <2> DEFINE q == Min(Spilled)
             g == [part[q] EXCEPT !.spill = NoSpill]
  <2>1. part' = [part EXCEPT ![q] = g] /\ pc' = "sweep"
    BY <1>7 DEF RemoveSpill, FilesInv
  <2>2. q \in Partition => g \in FileType /\ Placed(g)
    BY NoSpillLeft DEF FilesInv
  <2> HIDE DEF g, q
  <2> QED
    BY <1>0, <2>1, <2>2, Zenon DEF FilesInv
<1>8. CASE Restart
  <2>1. \A p \in Partition :
           /\ [part[p] EXCEPT !.step = "new"] \in FileType /\ Placed([part[p] EXCEPT !.step = "new"])
           /\ [part[p] EXCEPT !.step = "new"].step = "new"
    BY OtherStep, Zenon DEF FilesInv
  <2>2. CASE scattered
    BY <1>0, <1>8, <2>2 DEF Restart, FilesInv
  <2>3. CASE ~scattered
    BY <1>0, <1>8, <2>1, <2>3, Zenon DEF Restart, FilesInv
  <2> QED
    BY <2>2, <2>3
<1>9. CASE ScatterDone \/ Crash
  BY <1>1, <1>9 DEF ScatterDone, Crash
<1>10. CASE BuildIndexes \/ BuildFails \/ SkipBuild \/ SpillsRemoved
  BY <1>1, <1>10, Phases DEF BuildIndexes, BuildFails, SkipBuild, SpillsRemoved, files, UnmarkedWriter
<1>11. CASE WriteTable \/ MarkIndexDone \/ WriteMeta
  <2>1. part' = part
    BY <1>11 DEF WriteTable, MarkIndexDone, WriteMeta
  <2>2. pc' = pc \/ \E phase \in {"index", "mark", "meta"} :
                        pc' = PhaseAfter(phase) /\ (driver = "writer" => phase # "mark")
    BY <1>11 DEF WriteTable, MarkIndexDone, WriteMeta, FilesInv, UnmarkedWriter
  <2> QED
    BY <1>1, <2>1, <2>2, Phases
<1>12. CASE UNCHANGED vars
  BY <1>1, <1>12 DEF vars, files
<1> QED
  BY <1>2, <1>3, <1>4, <1>5, <1>6, <1>7, <1>8, <1>9, <1>10, <1>11, <1>12
     DEF Next, WriteStep, FinishStep, Finished

\* Whatever is written, by one writer or by an appender for every partition, and
\* however often the load dies and is taken up again: AlignedWriter's own count is
\* the length of data.bin, and spill.bin holds the place of every value.
THEOREM OffsetsAlwaysNameValues ==
    ASSUME ShortValues
    PROVE  Spec => []OffsetsNameValues
<1>1. Init => FilesInv
  BY InitFiles
<1>2. FilesInv /\ [Next]_vars => FilesInv'
  BY NextFiles
<1>3. FilesInv => OffsetsNameValues
  <2> SUFFICES ASSUME FilesInv PROVE OffsetsNameValues
    OBVIOUS
  <2>1. \A p \in Partition :
           /\ Placed(part[p])
           /\ DOMAIN part[p].starts = 1 .. Len(part[p].starts)
           /\ DOMAIN part[p].spill.records = 1 .. Len(part[p].spill.records)
    BY DEF FilesInv, FileType, SpillType
  <2> QED
    BY <2>1, Zenon DEF OffsetsNameValues, Placed
<1> QED
  BY <1>1, <1>2, <1>3, PTL DEF Spec
-----------------------------------------------------------------------------
(* index.all                                                                *)

\* The header of a spill counts no more records than there are.
Counted(f) == f.spill.count <= Len(f.spill.records)

TypedFiles == part \in [Partition -> FileType] /\ \A p \in Partition : Counted(part[p])

\* The files keep their types, even with a value too long for a u32.
LEMMA AdvancedType ==
    ASSUME NEW f \in FileType, NEW k \in Key, NEW n \in Lengths
    PROVE  Advanced(f, k, n) \in FileType /\ Advanced(f, k, n).spill = f.spill
<1> DEFINE v == [key |-> k, len |-> n]
           disk == U32(VALUE_HEADER_SIZE + U32(n))
           padded == aligned_size(disk)
<1>1. \A m \in Nat : U32(m) \in Nat
  <2>1. Word \in Nat /\ Word > 0
    BY SnapshotAssumption
  <2>2. \A m \in Nat : m % Word \in Nat
    BY <2>1
  <2> QED
    BY <2>2 DEF U32
<1>2. n \in Nat /\ VALUE_HEADER_SIZE \in Nat
  BY SnapshotAssumption DEF VALUE_HEADER_SIZE
<1>3. disk \in Nat
  BY <1>1, <1>2
<1>4. padded \in Nat /\ padded >= disk
  BY <1>3, Padding
<1>5. Advanced(f, k, n) =
        [f EXCEPT !.values = Append(@, v), !.starts = Append(@, f.size),
                  !.size = @ + VALUE_HEADER_SIZE + n + (padded - disk), !.byte_offset = @ + padded]
  BY DEF Advanced
<1>6. v \in ValueType
  BY DEF ValueType
<1> HIDE DEF disk, padded, v
<1>7. /\ f.size \in Nat /\ f.byte_offset \in Nat
      /\ f.values \in Seq(ValueType) /\ f.starts \in Seq(Nat)
  BY DEF FileType
<1>8. /\ Append(f.values, v) \in Seq(ValueType) /\ Append(f.starts, f.size) \in Seq(Nat)
      /\ f.size + VALUE_HEADER_SIZE + n + (padded - disk) \in Nat /\ f.byte_offset + padded \in Nat
  <2>1. \A a, b, c, d, e \in Nat : d >= e => a + b + c + (d - e) \in Nat
    OBVIOUS
  <2>2. \A a, b \in Nat : a + b \in Nat
    OBVIOUS
  <2>3. Append(f.values, v) \in Seq(ValueType) /\ Append(f.starts, f.size) \in Seq(Nat)
    BY <1>6, <1>7
  <2>4. f.size \in Nat /\ f.byte_offset \in Nat /\ n \in Nat
    BY <1>2, <1>7
  <2> QED
    BY <1>2, <1>3, <1>4, <2>1, <2>2, <2>3, <2>4, Zenon
<1>9. Advanced(f, k, n) \in FileType
  BY <1>5, <1>8, Zenon DEF FileType
<1> QED
  BY <1>5, <1>9 DEF FileType

LEMMA NotedType ==
    ASSUME NEW f \in FileType, NEW b \in Bucket, Counted(f)
    PROVE  LET g == [f EXCEPT !.spill.records = Append(@, b)]
           IN  g \in FileType /\ Counted(g)
<1> DEFINE g == [f EXCEPT !.spill.records = Append(@, b)]
           sp == [f.spill EXCEPT !.records = Append(@, b)]
<1>1. f.spill \in SpillType /\ f.spill.records \in Seq(Bucket)
  BY DEF FileType, SpillType
<1>2. sp \in SpillType
  <2>1. Append(f.spill.records, b) \in Seq(Bucket)
    BY <1>1
  <2> QED
    BY <1>1, <2>1, Zenon DEF SpillType
<1>3. g = [f EXCEPT !.spill = sp]
  BY DEF FileType
<1>4. sp.count = f.spill.count /\ sp.records = Append(f.spill.records, b) /\ f.spill.count \in Nat
  BY <1>1 DEF SpillType
<1> HIDE DEF sp
<1>5. g \in FileType
  BY <1>2, <1>3, Zenon DEF FileType
<1>6. g.spill = sp
  BY <1>3 DEF FileType
<1> HIDE DEF g
<1>7. Counted(g)
  BY <1>1, <1>4, <1>6 DEF Counted
<1> QED
  BY <1>5, <1>7 DEF g

LEMMA FreshCounts == Counted(NewPartition) /\ Counted(OpenPartition)
BY DEF Counted, NewPartition, OpenPartition, NoSpill, NewSpill

LEMMA InitTyped == Init => TypedFiles
BY FreshFiles, FreshCounts DEF Init, TypedFiles

LEMMA NextTyped ==
    ASSUME TypedFiles, [Next]_vars
    PROVE  TypedFiles'
<1> USE DEF TypedFiles
<1>1. CASE part' = part
  BY <1>1
<1>2. CASE NewWriter
  BY <1>2, FreshFiles, FreshCounts DEF NewWriter
<1>3. ASSUME NEW p \in Partition, Appender(p) PROVE TypedFiles'
  BY <1>3, FreshFiles, FreshCounts DEF Appender
<1>4. ASSUME NEW p \in Partition, FinishData(p) PROVE TypedFiles'
  <2> DEFINE sp == [part[p].spill EXCEPT !.count = Len(part[p].spill.records)]
             g == [part[p] EXCEPT !.step = "over", !.spill = sp]
  <2>1. part' = [part EXCEPT ![p] = g]
    BY <1>4, Zenon DEF FinishData, FileType
  <2>2. part[p] \in FileType /\ part[p].spill \in SpillType
    BY DEF FileType
  <2>3. sp \in SpillType
    BY <2>2 DEF SpillType
  <2> HIDE DEF sp
  <2>4. g \in FileType
    BY <2>2, <2>3, Zenon DEF FileType
  <2>5. g.spill = sp
    BY <2>2 DEF FileType
  <2>6. sp.count = Len(sp.records) /\ Len(sp.records) \in Nat
    BY <2>2 DEF sp, SpillType
  <2> HIDE DEF g
  <2>7. Counted(g)
    BY <2>5, <2>6 DEF Counted
  <2> QED
    BY <2>1, <2>4, <2>7
<1>5. ASSUME NEW p \in Partition, NEW k \in KeysOf(p), NEW n \in Lengths, Write(p, k, n)
      PROVE  TypedFiles'
  <2> DEFINE b == BucketFor(part[p], k)
             g == Advanced(part[p], k, n)
             h == [g EXCEPT !.spill.records = Append(@, b)]
  <2>1. part' = [part EXCEPT ![p] = h] \/ part' = [part EXCEPT ![p] = g]
    BY <1>5 DEF Write
  <2>2. g \in FileType /\ Counted(g)
    BY AdvancedType DEF KeysOf, Counted
  <2>3. part[p].byte_offset \in Nat /\ Hash[k] \in [lo : Nat, hi : Nat]
    BY SnapshotAssumption DEF KeysOf, FileType
  <2>4. b \in Bucket
    BY <2>3 DEF BucketFor, Bucket, compact_fingerprint, fingerprint, VALUE_ALIGNMENT
  <2> HIDE DEF b, g
  <2>5. h \in FileType /\ Counted(h)
    BY <2>2, <2>4, NotedType, Zenon
  <2> HIDE DEF h
  <2> QED
    BY <2>1, <2>2, <2>5
<1>6. CASE RemoveSpill
  <2>1. NoSpill \in SpillType
    BY DEF NoSpill, SpillType
  <2>2. \A f \in FileType : [f EXCEPT !.spill = NoSpill] \in FileType
    BY <2>1, Zenon DEF FileType
  <2>3. \A f \in FileType : Counted([f EXCEPT !.spill = NoSpill])
    <3>1. NoSpill.count <= Len(NoSpill.records)
      BY DEF NoSpill
    <3> QED
      BY <3>1 DEF Counted, FileType
  <2> DEFINE q == Min(Spilled)
  <2>4. part' = [part EXCEPT ![q] = [part[q] EXCEPT !.spill = NoSpill]]
    BY <1>6 DEF RemoveSpill
  <2> HIDE DEF q
  <2> QED
    BY <2>2, <2>3, <2>4, Zenon
<1>7. CASE Restart
  <2>1. \A f \in FileType : /\ [f EXCEPT !.step = "new"] \in FileType
                            /\ Counted(f) => Counted([f EXCEPT !.step = "new"])
    BY DEF FileType, Counted
  <2> QED
    BY <1>7, <2>1 DEF Restart
<1>8. CASE NewBuilder \/ ScatterDone \/ BuildIndexes \/ BuildFails \/ SkipBuild \/ WriteTable
  BY <1>1, <1>8 DEF NewBuilder, ScatterDone, BuildIndexes, BuildFails, SkipBuild, WriteTable, files
<1>9. CASE MarkIndexDone \/ SpillsRemoved \/ WriteMeta \/ Crash \/ UNCHANGED vars
  BY <1>1, <1>9 DEF MarkIndexDone, SpillsRemoved, WriteMeta, Crash, vars, files
<1> QED
  BY <1>2, <1>3, <1>4, <1>5, <1>6, <1>7, <1>8, <1>9 DEF Next, WriteStep, FinishStep, Finished
Table == UNION {[0 .. n - 1 -> Bucket] : n \in Nat}
IndexType == [exists : BOOLEAN, starts : Seq(Nat), tables : Seq(Table), size : Nat]

\* What TablesApart says of index.all, and what the next table needs: the file ends
\* at a multiple of 2 MiB as long as one is missing.
Apart(x) ==
    /\ Len(x.tables) = Len(x.starts)
    /\ \A i \in 1 .. Len(x.starts) :
          /\ x.starts[i] % INDEX_ALIGNMENT = 0
          /\ x.starts[i] + BucketSize * n_buckets(x.tables[i]) <= x.size
          /\ \A j \in 1 .. Len(x.starts) :
                i < j => x.starts[i] + BucketSize * n_buckets(x.tables[i]) <= x.starts[j]

IndexInv ==
    /\ TypedFiles /\ UnmarkedWriter
    /\ tables \in [Partition -> Table]
    /\ index \in IndexType /\ Apart(index)
    /\ pc = "index" => /\ info.offsets \in Seq(Nat) /\ Len(info.offsets) < NPartitions
                       /\ index.size % INDEX_ALIGNMENT = 0

\* A table has a number of buckets.
LEMMA BucketsCount ==
    ASSUME NEW t \in Table
    PROVE  n_buckets(t) \in Nat
<1>1. PICK n \in Nat : t \in [0 .. n - 1 -> Bucket]
  BY DEF Table
<1>2. IsFiniteSet(0 .. n - 1)
  BY FS_Interval
<1> QED
  BY <1>1, <1>2, FS_CardinalityType DEF n_buckets

\* index::build returns a table.
LEMMA BuiltIsTable ==
    ASSUME TypedFiles, NEW p \in Partition, NEW t \in BuiltTables(Entries(p))
    PROVE  t \in Table
<1> DEFINE e == Entries(p)
           n == bucket_count(Len(e))
<1>1. /\ part[p].spill.records \in Seq(Bucket) /\ part[p].spill.count \in Nat
      /\ part[p].spill.count <= Len(part[p].spill.records)
  BY DEF TypedFiles, FileType, SpillType, Counted
<1>2. e \in Seq(Bucket)
  BY <1>1 DEF Entries
<1>3. n \in Nat
  BY <1>2 DEF bucket_count
<1>4. PICK at \in Placements(e, n) :
         t = [b \in 0 .. n - 1 |-> IF \E i \in DOMAIN e : at[i] = b
                                  THEN e[CHOOSE i \in DOMAIN e : at[i] = b] ELSE Empty]
  BY Zenon DEF BuiltTables
<1> HIDE DEF e, n
<1>5. ASSUME NEW b \in 0 .. n - 1 PROVE t[b] \in Bucket
  <2>1. CASE \E i \in DOMAIN e : at[i] = b
    <3> DEFINE c == CHOOSE i \in DOMAIN e : at[i] = b
    <3>1. c \in DOMAIN e
      BY <2>1, Zenon
    <3>2. t[b] = e[c]
      BY <1>4, <2>1, Zenon
    <3> HIDE DEF c
    <3> QED
      BY <1>2, <3>1, <3>2
  <2>2. CASE ~ \E i \in DOMAIN e : at[i] = b
    <3>1. t[b] = Empty
      BY <1>4, <2>2, Zenon
    <3> QED
      BY <3>1 DEF Empty, Bucket
  <2> QED
    BY <2>1, <2>2
<1>6. t \in [0 .. n - 1 -> Bucket]
  BY <1>4, <1>5, Zenon
<1> QED
  BY <1>3, <1>6, Zenon DEF Table
\* Tables are padded to a multiple of 2 MiB.
LEMMA IndexPadding ==
    ASSUME NEW n \in Nat
    PROVE  /\ IndexAligned(n) \in Nat /\ IndexAligned(n) >= n
           /\ IndexAligned(n) % INDEX_ALIGNMENT = 0
BY DEF IndexAligned, INDEX_ALIGNMENT

\* One table more, at the end of a file that ends at a multiple of 2 MiB.
LEMMA OneTable ==
    ASSUME NEW x \in IndexType, Apart(x), x.size % INDEX_ALIGNMENT = 0, NEW t \in Table,
           NEW size \in Nat, size >= x.size + BucketSize * n_buckets(t)
    PROVE  LET y == [x EXCEPT !.starts = Append(@, x.size), !.tables = Append(@, t), !.size = size]
           IN  y \in IndexType /\ Apart(y) /\ y.size = size
<1> DEFINE y == [x EXCEPT !.starts = Append(@, x.size), !.tables = Append(@, t), !.size = size]
           End(z, i) == z.starts[i] + BucketSize * n_buckets(z.tables[i])
           l == Len(x.starts)
<1>1. /\ x.size \in Nat /\ x.starts \in Seq(Nat) /\ x.tables \in Seq(Table)
      /\ Len(x.tables) = l /\ l \in Nat
  BY DEF IndexType, Apart
<1>2. Append(x.starts, x.size) \in Seq(Nat) /\ Append(x.tables, t) \in Seq(Table)
  BY <1>1
<1>3. y \in IndexType
  BY <1>2, Zenon DEF IndexType
<1>4. y.starts = Append(x.starts, x.size) /\ y.tables = Append(x.tables, t) /\ y.size = size
  BY DEF IndexType
<1> HIDE DEF y
<1>5. /\ Len(y.starts) = l + 1 /\ Len(y.tables) = l + 1
      /\ y.starts[l + 1] = x.size /\ y.tables[l + 1] = t
      /\ \A i \in 1 .. l : y.starts[i] = x.starts[i] /\ y.tables[i] = x.tables[i]
  BY <1>1, <1>4
<1>6. n_buckets(t) \in Nat /\ \A i \in 1 .. l : n_buckets(x.tables[i]) \in Nat /\ x.starts[i] \in Nat
  <2>1. \A i \in 1 .. l : x.tables[i] \in Table /\ x.starts[i] \in Nat
    BY <1>1
  <2> QED
    BY <2>1, BucketsCount, Zenon
<1>7. /\ End(y, l + 1) = x.size + BucketSize * n_buckets(t)
      /\ \A i \in 1 .. l : End(y, i) = End(x, i)
  BY <1>5
<1>8. \A i \in 1 .. l : End(x, i) <= x.size /\ End(x, i) \in Nat
  <2>1. \A i \in 1 .. l : End(x, i) <= x.size
    BY Zenon DEF Apart
  <2>2. \A a, b \in Nat : a + BucketSize * b \in Nat
    BY DEF BucketSize
  <2> QED
    BY <1>6, <2>1, <2>2, Zenon
<1>9. x.size <= size
  BY <1>1, <1>6 DEF BucketSize
<1> HIDE DEF End
<1>10. ASSUME NEW i \in 1 .. l + 1
       PROVE  /\ y.starts[i] % INDEX_ALIGNMENT = 0 /\ End(y, i) <= size
              /\ \A j \in 1 .. l + 1 : i < j => End(y, i) <= y.starts[j]
  <2>1. CASE i = l + 1
    BY <1>1, <1>5, <1>7, <2>1
  <2>2. CASE i \in 1 .. l
    <3>1. y.starts[i] % INDEX_ALIGNMENT = 0
      BY <1>5, <2>2 DEF Apart
    <3>2. End(y, i) <= x.size /\ End(y, i) \in Nat
      BY <1>7, <1>8, <2>2
    <3>3. End(y, i) <= size
      BY <1>1, <1>9, <3>2
    <3>4. ASSUME NEW j \in 1 .. l + 1, i < j PROVE End(y, i) <= y.starts[j]
      <4>1. CASE j = l + 1
        BY <1>5, <3>2, <4>1
      <4>2. CASE j \in 1 .. l
        <5>1. End(x, i) <= x.starts[j]
          BY <2>2, <3>4, <4>2, Zenon DEF Apart, End
        <5> QED
          BY <1>5, <1>7, <2>2, <4>2, <5>1, Zenon
      <4> QED
        BY <1>1, <4>1, <4>2
    <3> QED
      BY <3>1, <3>3, <3>4
  <2> QED
    BY <1>1, <2>1, <2>2
<1>11. Apart(y)
  BY <1>4, <1>5, <1>10, Zenon DEF Apart, End
<1> QED
  BY <1>3, <1>4, <1>11 DEF y

LEMMA EmptyIsTable == EmptyTable \in Table
<1>1. 0 .. 0 - 1 = {} /\ 0 \in Nat
  OBVIOUS
<1>2. EmptyTable \in [{} -> Bucket]
  BY Zenon DEF EmptyTable
<1> QED
  BY <1>1, <1>2 DEF Table

\* An index.all without tables.
LEMMA NoIndexApart ==
    ASSUME NEW b \in BOOLEAN, NEW x, x = [exists |-> b, starts |-> <<>>, tables |-> <<>>, size |-> 0]
    PROVE  x \in IndexType /\ Apart(x) /\ x.size = 0
<1>1. <<>> \in Seq(Nat) /\ <<>> \in Seq(Table)
  OBVIOUS
<1>2. x \in IndexType
  BY <1>1 DEF IndexType
<1>3. Apart(x) /\ x.size = 0
  BY DEF Apart
<1> QED
  BY <1>2, <1>3

LEMMA InitIndex == Init => IndexInv
<1> SUFFICES ASSUME Init PROVE IndexInv
  OBVIOUS
<1>1. tables \in [Partition -> Table]
  BY EmptyIsTable DEF Init, NoTables
<1>2. index \in IndexType /\ Apart(index)
  BY NoIndexApart, Zenon DEF Init, NoIndex
<1> QED
  BY <1>1, <1>2, InitTyped DEF IndexInv, Init, UnmarkedWriter
LEMMA TableIndex ==
    ASSUME IndexInv, WriteTable, TypedFiles', UnmarkedWriter'
    PROVE  IndexInv'
<1> DEFINE i == Len(info.offsets)
           t == tables[i]
           end == index.size + BucketSize * n_buckets(t)
           size == IF i + 1 < NPartitions THEN IndexAligned(end) ELSE end
<1>1. /\ pc = "index" /\ tables' = tables
      /\ info' = [offsets |-> Append(info.offsets, index.size),
                  n_buckets |-> Append(info.n_buckets, n_buckets(t))]
      /\ index' = [index EXCEPT !.starts = Append(@, index.size), !.tables = Append(@, t), !.size = size]
      /\ pc' = IF i + 1 < NPartitions THEN "index" ELSE PhaseAfter("index")
  BY Zenon DEF WriteTable
<1>2. /\ tables \in [Partition -> Table] /\ index \in IndexType /\ Apart(index)
      /\ info.offsets \in Seq(Nat) /\ i < NPartitions /\ index.size % INDEX_ALIGNMENT = 0
      /\ index.size \in Nat /\ i \in Nat /\ NPartitions \in Nat
  <2>1. /\ tables \in [Partition -> Table] /\ index \in IndexType /\ Apart(index)
        /\ info.offsets \in Seq(Nat) /\ i < NPartitions /\ index.size % INDEX_ALIGNMENT = 0
    BY <1>1, Zenon DEF IndexInv
  <2> QED
    BY <2>1, SnapshotAssumption DEF IndexType
<1>3. t \in Table
  BY <1>2 DEF Partition
<1> HIDE DEF t, i
<1>4. end \in Nat
  BY <1>2, <1>3, BucketsCount DEF BucketSize
<1> HIDE DEF end
<1>5. size \in Nat /\ size >= end /\ (i + 1 < NPartitions => size % INDEX_ALIGNMENT = 0)
  BY <1>4, IndexPadding
<1> HIDE DEF size
<1>6. index' \in IndexType /\ Apart(index') /\ index'.size = size
  <2>1. size >= index.size + BucketSize * n_buckets(t)
    BY <1>5 DEF end
  <2> QED
    BY <1>1, <1>2, <1>3, <1>5, <2>1, OneTable, ZenonT(30)
<1>7. info'.offsets \in Seq(Nat) /\ Len(info'.offsets) = i + 1
  BY <1>1, <1>2 DEF i
<1>8. pc' = "index" => i + 1 < NPartitions
  BY <1>1 DEF PhaseAfter
<1>9. Apart(index)'
  BY <1>6, Zenon DEF Apart, n_buckets
<1> QED
  BY <1>1, <1>2, <1>5, <1>6, <1>7, <1>8, <1>9 DEF IndexInv
LEMMA NextIndex ==
    ASSUME IndexInv, [Next]_vars
    PROVE  IndexInv'
<1>1. TypedFiles' /\ UnmarkedWriter'
  BY NextTyped, NextUnmarked DEF IndexInv
<1>2. CASE /\ index' = index
           /\ tables' = tables \/ tables' = NoTables
           /\ pc' # "index" \/ (pc' = pc /\ info' = info)
  <2>1. tables' \in [Partition -> Table]
    BY <1>2, EmptyIsTable DEF IndexInv, NoTables
  <2>2. Apart(index)'
    BY <1>2 DEF IndexInv, Apart, n_buckets
  <2> QED
    BY <1>1, <1>2, <2>1, <2>2 DEF IndexInv
<1>3. CASE BuildIndexes
  <2>1. /\ DOMAIN tables' = Partition /\ tables' = [p \in Partition |-> tables'[p]]
        /\ \A p \in Partition : tables'[p] \in BuiltTables(Entries(p))
    BY <1>3, Zenon DEF BuildIndexes
  <2>2. \A p \in Partition : tables'[p] \in Table
    BY <2>1, BuiltIsTable DEF IndexInv
  <2>3. tables' \in [Partition -> Table]
    BY <2>1, <2>2, Zenon
  <2>4. index' = [exists |-> TRUE, starts |-> <<>>, tables |-> <<>>, size |-> 0]
    BY <1>3, Zenon DEF BuildIndexes, NoIndex
  <2>5. index' \in IndexType /\ Apart(index') /\ index'.size = 0
    BY <2>4, NoIndexApart, Zenon
  <2>6. Apart(index)'
    BY <2>5, Zenon DEF Apart, n_buckets
  <2>7. info'.offsets = <<>>
    BY <1>3 DEF BuildIndexes, NoInfo
  <2>8. <<>> \in Seq(Nat) /\ Len(<<>>) < NPartitions /\ 0 % INDEX_ALIGNMENT = 0
    BY SnapshotAssumption DEF INDEX_ALIGNMENT
  <2> QED
    BY <1>1, <2>3, <2>5, <2>6, <2>7, <2>8 DEF IndexInv
<1>4. CASE WriteTable
  BY <1>1, <1>4, TableIndex
<1>5. CASE NewWriter \/ NewBuilder \/ ScatterDone
  <2>1. index' = index /\ tables' = tables /\ pc' # "index"
    BY <1>5 DEF NewWriter, NewBuilder, ScatterDone, AfterNew, files, memory
  <2> QED
    BY <1>2, <2>1
<1>6. ASSUME NEW p \in Partition, WriteStep(p) PROVE IndexInv'
  BY <1>2, <1>6 DEF WriteStep, Appender, FinishData, Write, memory
<1>7. CASE BuildFails \/ SkipBuild \/ RemoveSpill
  BY <1>2, <1>7 DEF BuildFails, SkipBuild, RemoveSpill, files, memory
<1>8. CASE MarkIndexDone \/ SpillsRemoved \/ WriteMeta
  <2>1. index' = index /\ tables' = tables /\ info' = info
    BY <1>8 DEF MarkIndexDone, SpillsRemoved, WriteMeta, files, memory
  <2>2. \E phase \in {"mark", "sweep", "meta"} :
           pc' = PhaseAfter(phase) /\ (driver = "writer" => phase # "mark")
    BY <1>8 DEF MarkIndexDone, SpillsRemoved, WriteMeta, IndexInv, UnmarkedWriter
  <2> QED
    BY <1>2, <2>1, <2>2, Phases
<1>9. CASE Crash \/ Restart \/ UNCHANGED vars
  BY <1>2, <1>9 DEF Crash, Restart, vars, files, memory
<1> QED
  BY <1>3, <1>4, <1>5, <1>6, <1>7, <1>8, <1>9 DEF Next, FinishStep, Finished

\* Whatever tables are built, and however often the build dies and is run again:
\* write_unified_index puts each at a multiple of 2 MiB, beyond the one before it.
THEOREM TablesAlwaysApart == Spec => []TablesApart
<1>1. Init => IndexInv
  BY InitIndex
<1>2. IndexInv /\ [Next]_vars => IndexInv'
  BY NextIndex
<1>3. IndexInv => TablesApart
  <2> SUFFICES ASSUME IndexInv PROVE TablesApart
    OBVIOUS
  <2>1. DOMAIN index.starts = 1 .. Len(index.starts) /\ Apart(index)
    BY DEF IndexInv, IndexType
  <2> QED
    BY <2>1, Zenon DEF TablesApart, Apart
<1> QED
  BY <1>1, <1>2, <1>3, PTL DEF Spec
=============================================================================
