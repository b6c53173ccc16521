----------------------------- MODULE V4Snapshot -----------------------------
(***************************************************************************)
(* The files of a V4 snapshot, byte by byte as far as offsets go: data.bin  *)
(* and spill.bin of every partition, index.all, index.done and meta.json,   *)
(* written by the single-threaded SnapshotWriter or by the appenders and    *)
(* phases of V4Builder, which a later process may take up after a crash;    *)
(* and what Snapshot::open and get then read from them.                     *)
(*                                                                         *)
(* The table of a partition is any table that index::build may produce:     *)
(* RobinHoodIndex models how it is built, and shows that it holds every     *)
(* record and has no gap before one.  Sizes and offsets are in bytes, with  *)
(* the constants of the code; a u32 wraps at Word.  A process that stops    *)
(* loses its memory, and the part of a file it was about to write.          *)
(***************************************************************************)
EXTENDS Integers, Sequences, FiniteSets, FiniteSetsExt, Functions

CONSTANTS
    Key,          \* the keys written or looked up
    Hash,         \* xxh64 of a key, as its halves lo and hi
    NPartitions,  \* n_partitions
    Lengths,      \* the lengths of values
    MaxRecords,   \* bound on the values written
    Word,         \* 2^32
    MaxOffset,    \* MAX_OFFSET
    MaxChain,     \* MAX_DUPLICATE_FINGERPRINT_CHAIN
    GroupSize,    \* GROUP_SIZE
    Drivers,      \* who writes: "writer" SnapshotWriter, "builder" V4Builder
    MaxCrashes    \* bound on the crashes of a behaviour

Partition == 0 .. NPartitions - 1

ASSUME SnapshotAssumption ==
    /\ Hash \in [Key -> [lo : Nat, hi : Nat]]
    /\ NPartitions \in Nat \ {0}
    /\ Lengths \subseteq Nat /\ MaxRecords \in Nat
    /\ Word \in Nat \ {0} /\ MaxOffset \in Nat /\ MaxChain \in Nat
    /\ GroupSize \in Nat \ {0}
    /\ Drivers \subseteq {"writer", "builder"}
    /\ MaxCrashes \in Nat

VARIABLES
    driver,     \* who writes
    pc,         \* the phase the process is in
    part,       \* the files of each partition and the state of its writer
    scattered,  \* the loader's scatter.done: every appender has finished
    tables,     \* the tables that build_index has returned
    index,      \* index.all
    info,       \* UnifiedIndexInfo, in memory
    indexDone,  \* index.done
    meta,       \* meta.json
    crashes

files == <<part, scattered, index, indexDone, meta>>
memory == <<tables, info>>
vars == <<driver, pc, files, memory, crashes>>

VALUE_ALIGNMENT == 64
VALUE_HEADER_SIZE == 12
PAGE_SIZE == 4096
INDEX_ALIGNMENT == 2097152
BucketSize == 8

\* index::Bucket
Bucket == [fp : Nat, off : Nat]

\* UnifiedIndexInfo, and the partitions of index.done and of Meta.
Info == [offsets : Seq(Nat), n_buckets : Seq(Nat)]
NoInfo == [offsets |-> <<>>, n_buckets |-> <<>>]

\* A JSON file: absent, cut short, or complete.
File == [state : {"none", "torn", "ok"}, info : Info]
NoFile == [state |-> "none", info |-> NoInfo]
TornFile == [state |-> "torn", info |-> NoInfo]
FileOf(i) == [state |-> "ok", info |-> i]

\* SpillWriter::create: the header counts no record until finish fills it in.
NewSpill == [exists |-> TRUE, count |-> 0, records |-> <<>>]
NoSpill == [exists |-> FALSE, count |-> 0, records |-> <<>>]

(* A partition.  values: the key and the length of each value written to     *)
(* data.bin; starts: the position in the file at which it was written; size: *)
(* the length of the file; byte_offset: where AlignedWriter thinks it is.    *)
NewPartition ==
    [step |-> "new", values |-> <<>>, starts |-> <<>>, size |-> 0, byte_offset |-> 0,
     spill |-> NoSpill]

\* PartitionWriter::new and new_buffered create data.bin and spill.bin, or
\* truncate those of an earlier process.
OpenPartition == [NewPartition EXCEPT !.step = "open", !.spill = NewSpill]

\* index.all: where each table was written, and the length of the file.
NoIndex == [exists |-> FALSE, starts |-> <<>>, tables |-> <<>>, size |-> 0]

EmptyTable == [b \in {} |-> 0]
NoTables == [p \in Partition |-> EmptyTable]

Init ==
    /\ driver \in Drivers /\ pc = "new"
    /\ part = [p \in Partition |-> NewPartition]
    /\ scattered = FALSE
    /\ tables = NoTables /\ info = NoInfo
    /\ index = NoIndex /\ indexDone = NoFile /\ meta = NoFile
    /\ crashes = 0

-----------------------------------------------------------------------------
(* Fingerprints, sizes and the layout                                       *)

\* Zero is biased to one.
fingerprint(k) == IF Hash[k] = [lo |-> 0, hi |-> 0] THEN [lo |-> 1, hi |-> 0] ELSE Hash[k]

compact_fingerprint(fp) == IF fp.hi = 0 THEN 1 ELSE fp.hi

\* Layout::new
LayoutValid(n) == \E i \in 0 .. 31 : n = 2 ^ i

\* fingerprint & partition_mask, for a number of partitions that is a power of two
partition_of(fp) == fp.lo % NPartitions

KeysOf(p) == {k \in Key : partition_of(fingerprint(k)) = p}

\* A conversion to u32.
U32(n) == IF n < Word THEN n ELSE n % Word

aligned_size(n) == ((n + VALUE_ALIGNMENT - 1) \div VALUE_ALIGNMENT) * VALUE_ALIGNMENT

\* ceil(n / 0.95)
bucket_count(n) == (20 * n + 18) \div 19

-----------------------------------------------------------------------------
(* Writing the values                                                       *)

AfterNew == IF LayoutValid(NPartitions) THEN "scatter" ELSE "refused"

\* SnapshotWriter::new opens the writer of every partition.
NewWriter ==
    /\ driver = "writer" /\ pc = "new"
    /\ pc' = AfterNew
    /\ part' = [p \in Partition |-> OpenPartition]
    /\ UNCHANGED <<driver, scattered, index, indexDone, meta, memory, crashes>>

\* V4Builder::new touches no file.
NewBuilder ==
    /\ driver = "builder" /\ pc = "new"
    /\ pc' = AfterNew
    /\ UNCHANGED <<driver, files, memory, crashes>>

\* V4Builder::appender
Appender(p) ==
    /\ driver = "builder" /\ pc = "scatter" /\ part[p].step = "new"
    /\ part' = [part EXCEPT ![p] = OpenPartition]
    /\ UNCHANGED <<driver, pc, scattered, index, indexDone, meta, memory, crashes>>

\* Mutant of Advanced: the header is left out of the size on disk.
AdvancedHeaderless(f, k, n) ==
    LET on_disk_size == U32(n)
        padded == aligned_size(on_disk_size)
    IN  [f EXCEPT !.values = Append(@, [key |-> k, len |-> n]),
                  !.starts = Append(@, f.size),
                  !.size = @ + VALUE_HEADER_SIZE + n + (padded - on_disk_size),
                  !.byte_offset = @ + padded]

\* AlignedWriter::write_value: the header, the value and the padding go to the
\* end of the file; the writer's own offset advances by the padded size.
Advanced(f, k, n) ==
    LET on_disk_size == U32(VALUE_HEADER_SIZE + U32(n))
        padded == aligned_size(on_disk_size)
    IN  [f EXCEPT !.values = Append(@, [key |-> k, len |-> n]),
                  !.starts = Append(@, f.size),
                  !.size = @ + VALUE_HEADER_SIZE + n + (padded - on_disk_size),
                  !.byte_offset = @ + padded]

\* Bucket::new
OffsetFits(off) == off <= MaxOffset

BucketFor(f, k) ==
    [fp |-> compact_fingerprint(fingerprint(k)), off |-> f.byte_offset \div VALUE_ALIGNMENT]

NWritten == MapThenSumSet(LAMBDA p : Len(part[p].values), Partition)

\* SnapshotWriter::write and V4Appender::append: the value is in data.bin before
\* its offset is found not to fit, which ends the load.
Write(p, k, n) ==
    LET f == part[p]
        bucket == BucketFor(f, k)
    IN  /\ pc = "scatter" /\ f.step = "open" /\ NWritten < MaxRecords
        /\ driver = "writer" => \A q \in Partition : part[q].step = "open"
        /\ IF OffsetFits(bucket.off)
           THEN /\ part' = [part EXCEPT ![p] = [Advanced(f, k, n) EXCEPT
                                !.spill.records = Append(@, bucket)]]
                /\ UNCHANGED pc
           ELSE /\ part' = [part EXCEPT ![p] = Advanced(f, k, n)]
                /\ pc' = "dead"
        /\ UNCHANGED <<driver, scattered, index, indexDone, meta, memory, crashes>>

\* PartitionWriter::finish_data, for SnapshotWriter one partition after the other:
\* SpillWriter::finish fills in the count of the header.
FinishData(p) ==
    /\ pc = "scatter" /\ part[p].step = "open"
    /\ driver = "writer" => \A q \in 0 .. p - 1 : part[q].step = "over"
    /\ part' = [part EXCEPT ![p].step = "over", ![p].spill.count = Len(part[p].spill.records)]
    /\ UNCHANGED <<driver, pc, scattered, index, indexDone, meta, memory, crashes>>

\* Every writer is done; the loader publishes scatter.done.
ScatterDone ==
    /\ pc = "scatter" /\ \A p \in Partition : part[p].step = "over"
    /\ scattered' = TRUE /\ pc' = "build"
    /\ UNCHANGED <<driver, part, index, indexDone, meta, memory, crashes>>

-----------------------------------------------------------------------------
(* Building the index                                                       *)

\* What follows a phase that is complete: SnapshotWriter publishes meta.json and
\* then removes the spills; V4Builder publishes index.done, removes them, and
\* leaves meta.json to finalize.
PhaseAfter(phase) ==
    IF driver = "writer"
    THEN CASE phase = "index" -> "meta" [] phase = "meta" -> "sweep" [] phase = "sweep" -> "done"
    ELSE CASE phase = "index" -> "mark" [] phase = "mark" -> "sweep" [] phase = "sweep" -> "meta"
           [] phase = "meta" -> "done"

\* SpillReader: as many records as the header says; without a file, none.
Entries(p) == SubSeq(part[p].spill.records, 1, part[p].spill.count)

PathologicalDuplicates(e) ==
    \E i \in DOMAIN e : Cardinality({j \in DOMAIN e : e[j].fp = e[i].fp}) > MaxChain

Empty == [fp |-> 0, off |-> 0]

is_empty(bucket) == bucket.fp = 0

HomePosition(cfp, n) == cfp % n

\* The bucket at p lies between a record's home h and the record's bucket q.
Between(h, p, q) == IF h <= q THEN h <= p /\ p < q ELSE h <= p \/ p < q

\* Where the records e may come to lie in n buckets: each in one of its own, and
\* no empty one between its home and it (RobinHoodIndex: NoneLost and NoGaps).
Placements(e, n) ==
    {at \in [DOMAIN e -> 0 .. n - 1] :
        /\ \A i, j \in DOMAIN e : i # j => at[i] # at[j]
        /\ \A i \in DOMAIN e : \A b \in 0 .. n - 1 :
              Between(HomePosition(e[i].fp, n), b, at[i]) => \E j \in DOMAIN e : at[j] = b}

\* index::build
BuiltTables(e) ==
    LET n == bucket_count(Len(e))
    IN  {[b \in 0 .. n - 1 |->
             IF \E i \in DOMAIN e : at[i] = b THEN e[CHOOSE i \in DOMAIN e : at[i] = b] ELSE Empty]
         : at \in Placements(e, n)}

Builds == \A p \in Partition : ~PathologicalDuplicates(Entries(p))

\* V4Builder::build without a sentinel, and SnapshotFinalizer::finish: every
\* partition's table is built, then index.all created.
BuildIndexes ==
    /\ pc = "build" /\ indexDone.state = "none" /\ Builds
    /\ tables' \in {t \in [Partition -> UNION {BuiltTables(Entries(p)) : p \in Partition}] :
                       \A p \in Partition : t[p] \in BuiltTables(Entries(p))}
    /\ index' = [NoIndex EXCEPT !.exists = TRUE] /\ info' = NoInfo
    /\ pc' = "index"
    /\ UNCHANGED <<driver, part, scattered, indexDone, meta, crashes>>

\* A chain of duplicates, or a sentinel that does not parse, ends the load.
BuildFails ==
    /\ pc = "build"
    /\ \/ indexDone.state = "torn"
       \/ indexDone.state = "none" /\ ~Builds
    /\ pc' = "dead"
    /\ UNCHANGED <<driver, files, memory, crashes>>

\* Mutant of SkipBuild: the sentinel of an earlier process is taken for an error.
SkipBuildRefused ==
    /\ pc = "build" /\ indexDone.state = "ok"
    /\ pc' = "dead"
    /\ UNCHANGED <<driver, files, memory, crashes>>

\* V4Builder::build with the sentinel of an earlier process.
SkipBuild ==
    /\ pc = "build" /\ indexDone.state = "ok"
    /\ info' = indexDone.info
    /\ pc' = "sweep"
    /\ UNCHANGED <<driver, files, tables, crashes>>

n_buckets(t) == Cardinality(DOMAIN t)

\* The next multiple of INDEX_ALIGNMENT.
IndexAligned(n) == ((n + INDEX_ALIGNMENT - 1) \div INDEX_ALIGNMENT) * INDEX_ALIGNMENT

\* Mutant of WriteTable: the file is made longer, but not the position in it.
WriteTableUnsought ==
    LET i == Len(info.offsets)
        end == index.size + BucketSize * n_buckets(tables[i])
        last == IF i = 0 THEN 0
                ELSE index.starts[i] + BucketSize * n_buckets(index.tables[i])
    IN  /\ pc = "index"
        /\ info' = [offsets |-> Append(info.offsets, index.size),
                    n_buckets |-> Append(info.n_buckets, n_buckets(tables[i]))]
        /\ index' = [index EXCEPT !.starts = Append(@, last),
                                  !.tables = Append(@, tables[i]),
                                  !.size = IF i + 1 < NPartitions THEN IndexAligned(end) ELSE end]
        /\ pc' = IF i + 1 < NPartitions THEN "index" ELSE PhaseAfter("index")
        /\ UNCHANGED <<driver, part, scattered, tables, indexDone, meta, crashes>>

\* One iteration of write_unified_index: the offset is noted, the table written,
\* and the file padded unless this was the last table.
WriteTable ==
    LET i == Len(info.offsets)
        end == index.size + BucketSize * n_buckets(tables[i])
    IN  /\ pc = "index"
        /\ info' = [offsets |-> Append(info.offsets, index.size),
                    n_buckets |-> Append(info.n_buckets, n_buckets(tables[i]))]
        /\ index' = [index EXCEPT !.starts = Append(@, index.size),
                                  !.tables = Append(@, tables[i]),
                                  !.size = IF i + 1 < NPartitions THEN IndexAligned(end) ELSE end]
        /\ pc' = IF i + 1 < NPartitions THEN "index" ELSE PhaseAfter("index")
        /\ UNCHANGED <<driver, part, scattered, tables, indexDone, meta, crashes>>

-----------------------------------------------------------------------------
(* Publishing it                                                            *)

MarkIndexDone ==
    /\ pc = "mark"
    /\ indexDone' = FileOf(info)
    /\ pc' = PhaseAfter("mark")
    /\ UNCHANGED <<driver, part, scattered, memory, index, meta, crashes>>

Spilled == {p \in Partition : part[p].spill.exists}

\* Mutant of RemoveSpill: a spill may go before index.done is there.
RemoveSpillEarly ==
    /\ pc \in {"mark", "sweep"} /\ Spilled # {}
    /\ part' = [part EXCEPT ![Min(Spilled)].spill = NoSpill]
    /\ UNCHANGED <<driver, pc, scattered, memory, index, indexDone, meta, crashes>>

RemoveSpill ==
    /\ pc = "sweep" /\ Spilled # {}
    /\ part' = [part EXCEPT ![Min(Spilled)].spill = NoSpill]
    /\ UNCHANGED <<driver, pc, scattered, memory, index, indexDone, meta, crashes>>

SpillsRemoved ==
    /\ pc = "sweep" /\ Spilled = {}
    /\ pc' = PhaseAfter("sweep")
    /\ UNCHANGED <<driver, files, memory, crashes>>

\* SnapshotFinalizer::write_meta
WriteMeta ==
    /\ pc = "meta"
    /\ meta' = FileOf(info)
    /\ pc' = PhaseAfter("meta")
    /\ UNCHANGED <<driver, part, scattered, memory, index, indexDone, crashes>>

\* The process is killed.  fs::write may leave a file that is cut short.
Crash ==
    /\ pc \in {"scatter", "build", "index", "mark", "sweep", "meta"} /\ crashes < MaxCrashes
    /\ crashes' = crashes + 1
    /\ tables' = NoTables /\ info' = NoInfo
    /\ indexDone' \in (IF pc = "mark" THEN {indexDone, TornFile} ELSE {indexDone})
    /\ meta' \in (IF pc = "meta" THEN {meta, TornFile} ELSE {meta})
    /\ pc' = "dead"
    /\ UNCHANGED <<driver, part, scattered, index>>

\* A new V4Builder on the same directory: PartitionBuildReady::from_existing
\* when the scatter was complete, else new appenders.
Restart ==
    /\ driver = "builder" /\ pc = "dead"
    /\ pc' = IF scattered THEN "build" ELSE "scatter"
    /\ part' = IF scattered THEN part ELSE [p \in Partition |-> [part[p] EXCEPT !.step = "new"]]
    /\ UNCHANGED <<driver, scattered, memory, index, indexDone, meta, crashes>>

Finished ==
    /\ pc \in {"done", "refused"} \/ (driver = "writer" /\ pc = "dead")
    /\ UNCHANGED vars

WriteStep(p) ==
    \/ Appender(p) \/ FinishData(p)
    \/ \E k \in KeysOf(p), n \in Lengths : Write(p, k, n)

FinishStep ==
    \/ BuildIndexes \/ BuildFails \/ SkipBuild \/ WriteTable
    \/ MarkIndexDone \/ RemoveSpill \/ SpillsRemoved \/ WriteMeta

Next ==
    \/ NewWriter \/ NewBuilder \/ ScatterDone
    \/ \E p \in Partition : WriteStep(p)
    \/ FinishStep
    \/ Crash \/ Restart
    \/ Finished

Spec == Init /\ [][Next]_vars

\* One thread runs build and finalize to their end, and a load that died is run
\* again.
FairSpec == Spec /\ WF_vars(FinishStep) /\ WF_vars(Restart)

-----------------------------------------------------------------------------
(* Snapshot::open_path and get                                              *)

\* Meta::layout
MetaValid(i) == LayoutValid(Len(i.offsets))

\* SnapshotDesc::load: meta.json parses and is valid.
DescLoads == meta.state = "ok" /\ MetaValid(meta.info)

\* SnapshotReader::open: index.all and every data.bin are there.
ReaderOpens == index.exists /\ \A p \in Partition : part[p].step # "new"

\* Snapshot::open_path
Opens == DescLoads /\ ReaderOpens

\* SnapshotReader::partition: the buckets at the offset that meta.json gives.  Bytes
\* of index.all that are not a table as it was written are no use to a lookup.
SliceIsTable(p) ==
    LET offset == meta.info.offsets[p + 1]
        n == meta.info.n_buckets[p + 1]
    IN  /\ offset + BucketSize * n <= index.size
        /\ n > 0 => \E i \in DOMAIN index.tables :
                        index.starts[i] = offset /\ n_buckets(index.tables[i]) = n

Slice(p) ==
    IF meta.info.n_buckets[p + 1] = 0 THEN EmptyTable
    ELSE index.tables[CHOOSE i \in DOMAIN index.tables :
                          /\ index.starts[i] = meta.info.offsets[p + 1]
                          /\ n_buckets(index.tables[i]) = meta.info.n_buckets[p + 1]]

\* probe_group, group after group: how far the buckets are looked at from a home.
\* The loop ends after the group that holds an empty bucket, or covers the table.
Groups(n) == (n + GroupSize - 1) \div GroupSize

At(t, cfp, j) == t[(HomePosition(cfp, n_buckets(t)) + j) % n_buckets(t)]

Candidates(t, cfp) ==
    IF n_buckets(t) = 0 THEN {}
    ELSE {j \in 0 .. Groups(n_buckets(t)) * GroupSize - 1 :
             (At(t, cfp, j)).fp = cfp /\ \A i \in 0 .. j : ~is_empty(At(t, cfp, i))}

Other == [out |-> "other", value |-> 0, len |-> 0]
Broken == [out |-> "error", value |-> 0, len |-> 0]
Value(i, n) == [out |-> "value", value |-> i, len |-> n]

\* pread_up_to: the rest of the page, or of the file.
FirstRead(f, at) ==
    LET left == IF at < f.size THEN f.size - at ELSE 0
    IN  Min({PAGE_SIZE - (at % PAGE_SIZE), left})

\* pread: exact, or an error.
Preads(f, at, n) == at + n <= f.size

\* The second pread of a value that goes beyond the first.
LongRead(f, at, i) ==
    LET n == U32(f.values[i].len)
        total == U32(aligned_size(VALUE_HEADER_SIZE + n))
    IN  IF VALUE_HEADER_SIZE + n >= Word THEN Other
        ELSE IF ~Preads(f, at, total) \/ total < VALUE_HEADER_SIZE + n THEN Broken
        ELSE Value(i, n)

\* read_and_verify: the verify fingerprint of a header tells the keys apart, and
\* bytes that are no header match no key.
read_and_verify(f, at, k) ==
    LET here == {i \in DOMAIN f.starts : f.starts[i] = at /\ f.values[i].key = k}
        i == CHOOSE x \in here : TRUE
        n == U32(f.values[i].len)
    IN  IF FirstRead(f, at) < VALUE_HEADER_SIZE THEN Broken
        ELSE IF here = {} THEN Other
        ELSE IF VALUE_HEADER_SIZE + n <= FirstRead(f, at) THEN Value(i, n)
        ELSE LongRead(f, at, i)

\* PartitionReader::get: the first candidate that is not another key's decides.
GetIn(p, k, fp) ==
    LET t == Slice(p)
        cfp == compact_fingerprint(fp)
        found == Candidates(t, cfp)
        read(j) == read_and_verify(part[p], (At(t, cfp, j)).off * VALUE_ALIGNMENT, k)
        decisive == {j \in found : (read(j)).out # "other"}
    IN  IF decisive # {} THEN read(Min(decisive))
        ELSE [Other EXCEPT !.out = IF found = {} THEN "miss" ELSE "miss after io"]

\* SnapshotReader::get
Get(k) == GetIn(partition_of(fingerprint(k)), k, fingerprint(k))

\* `mcf get`: the snapshot is opened and the key looked up, or it fails.
GetCommand(k) == IF Opens THEN Get(k) ELSE Broken

-----------------------------------------------------------------------------
SnapshotTypeOK ==
    /\ driver \in Drivers /\ crashes \in 0 .. MaxCrashes
    /\ pc \in {"new", "refused", "scatter", "build", "index", "mark", "sweep", "meta", "done",
               "dead"}
    /\ DOMAIN part = Partition
    /\ \A p \in Partition :
          /\ part[p].step \in {"new", "open", "over"}
          /\ part[p].values \in Seq([key : Key, len : Lengths])
          /\ part[p].starts \in Seq(Nat) /\ Len(part[p].starts) = Len(part[p].values)
          /\ part[p].size \in Nat /\ part[p].byte_offset \in Nat
          /\ part[p].spill.exists \in BOOLEAN
          /\ part[p].spill.records \in Seq(Bucket)
          /\ part[p].spill.count \in 0 .. Len(part[p].spill.records)
    /\ scattered \in BOOLEAN
    /\ info \in Info /\ indexDone \in File /\ meta \in File

\* The writer's own offset is the length of the file, at a multiple of 64, and
\* the records of spill.bin name, in order, the places of data.bin at which
\* the values were written, one after the other and none within another.
OffsetsNameValues ==
    \A p \in Partition :
        LET f == part[p]
        IN  /\ f.byte_offset = f.size /\ f.size % VALUE_ALIGNMENT = 0
            /\ \A i \in DOMAIN f.spill.records :
                  f.starts[i] = f.spill.records[i].off * VALUE_ALIGNMENT
            /\ \A i \in DOMAIN f.starts :
                  LET end == f.starts[i] + VALUE_HEADER_SIZE + f.values[i].len
                  IN  /\ end <= f.size
                      /\ \A j \in DOMAIN f.starts : i < j => end <= f.starts[j]

\* The tables of index.all start at multiples of 2 MiB, none reaches into the
\* next, and each lies where meta.json will say, within the file.
TablesApart ==
    \A i \in DOMAIN index.starts :
        LET end == index.starts[i] + BucketSize * n_buckets(index.tables[i])
        IN  /\ index.starts[i] % INDEX_ALIGNMENT = 0
            /\ end <= index.size
            /\ \A j \in DOMAIN index.starts : i < j => end <= index.starts[j]

Written(k) == {v \in Range(part[partition_of(fingerprint(k))].values) : v.key = k}

\* Some key that was written shares the compact fingerprint of k.
Shared(k) ==
    \E v \in Range(part[partition_of(fingerprint(k))].values) :
        compact_fingerprint(fingerprint(v.key)) = compact_fingerprint(fingerprint(k))

\* A snapshot that opens, after whatever crashes, is complete: it answers every
\* key that was written with a whole value of that key, and any other with a miss
\* that tells whether a fingerprint had to be looked up; and a finished one opens.
ReadBack ==
    (pc = "done" \/ Opens) => \A k \in Key :
        LET p == partition_of(fingerprint(k))
            got == GetCommand(k)
        IN  /\ Opens /\ SliceIsTable(p)
            /\ IF Written(k) # {}
               THEN got.out = "value" /\ (part[p].values[got.value]).key = k
                        /\ got.len = (part[p].values[got.value]).len
               ELSE got.out = IF Shared(k) THEN "miss after io" ELSE "miss"

\* A process that dies after the scatter leaves a directory that another one can
\* finish, unless it died while it wrote index.done and left that cut short.
Resumable ==
    /\ driver = "builder" /\ scattered
    /\ indexDone.state = "ok" \/ (indexDone.state = "none" /\ Builds)

BuildResumes == (pc = "dead" /\ Resumable) ~> (pc = "done" \/ indexDone.state = "torn")

\* What the comment at V4Builder::build says of a crash before the spills are
\* removed: it "leaves spills intact for a full retry".
BuildAlwaysResumes == (driver = "builder" /\ pc = "dead" /\ scattered /\ Builds) ~> (pc = "done")
=============================================================================
