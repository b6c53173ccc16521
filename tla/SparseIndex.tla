---------------------------- MODULE SparseIndex ----------------------------
(***************************************************************************)
(* One partition of a V5 snapshot, from the arrival log to a lookup:       *)
(* scatter appends records, the plan fixes the block size and the codec,   *)
(* the build sorts the records by fingerprint through radix buckets and    *)
(* packs them into fixed-size blocks with one fence per block, the reader  *)
(* opens the result and answers lookups (mcfreeze-format/src/v5).          *)
(*                                                                         *)
(* The snapshot has one partition.  Lengths are counted in words of four   *)
(* bytes, which keeps the ratios of the format's constants.  A value is a  *)
(* pair of lengths (raw, and as a zstd frame), the bytes stored for it are *)
(* the number of its record and the way they were encoded, and a checksum  *)
(* is the content it was taken of: a collision of checksums or of 64-bit   *)
(* verify fingerprints is left out.  A build can fail at any record and is *)
(* run again; one file can be damaged once the snapshot is sealed.         *)
(***************************************************************************)
EXTENDS Integers, Sequences, FiniteSets, FiniteSetsExt

CONSTANTS
    Key,            \* the keys of the source
    FpOf,           \* the fingerprint of each key
    FpRange,        \* number of fingerprints (2^64 in the code)
    LowHalf,        \* fingerprints that share a fence (2^32 in the code)
    Value,          \* the values: [raw : length, frame : length as a zstd frame]
    MaxValueLen,    \* MAX_VALUE_LEN
    MinBlock,       \* MIN_BLOCK_SIZE
    MaxAutoBlock,   \* MAX_AUTO_BLOCK_SIZE
    Overrides,      \* what --block-size may be, 0 standing for "not given"
    Modes,          \* the compression modes of the builder
    MinCompressLen, \* min_compress_len
    SampleWords,    \* SAMPLE_PREFIX_BYTES
    BucketWords,    \* bucket_bytes
    MaxBuckets,     \* MAX_RADIX_BUCKETS
    FalsePositive,  \* fingerprints the filter accepts though never inserted
    MaxRecords,     \* bound on the arrival log
    MaxFailures     \* bound on failed builds

ASSUME SparseAssumption ==
    /\ FpOf \in [Key -> 0 .. FpRange - 1]
    /\ LowHalf \in Nat \ {0}
    /\ MinBlock \in Nat /\ MinBlock >= 16
    /\ MaxAutoBlock >= MinBlock
    /\ Modes \subseteq {"none", "zstd", "zstd-dict"}
    /\ BucketWords \in Nat \ {0}

VARIABLES
    phase,      \* how far the partition is
    arrival,    \* arrival.bin: the records in the order they were appended
    plan,       \* v5.plan
    buckets,    \* the records of each bucket file still to be packed
    buf,        \* BlockAssembler.buf: the records of the block being filled
    fill,       \* BlockAssembler.buf.len()
    fences,     \* BlockAssembler.fences
    blocks,     \* blocks.bin
    heap,       \* heap.bin: the extents written, in order
    files,      \* what the other files of the sealed snapshot hold
    meta,       \* meta.json
    damage,     \* the one thing damaged since the snapshot was sealed
    reader,     \* what the reader loaded into memory at open
    failures    \* builds that failed so far

assembler == <<buckets, buf, fill, fences, blocks, heap>>
sealed == <<files, meta>>
vars == <<phase, arrival, plan, assembler, sealed, damage, reader, failures>>

HeaderLen == 3
StubLen == 3
ChecksumLen == 1
FrameHeader == 5

Nothing == [kind |-> "nothing"]

---------------------------------------------------------------------------
(* Lengths and the plan *)

align8(n) == 2 * ((n + 1) \div 2)

encoded_len(payload) == align8(HeaderLen + payload)

fence_of(fp) == fp \div LowHalf

(* The number of bits of n, the index of its histogram bucket. *)
Bits(n) == CHOOSE b \in 0 .. n : n < 2 ^ b /\ \A c \in 0 .. b - 1 : n >= 2 ^ c

(* Compressor::compress: raw when the value is short or the frame no smaller. *)
Compresses(v, mode) ==
    mode # "none" /\ v.raw >= MinCompressLen /\ v.frame < v.raw

StoredLen(v, mode) == IF Compresses(v, mode) THEN v.frame ELSE v.raw

(* The block size from the median of a list of stored lengths, read from the  *)
(* log2 histogram of the records' encoded sizes.                              *)
auto_tune_block_size(lens) ==
    LET upTo(b) == Cardinality({i \in DOMAIN lens : Bits(encoded_len(lens[i])) <= b})
        median == Min({b \in 0 .. Max({encoded_len(lens[i]) : i \in DOMAIN lens}) :
                          2 * upTo(b) >= Len(lens)})
    IN  IF lens = <<>> THEN MinBlock
        ELSE Min({Max({2 ^ (median + 1), MinBlock}), MaxAutoBlock})

(* Where the frame of each record of the log ends. *)
FrameEnd(log) ==
    LET end[i \in 0 .. Len(log)] ==
            IF i = 0 THEN 0 ELSE end[i - 1] + FrameHeader + log[i].val.raw
    IN  end

(* The records sampled to train the dictionary and to tune the block size. *)
sample_arrival_prefix ==
    LET end == FrameEnd(arrival)
        whole == SelectSeq([i \in DOMAIN arrival |-> i], LAMBDA i : end[i] <= SampleWords)
    IN  SelectSeq([i \in DOMAIN whole |-> arrival[i].val], LAMBDA v : v.raw > 0)

---------------------------------------------------------------------------
Init ==
    /\ phase = "scatter"
    /\ arrival = <<>>
    /\ plan = Nothing
    /\ buckets = <<>> /\ buf = <<>> /\ fill = 0 /\ fences = <<>>
    /\ blocks = <<>> /\ heap = <<>>
    /\ files = Nothing /\ meta = Nothing
    /\ damage = Nothing
    /\ reader = Nothing
    /\ failures = 0

(* V5Appender::append: a value over the format's limit fails the load here. *)
AppendRecord(k, v) ==
    /\ phase = "scatter"
    /\ Len(arrival) < MaxRecords
    /\ IF v.raw > MaxValueLen
       THEN phase' = "rejected" /\ UNCHANGED arrival
       ELSE arrival' = Append(arrival, [key |-> k, val |-> v]) /\ UNCHANGED phase
    /\ UNCHANGED <<plan, assembler, sealed, damage, reader, failures>>

(* V5Builder::ensure_plan and plan_compression.  Training may fail, and has  *)
(* no sample to work on when every value is empty: plain zstd then.          *)
MakePlan(mode, override, sketch, trains) ==
    LET samples == IF mode = "none" THEN <<>> ELSE sample_arrival_prefix
        codec == IF mode = "zstd-dict" /\ ~trains THEN "zstd" ELSE mode
        lens == IF samples = <<>>
                THEN [i \in DOMAIN arrival |-> arrival[i].val.raw]
                ELSE [i \in DOMAIN samples |-> StoredLen(samples[i], codec)]
        block == IF override # 0 THEN override ELSE auto_tune_block_size(lens)
    IN  /\ phase = "scatter"
        /\ trains => mode = "zstd-dict" /\ samples # <<>>
        /\ plan' = [kind |-> "plan", block |-> block, inline |-> block \div 2,
                    codec |-> codec, sketch |-> sketch]
        /\ phase' = "planned"
        /\ UNCHANGED <<arrival, assembler, sealed, damage, reader, failures>>

---------------------------------------------------------------------------
(* The build *)

bucket_count ==
    LET words == FrameEnd(arrival)[Len(arrival)]
        wanted == (words + BucketWords - 1) \div BucketWords
    IN  Min({b \in {2 ^ e : e \in 0 .. MaxBuckets} : b >= wanted} \cup {MaxBuckets})

(* The bucket of a record is the top bits of its fingerprint. *)
scatter_to_buckets(n) ==
    [b \in 1 .. n |->
        {i \in DOMAIN arrival : FpOf[arrival[i].key] \div (FpRange \div n) = b - 1}]

(* The head of build_partition: sweep what a failed build left, split the log. *)
StartBuild ==
    /\ phase = "planned"
    /\ buckets' = scatter_to_buckets(bucket_count)
    /\ buf' = <<>> /\ fill' = 0 /\ fences' = <<>> /\ blocks' = <<>> /\ heap' = <<>>
    /\ phase' = "build"
    /\ UNCHANGED <<arrival, plan, sealed, damage, reader, failures>>

Capacity == plan.block - ChecksumLen

HeapLen == IF heap = <<>> THEN 0 ELSE heap[Len(heap)].off + heap[Len(heap)].len

(* What is stored for record i: which record, and encoded how. *)
Stored(i) ==
    [rec |-> i,
     codec |-> IF Compresses(arrival[i].val, plan.codec) THEN plan.codec ELSE "raw"]

(* The record as the block holds it.  A stub carries the place of the heap    *)
(* extent and the checksum of what is stored there, an inline record the      *)
(* stored bytes themselves.                                                   *)
Encoded(i) ==
    LET len == StoredLen(arrival[i].val, plan.codec)
        ool == len > plan.inline
    IN  [vfp |-> arrival[i].key, len |-> len, out_of_line |-> ool,
         compressed |-> Stored(i).codec # "raw",
         heap_offset |-> IF ool THEN HeapLen ELSE 0, content |-> Stored(i)]

PayloadLen(r) == IF r.out_of_line THEN StubLen ELSE r.len

(* The first bucket with records left, and its records of least fingerprint: *)
(* the sort is unstable, so any of them may come next.                        *)
NextOfBucket ==
    LET left == {b \in DOMAIN buckets : buckets[b] # {}}
        b == Min(left)
    IN  IF left = {} THEN {}
        ELSE {i \in buckets[b] : \A j \in buckets[b] :
                 FpOf[arrival[i].key] <= FpOf[arrival[j].key]}

(* push_header cuts the block that has no room left for the record. *)
Overflows(enc) ==
    fill + enc > Capacity

(* One turn of the bucket loop: compress, choose inline or heap, push. *)
PushRecord(i) ==
    LET r == Encoded(i)
        enc == encoded_len(PayloadLen(r))
        cut == Overflows(enc)
        at == IF cut THEN 0 ELSE fill
        placed == [pos |-> at, rec |-> r]
    IN  /\ phase = "build"
        /\ i \in NextOfBucket
        /\ buckets' = [b \in DOMAIN buckets |-> buckets[b] \ {i}]
        /\ heap' = IF r.out_of_line
                   THEN Append(heap, [off |-> HeapLen, len |-> r.len, content |-> r.content])
                   ELSE heap
        /\ IF enc > Capacity
           THEN phase' = "too_large" /\ UNCHANGED <<blocks, buf, fill, fences>>
           ELSE /\ blocks' = IF cut THEN Append(blocks, buf) ELSE blocks
                /\ buf' = IF cut THEN <<placed>> ELSE Append(buf, placed)
                /\ fill' = at + enc
                /\ fences' = IF at = 0 THEN Append(fences, fence_of(FpOf[arrival[i].key]))
                             ELSE fences
                /\ UNCHANGED phase
        /\ UNCHANGED <<arrival, plan, sealed, damage, reader, failures>>

(* A write to blocks.bin, heap.bin or a bucket file fails: the assembler is   *)
(* dropped, the files stay as they are and the next build starts over.        *)
BuildFails ==
    /\ phase = "build"
    /\ failures < MaxFailures
    /\ failures' = failures + 1
    /\ phase' = "planned"
    /\ UNCHANGED <<arrival, plan, assembler, sealed, damage, reader>>

(* Mutant of FinishedBlocks: the partial block at the end is not cut. *)
FinishedWithoutTail ==
    blocks

(* BlockAssembler::finish *)
FinishedBlocks ==
    IF fill > 0 THEN Append(blocks, buf) ELSE blocks

(* The filter is built over every fingerprint, unless the partition is empty. *)
SketchOf ==
    IF plan.sketch /\ arrival # <<>>
    THEN [kind |-> "sketch", fps |-> {FpOf[arrival[i].key] : i \in DOMAIN arrival}]
    ELSE Nothing

DictOf == IF plan.codec = "zstd-dict" THEN "trained" ELSE "none"

(* V5Builder::finalize *)
SealedMeta ==
    [kind |-> "meta", block |-> plan.block, n_blocks |-> Len(fences),
     sketch |-> plan.sketch, sketch_checksum |-> SketchOf,
     codec |-> plan.codec # "none", dict |-> DictOf = "trained",
     dict_checksum |-> DictOf]

(* The tail of build_partition, and finalize. *)
FinishBuild ==
    /\ phase = "build"
    /\ NextOfBucket = {}
    /\ blocks' = FinishedBlocks
    /\ buf' = <<>> /\ fill' = 0
    /\ files' = [kind |-> "files", fences |-> fences, sketch |-> SketchOf, dict |-> DictOf]
    /\ meta' = SealedMeta
    /\ phase' = "sealed"
    /\ UNCHANGED <<arrival, plan, buckets, fences, heap, damage, reader, failures>>

---------------------------------------------------------------------------
(* Damage to the files, and the reader *)

(* A block, a heap extent, the filter or the dictionary changes, or the       *)
(* fences or the blocks are cut short.                                        *)
Damages ==
    [kind : {"block"}, at : DOMAIN blocks] \cup [kind : {"heap"}, at : DOMAIN heap]
    \cup (IF meta.sketch_checksum = Nothing THEN {} ELSE {[kind |-> "sketch"]})
    \cup (IF meta.dict THEN {[kind |-> "dict"]} ELSE {})
    \cup (IF blocks = <<>> THEN {} ELSE [kind : {"fences_cut", "blocks_cut"}])

DamageFiles ==
    /\ phase \in {"sealed", "open"}
    /\ damage = Nothing
    /\ damage' \in Damages
    /\ files' = CASE damage'.kind = "sketch" -> [files EXCEPT !.sketch.fps = {}]
                  [] damage'.kind = "dict" -> [files EXCEPT !.dict = "wrong"]
                  [] damage'.kind = "fences_cut" -> [files EXCEPT !.fences = Tail(files.fences)]
                  [] OTHER -> files
    /\ UNCHANGED <<phase, arrival, plan, assembler, meta, reader, failures>>

(* Meta::layout: the anchors are there exactly when the files are. *)
LayoutValid ==
    /\ meta.block >= MinBlock
    /\ (meta.sketch_checksum # Nothing) = (meta.sketch /\ meta.n_blocks > 0)
    /\ meta.codec => (meta.dict_checksum # "none") = meta.dict

DictVerified ==
    meta.codec /\ meta.dict => files.dict = meta.dict_checksum

SketchVerified ==
    meta.sketch /\ meta.n_blocks > 0 => files.sketch = meta.sketch_checksum

SizesMatch ==
    Len(files.fences) = meta.n_blocks /\ damage.kind # "blocks_cut"

(* SnapshotDesc::load and SnapshotReader::open.  Fences, filter and           *)
(* dictionary are copied into memory, blocks and heap are read at each get.   *)
OpenSnapshot ==
    /\ phase = "sealed"
    /\ IF LayoutValid /\ DictVerified /\ SizesMatch /\ SketchVerified
       THEN /\ phase' = "open"
            /\ reader' = [kind |-> "reader", fences |-> files.fences,
                          sketch |-> IF meta.sketch /\ meta.n_blocks > 0
                                     THEN files.sketch ELSE Nothing,
                          codec |-> meta.codec, dict |-> files.dict]
       ELSE phase' = "refused" /\ UNCHANGED reader
    /\ UNCHANGED <<arrival, plan, assembler, sealed, damage, failures>>

---------------------------------------------------------------------------
(* A lookup *)

Miss == [kind |-> "miss"]
Failure == [kind |-> "error"]
Hit(i) == [kind |-> "hit", rec |-> i]
Overrun == [vfp |-> "overrun"]

(* The records a scan of a block yields: from position 0, each record's       *)
(* header says where the next one starts; padding or the end stops the scan.  *)
Records(block) ==
    LET At(p) == {e \in DOMAIN block : block[e].pos = p}
        from[p \in 0 .. plan.block] ==
            IF p + HeaderLen > Capacity \/ At(p) = {} THEN <<>>
            ELSE LET r == block[CHOOSE e \in At(p) : TRUE].rec
                     end == p + HeaderLen + PayloadLen(r)
                 IN  IF end > Capacity THEN <<Overrun>> ELSE <<r>> \o from[align8(end)]
    IN  from[0]

(* block::find: the first record with the key's verify fingerprint, the       *)
(* overrun if it comes first, or nothing.                                     *)
find(block, k) ==
    LET rs == Records(block)
        stops == {j \in DOMAIN rs : rs[j].vfp \in {k, "overrun"}}
    IN  IF stops = {} THEN Nothing ELSE rs[Min(stops)]

(* Mutant of candidate_blocks: the block before the first equal fence is      *)
(* not a candidate when some fence is equal.                                  *)
CandidatesWithoutStraddle(fs, h) ==
    LET lo == Cardinality({i \in DOMAIN fs : fs[i] < h})
        eq == Cardinality({i \in DOMAIN fs : fs[i] = h})
    IN  [j \in 1 .. eq |-> lo + j] \o (IF lo > 0 /\ eq = 0 THEN <<lo>> ELSE <<>>)

(* The blocks whose fence equals h, in order, then the one before them. *)
candidate_blocks(fs, h) ==
    LET lo == Cardinality({i \in DOMAIN fs : fs[i] < h})
        eq == Cardinality({i \in DOMAIN fs : fs[i] = h})
    IN  [j \in 1 .. eq |-> lo + j] \o (IF lo > 0 THEN <<lo>> ELSE <<>>)

(* compress::decode.  A frame decoded with another dictionary than the one it *)
(* was made with decodes into a wrong value, record 0 here.                   *)
decode(content, compressed) ==
    CASE ~compressed -> Hit(content.rec)
      [] compressed /\ ~reader.codec -> Failure
      [] OTHER -> Hit(IF content.codec = "zstd-dict" /\ reader.dict # "trained"
                      THEN 0 ELSE content.rec)

(* pread of the heap extent a stub names, compared with the stub's checksum. *)
HeapValue(r) ==
    LET here == {e \in DOMAIN heap :
                    heap[e].off = r.heap_offset /\ heap[e].len = r.len
                    /\ heap[e].content = r.content /\ damage # [kind |-> "heap", at |-> e]}
    IN  IF here = {} THEN Failure ELSE decode(r.content, r.compressed)

(* What get makes of candidate block b: an answer, or nothing.  The checksum  *)
(* of the block is verified first; a block cut off blocks.bin cannot be read. *)
ProbeBlock(b, k) ==
    LET r == find(blocks[b], k)
    IN  IF damage = [kind |-> "block", at |-> b]
           \/ (damage.kind = "blocks_cut" /\ b = Len(blocks))
        THEN Failure
        ELSE IF r = Nothing THEN Nothing
        ELSE IF r = Overrun THEN Failure
        ELSE IF r.out_of_line THEN HeapValue(r) ELSE decode(r.content, r.compressed)

(* SnapshotReader::get *)
Get(k) ==
    LET candidates == candidate_blocks(reader.fences, fence_of(FpOf[k]))
        answers == {j \in DOMAIN candidates : ProbeBlock(candidates[j], k) # Nothing}
    IN  IF reader.sketch # Nothing /\ FpOf[k] \notin reader.sketch.fps \cup FalsePositive
        THEN Miss
        ELSE IF answers = {} THEN Miss ELSE ProbeBlock(candidates[Min(answers)], k)

---------------------------------------------------------------------------
Next ==
    \/ \E k \in Key, v \in Value : AppendRecord(k, v)
    \/ \E mode \in Modes, o \in Overrides, sketch \in BOOLEAN, trains \in BOOLEAN :
          MakePlan(mode, o, sketch, trains)
    \/ StartBuild
    \/ \E i \in DOMAIN arrival : PushRecord(i)
    \/ BuildFails
    \/ FinishBuild
    \/ DamageFiles
    \/ OpenSnapshot

SparseSpec == Init /\ [][Next]_vars

---------------------------------------------------------------------------
(* Properties *)

(* The types of the build, and the bounds its byte arithmetic rests on: the   *)
(* block being filled leaves room for its checksum, there is a fence for      *)
(* every block and one for the block being filled, and fences never decrease  *)
(* (block.rs:132, fence.rs:5-26).                                             *)
SparseTypeOK ==
    /\ phase \in {"scatter", "rejected", "planned", "build", "too_large",
                  "sealed", "open", "refused"}
    /\ arrival \in Seq([key : Key, val : Value]) /\ Len(arrival) <= MaxRecords
    /\ failures \in 0 .. MaxFailures
    /\ plan # Nothing => plan.block \in Nat /\ fill \in 0 .. Capacity
    /\ phase = "build" => Len(fences) = Len(blocks) + (IF fill > 0 THEN 1 ELSE 0)
    /\ \A i, j \in DOMAIN fences : i < j => fences[i] <= fences[j]

(* A sealed partition holds every record of the arrival log exactly once: a   *)
(* scan of its blocks, in order, yields each record, overruns nowhere, and    *)
(* every stub names its own heap extent; no value the appender let through is *)
(* refused by the assembler, also after builds that failed half way           *)
(* (builder.rs build_partition, block.rs push_header and finish).             *)
EveryRecordPlacedOnce ==
    LET scan == [b \in DOMAIN blocks |-> Records(blocks[b])]
        places == {<<b, j>> \in (DOMAIN blocks) \X (DOMAIN arrival) : j \in DOMAIN scan[b]}
        At(p) == scan[p[1]][p[2]]
    IN  /\ phase # "too_large"
        /\ phase = "sealed" =>
              /\ Len(blocks) = Len(fences)
              /\ \A p \in places :
                    /\ At(p) # Overrun
                    /\ At(p).out_of_line => \E e \in DOMAIN heap :
                          heap[e] = [off |-> At(p).heap_offset, len |-> At(p).len,
                                     content |-> At(p).content]
              /\ \A i \in DOMAIN arrival :
                    Cardinality({p \in places : At(p).content.rec = i}) = 1

(* A lookup is right: a hit is a value that was written under that very key,  *)
(* a miss means that the key was never written, and an error or a refused     *)
(* open means that a file was damaged.  A run of keys with one fence may      *)
(* straddle blocks, and damage is an error, never a miss and never a wrong    *)
(* value (reader.rs get and open, block.rs find).                             *)
LookupRight ==
    /\ phase = "refused" => damage # Nothing
    /\ phase = "open" => \A k \in Key :
          LET answer == Get(k)
          IN  CASE answer.kind = "hit" ->
                     answer.rec \in {i \in DOMAIN arrival : arrival[i].key = k}
                [] answer.kind = "miss" -> \A i \in DOMAIN arrival : arrival[i].key # k
                [] OTHER -> damage # Nothing
=============================================================================
