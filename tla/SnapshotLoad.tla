----------------------------- MODULE SnapshotLoad -----------------------------
(***************************************************************************)
(* Runs of `mcf load` against one output directory (load.rs, the loader    *)
(* crate, the V4 and V5 builders): scatter the records to partition logs,  *)
(* plan, build every partition, seal the snapshot with meta.json, remove   *)
(* the sentinels and patch the descriptor in.  A run can stop anywhere and *)
(* the next one decides from the files it finds what is left to do.        *)
(*                                                                         *)
(* A file is modelled by the records it holds.  Buffered and unsynced      *)
(* bytes are one notion, "not safe": a crash may lose any of them.  For V5 *)
(* a crash is a kill or a power failure, and safe means fsynced; V4 never  *)
(* syncs, its crashes are kills, and safe means handed to the kernel.      *)
(***************************************************************************)
EXTENDS Naturals, FiniteSets

CONSTANTS
    NPartitions,  \* how many partitions the layout has
    Record,       \* the records of the sources
    PartOf,       \* Layout::partition_of, record by record
    Formats,      \* the formats a directory may be loaded with
    Options,      \* the compression modes a run may be started with
    Dicts,        \* the dictionaries that training may come up with
    FaultKinds,   \* which faults may happen
    MaxFaults     \* bound on the faults of a behaviour

Partition == 1 .. NPartitions

NoDict == 0

ASSUME LoadAssumption ==
    /\ NPartitions \in Nat \ {0}
    /\ PartOf \in [Record -> Partition]
    /\ Formats \subseteq {"v4", "v5"}
    /\ Options \subseteq {"plain", "dict"}
    /\ Dicts \subseteq Nat \ {NoDict}
    /\ MaxFaults \in Nat

VARIABLES
    format,       \* the --format of every run on this directory
    part,         \* the files of each partition
    scatterDone,  \* scatter.done exists
    plan,         \* v5.plan
    dict,         \* dict.bin: the dictionary in it
    indexAll,     \* V4: index.all exists
    indexDone,    \* index.done, and the plan it records
    meta,         \* meta.json, and the plan it records
    desc,         \* meta.json holds the protobuf descriptor
    pc,           \* where the running load is
    opts,         \* the mode it was started with
    full,         \* it opened the sources: it is no index-only resume
    todo,         \* the records its sources have not yielded yet
    step,         \* how far it is with each partition
    faults,       \* how many faults happened
    finished,     \* history: the last run reported success
    cut           \* history: evidence of a complete scatter outran the data

planFiles == <<plan, dict>>
sealFiles == <<indexAll, indexDone, meta, desc>>
rootFiles == <<scatterDone, planFiles, sealFiles>>
files == <<part, rootFiles>>
conf == <<opts, full>>
control == <<pc, conf, todo>>
history == <<faults, finished, cut>>
vars == <<format, files, control, step, history>>

\* A marker file that records a plan: absent, truncated or complete.
Marker == [state : {"none", "torn", "ok"}, dict : Dicts \cup {NoDict}]
NoMarker == [state |-> "none", dict |-> NoDict]
TornOf(d) == [state |-> "torn", dict |-> d]
MarkerOf(d) == [state |-> "ok", dict |-> d]

(* The files of a partition.  V5: arrival.bin (has, log), arrival.stats      *)
(* (mark "sealed"), the outputs and build.done.  V4: spill.bin (has), its    *)
(* header (mark: "none" not on disk, "open" with count zero, "sealed" with   *)
(* the count filled in), data.bin (data, log), and the partition's table in  *)
(* index.all (out).                                                          *)
PartitionFiles ==
    [has : BOOLEAN, data : BOOLEAN, log : SUBSET Record, safe : BOOLEAN,
     mark : {"none", "open", "sealed"},
     out : SUBSET Record, outDict : Dicts \cup {NoDict}, outSafe : BOOLEAN,
     done : BOOLEAN]

NoFiles ==
    [has |-> FALSE, data |-> FALSE, log |-> {}, safe |-> FALSE, mark |-> "none",
     out |-> {}, outDict |-> NoDict, outSafe |-> FALSE, done |-> FALSE]

LoadTypeOK ==
    /\ format \in Formats
    /\ part \in [Partition -> PartitionFiles]
    /\ scatterDone \in BOOLEAN /\ indexAll \in BOOLEAN /\ desc \in BOOLEAN
    /\ plan \in Marker /\ indexDone \in Marker /\ meta \in Marker
    /\ dict \in Dicts \cup {NoDict}
    /\ pc \in {"idle", "check", "open", "scatter", "failing", "plan", "train",
               "publish", "build", "index", "mark", "unplan", "sweep", "seal", "tear",
               "unmark", "unindex", "patch", "patching"}
    /\ opts \in Options \cup {"plain"} /\ full \in BOOLEAN
    /\ todo \subseteq Record
    /\ step \in [Partition -> {"new", "open", "synced", "broken", "written", "marked",
                               "swept", "over"}]
    /\ faults \in 0 .. MaxFaults
    /\ finished \in BOOLEAN /\ cut \in BOOLEAN

AllNew == [p \in Partition |-> "new"]

Init ==
    /\ format \in Formats
    /\ part = [p \in Partition |-> NoFiles]
    /\ scatterDone = FALSE /\ indexAll = FALSE /\ desc = FALSE
    /\ plan = NoMarker /\ indexDone = NoMarker /\ meta = NoMarker
    /\ dict = NoDict
    /\ pc = "idle" /\ opts = "plain" /\ full = FALSE /\ todo = {} /\ step = AllNew
    /\ faults = 0 /\ finished = FALSE /\ cut = FALSE

Fault(kind) ==
    /\ kind \in FaultKinds /\ faults < MaxFaults
    /\ faults' = faults + 1

RecordsOf(p) == {r \in Record : PartOf[r] = p}

-----------------------------------------------------------------------------
(* The end of a run that does not succeed: an error returned to main exits   *)
(* the process, and a crash kills it.  Either way what is not safe may go.   *)

\* What a crash leaves of a file's records, of V4's spill header, which is on
\* disk once the buffer was flushed, and of a partition.
Left(safe, records) == IF safe THEN {records} ELSE SUBSET records

HeadersLeft(p) ==
    IF format = "v4" /\ part[p].has /\ ~part[p].safe THEN {"none", "open"} ELSE {part[p].mark}

CrashedFiles(p) ==
    {[part[p] EXCEPT !.log = l, !.out = o, !.mark = m] :
        l \in Left(part[p].safe, part[p].log), o \in Left(part[p].outSafe, part[p].out),
        m \in HeadersLeft(p)}

Scattering == pc \in {"open", "scatter", "failing"}

EndRun ==
    /\ pc' = "idle" /\ opts' = "plain" /\ full' = FALSE /\ todo' = {} /\ step' = AllNew

\* An error before or after the scatter: nothing is left in a buffer.
LoadFails ==
    /\ EndRun
    /\ UNCHANGED <<format, files, history>>

Dies ==
    /\ EndRun
    /\ part' \in {g \in [Partition -> UNION {CrashedFiles(p) : p \in Partition}] :
                     \A p \in Partition : g[p] \in CrashedFiles(p)}
    /\ cut' = (cut \/ (format = "v4" /\ Scattering))
    /\ UNCHANGED <<format, rootFiles, finished>>

Crash ==
    /\ pc # "idle" /\ Fault("crash")
    /\ Dies

\* main exits on the error while the writer threads may still be at work.
ScatterFails ==
    /\ pc = "failing"
    /\ Dies
    /\ UNCHANGED faults

-----------------------------------------------------------------------------
(* run and check_scatter_done                                                *)

\* The snapshot was sealed and its sentinels removed, by a run that succeeded or
\* by one that died before it patched the descriptor in.
SealedAndCleaned == meta.state # "none" /\ indexDone.state = "none"

\* A run over a finished snapshot is a choice, one over a failed load a need.
StartLoad(o) ==
    /\ pc = "idle"
    /\ IF finished THEN Fault("rerun") ELSE UNCHANGED faults
    /\ cut' = (cut \/ (format = "v4" /\ SealedAndCleaned))
    /\ pc' = "check" /\ opts' = o /\ finished' = FALSE
    /\ full' = ~(scatterDone /\ meta.state = "none")
    /\ UNCHANGED <<format, files, todo, step>>

\* scatter_probe: Some, an error, or None.
ProbeErr(p) == format = "v4" /\ part[p].has /\ part[p].mark = "none"

ProbeSome(p) ==
    IF format = "v5"
    THEN part[p].mark = "sealed" \/ part[p].done
    ELSE IF part[p].has THEN part[p].mark # "none" ELSE part[p].data /\ indexAll

ProbeNone(p) == ~ProbeErr(p) /\ ~ProbeSome(p)

WriteSentinel == scatterDone' = TRUE

CheckScatterDone ==
    /\ pc = "check"
    /\ \/ /\ scatterDone \/ \A p \in Partition : ProbeSome(p)
          /\ WriteSentinel /\ pc' = "plan"
       \/ /\ ~scatterDone
          /\ \E p \in Partition : ProbeNone(p) /\ \A q \in 1 .. p - 1 : ProbeSome(q)
          /\ pc' = "open" /\ UNCHANGED scatterDone
    /\ UNCHANGED <<format, part, planFiles, sealFiles, conf, todo, step, history>>

CheckFails ==
    /\ pc = "check" /\ ~scatterDone
    /\ \E p \in Partition : ProbeErr(p) /\ \A q \in 1 .. p - 1 : ProbeSome(q)
    /\ LoadFails

-----------------------------------------------------------------------------
(* create_appenders, run_scatter_sources and the partition writers.  The     *)
(* channel between a source and a writer only delays a record, so reading it *)
(* and appending it are one step.                                            *)

\* Mutant of OpenAppender: the stats of an earlier run survive.
OpenAppenderKeepsStats(p) ==
    /\ pc = "open" /\ step[p] = "new"
    /\ \A q \in 1 .. p - 1 : step[q] = "open"
    /\ part' = [part EXCEPT ![p].has = TRUE, ![p].data = TRUE, ![p].log = {}, ![p].safe = FALSE]
    /\ step' = [step EXCEPT ![p] = "open"]
    /\ IF p = NPartitions THEN pc' = "scatter" /\ todo' = Record ELSE UNCHANGED <<pc, todo>>
    /\ UNCHANGED <<format, rootFiles, conf, history>>

\* The appender truncates the log and drops the mark of an earlier run.
OpenAppender(p) ==
    /\ pc = "open" /\ step[p] = "new"
    /\ \A q \in 1 .. p - 1 : step[q] = "open"
    /\ part' = [part EXCEPT ![p].has = TRUE, ![p].data = TRUE, ![p].log = {}, ![p].safe = FALSE,
                            ![p].mark = "none"]
    /\ step' = [step EXCEPT ![p] = "open"]
    /\ IF p = NPartitions THEN pc' = "scatter" /\ todo' = Record ELSE UNCHANGED <<pc, todo>>
    /\ UNCHANGED <<format, rootFiles, conf, history>>

ScatterRecord(r) ==
    /\ pc = "scatter" /\ r \in todo /\ step[PartOf[r]] = "open"
    /\ part' = [part EXCEPT ![PartOf[r]].log = @ \cup {r}]
    /\ todo' = todo \ {r}
    /\ UNCHANGED <<format, rootFiles, pc, conf, step, history>>

\* A source yields an error, or a value over the limit.
SourceFails ==
    /\ pc = "scatter" /\ todo # {} /\ Fault("source")
    /\ pc' = "failing"
    /\ UNCHANGED <<format, files, conf, todo, step, finished, cut>>

\* A writer fails to append: its appender is dropped, the sources find the
\* channel closed.
WriterFails(p) ==
    /\ pc = "scatter" /\ step[p] = "open" /\ Fault("write")
    /\ step' = [step EXCEPT ![p] = "broken"]
    /\ pc' = "failing"
    /\ cut' = (cut \/ format = "v4")
    /\ UNCHANGED <<format, files, conf, todo, finished>>

\* Mutant of FinishWriter: the log is not synced before its stats are published.
FinishWriterUnsynced(p) ==
    /\ (pc = "scatter" /\ todo = {}) \/ pc = "failing"
    /\ step[p] = "open"
    /\ part' = [part EXCEPT ![p].mark = IF format = "v4" THEN "sealed" ELSE @]
    /\ step' = [step EXCEPT ![p] = IF format = "v4" THEN "over" ELSE "synced"]
    /\ cut' = (cut \/ todo \cap RecordsOf(p) # {})
    /\ UNCHANGED <<format, rootFiles, control, faults, finished>>

\* The channels close when every source is done, and also when the senders are
\* dropped on an error: the writer finishes its appender in both cases.  V5
\* syncs the log; V4 flushes it and fills in the count of the spill header.
FinishWriter(p) ==
    /\ (pc = "scatter" /\ todo = {}) \/ pc = "failing"
    /\ step[p] = "open"
    /\ part' = [part EXCEPT ![p].safe = TRUE,
                            ![p].mark = IF format = "v4" THEN "sealed" ELSE @]
    /\ step' = [step EXCEPT ![p] = IF format = "v4" THEN "over" ELSE "synced"]
    /\ cut' = (cut \/ todo \cap RecordsOf(p) # {})
    /\ UNCHANGED <<format, rootFiles, control, faults, finished>>

\* V5: arrival.stats is published once arrival.bin is durable.
PublishStats(p) ==
    /\ pc \in {"scatter", "failing"} /\ step[p] = "synced"
    /\ part' = [part EXCEPT ![p].mark = "sealed"]
    /\ step' = [step EXCEPT ![p] = "over"]
    /\ UNCHANGED <<format, rootFiles, control, history>>

ScatterFinish ==
    /\ pc = "scatter" /\ todo = {} /\ \A p \in Partition : step[p] = "over"
    /\ WriteSentinel /\ pc' = "plan" /\ step' = AllNew
    /\ UNCHANGED <<format, part, planFiles, sealFiles, conf, todo, history>>

-----------------------------------------------------------------------------
(* plan: a no-op for V4; for V5 the existing plan wins, and otherwise one is *)
(* derived from the partitions' stats.                                       *)

PlanIsUsable ==
    format = "v4" \/ indexDone.state # "none" \/ (plan.state = "ok" /\ plan.dict \in {NoDict, dict})

PlanIsDerivable == plan.state = "none" /\ \A p \in Partition : part[p].mark = "sealed"

PlanKept ==
    /\ pc = "plan" /\ PlanIsUsable
    /\ pc' = "build"
    /\ UNCHANGED <<format, files, conf, todo, step, history>>

\* The stats of all partitions are read first, then a dictionary that no plan
\* names is removed.
PlanDerived ==
    /\ pc = "plan" /\ ~PlanIsUsable /\ PlanIsDerivable
    /\ dict' = NoDict /\ pc' = "train"
    /\ UNCHANGED <<format, part, scatterDone, plan, sealFiles, conf, todo, step, history>>

\* Training has no fixed result, and falls back to none when it fails.
TrainDict ==
    /\ pc = "train"
    /\ dict' \in (IF opts = "dict" THEN Dicts \cup {NoDict} ELSE {NoDict})
    /\ pc' = "publish"
    /\ UNCHANGED <<format, part, scatterDone, plan, sealFiles, conf, todo, step, history>>

PublishPlan ==
    /\ pc = "publish"
    /\ plan' = MarkerOf(dict) /\ pc' = "build"
    /\ UNCHANGED <<format, part, scatterDone, dict, sealFiles, conf, todo, step, history>>

\* Mutant of PlanFails: the dictionary goes before the stats are read.
PlanFailsAfterRemoval ==
    /\ pc = "plan" /\ ~PlanIsUsable /\ ~PlanIsDerivable
    /\ EndRun /\ dict' = NoDict
    /\ UNCHANGED <<format, part, scatterDone, plan, sealFiles, history>>

PlanFails ==
    /\ pc = "plan" /\ ~PlanIsUsable /\ ~PlanIsDerivable
    /\ LoadFails

-----------------------------------------------------------------------------
(* build of V5: the partitions in parallel, each written, synced, marked and *)
(* swept                                                                     *)

\* index.done is there: only the sweep of the transient files is left to do.
BuildSkipped ==
    /\ pc = "build" /\ indexDone.state = "ok"
    /\ plan' = NoMarker
    /\ pc' = "sweep" /\ step' = [p \in Partition |-> "marked"]
    /\ UNCHANGED <<format, part, scatterDone, dict, sealFiles, conf, todo, history>>

\* Mutant of BuildPartition: the log goes before build.done is published.
BuildPartitionSweepsFirst(p) ==
    /\ pc = "build" /\ format = "v5" /\ indexDone.state = "none" /\ step[p] = "new"
    /\ IF part[p].done
       THEN step' = [step EXCEPT ![p] = "marked"] /\ UNCHANGED part
       ELSE /\ part[p].has
            /\ part' = [part EXCEPT ![p].out = part[p].log, ![p].outDict = plan.dict,
                                    ![p].outSafe = FALSE, ![p].has = FALSE, ![p].log = {}]
            /\ step' = [step EXCEPT ![p] = "written"]
    /\ UNCHANGED <<format, rootFiles, control, history>>

\* A partition that was built before is swept; another is built from its log.
BuildPartition(p) ==
    /\ pc = "build" /\ format = "v5" /\ indexDone.state = "none" /\ step[p] = "new"
    /\ IF part[p].done
       THEN step' = [step EXCEPT ![p] = "marked"] /\ UNCHANGED part
       ELSE /\ part[p].has
            /\ part' = [part EXCEPT ![p].out = part[p].log, ![p].outDict = plan.dict,
                                    ![p].outSafe = FALSE]
            /\ step' = [step EXCEPT ![p] = "written"]
    /\ UNCHANGED <<format, rootFiles, control, history>>

SyncOutputs(p) ==
    /\ pc = "build" /\ step[p] = "written"
    /\ part' = [part EXCEPT ![p].outSafe = TRUE]
    /\ step' = [step EXCEPT ![p] = "synced"]
    /\ UNCHANGED <<format, rootFiles, control, history>>

PublishBuildDone(p) ==
    /\ pc = "build" /\ step[p] = "synced"
    /\ part' = [part EXCEPT ![p].done = TRUE]
    /\ step' = [step EXCEPT ![p] = "marked"]
    /\ UNCHANGED <<format, rootFiles, control, history>>

\* V5 removes arrival.bin and then arrival.stats, V4 only spill.bin.
SweepLog(p) ==
    /\ pc \in {"build", "sweep"} /\ step[p] = "marked"
    /\ part' = [part EXCEPT ![p].has = FALSE,
                            ![p].log = IF format = "v4" THEN @ ELSE {},
                            ![p].mark = IF format = "v4" THEN "none" ELSE @]
    /\ step' = [step EXCEPT ![p] = IF format = "v4" THEN "over" ELSE "swept"]
    /\ UNCHANGED <<format, rootFiles, control, history>>

SweepStats(p) ==
    /\ step[p] = "swept"
    /\ part' = [part EXCEPT ![p].mark = "none"]
    /\ step' = [step EXCEPT ![p] = "over"]
    /\ UNCHANGED <<format, rootFiles, control, history>>

PublishIndexDone ==
    /\ pc = "build" /\ \A p \in Partition : step[p] = "over"
    /\ indexDone' = plan /\ pc' = "unplan"
    /\ UNCHANGED <<format, part, scatterDone, planFiles, indexAll, meta, desc, conf, todo, step, history>>

RemovePlan ==
    /\ pc = "unplan"
    /\ plan' = NoMarker /\ pc' = "seal"
    /\ UNCHANGED <<format, part, scatterDone, dict, sealFiles, conf, todo, step, history>>

-----------------------------------------------------------------------------
(* build of V4: all tables, index.all, then index.done by a plain write      *)

\* build_index: a spill that is missing, or that counts no record, gives an
\* empty table.
TableOf(p) == IF part[p].has /\ part[p].mark = "sealed" THEN part[p].log ELSE {}

WriteIndexAll ==
    /\ pc = "build" /\ format = "v4" /\ indexDone.state = "none"
    /\ part' = [p \in Partition |-> [part[p] EXCEPT !.out = TableOf(p), !.outSafe = FALSE]]
    /\ indexAll' = TRUE /\ pc' = "index"
    /\ UNCHANGED <<format, scatterDone, planFiles, indexDone, meta, desc, conf, todo, step, history>>

CreateIndexDone ==
    /\ pc = "index"
    /\ part' = [p \in Partition |-> [part[p] EXCEPT !.outSafe = TRUE]]
    /\ indexDone' = TornOf(NoDict) /\ pc' = "mark"
    /\ UNCHANGED <<format, scatterDone, planFiles, indexAll, meta, desc, conf, todo, step, history>>

WriteIndexDone ==
    /\ pc = "mark"
    /\ indexDone' = MarkerOf(NoDict)
    /\ pc' = "sweep" /\ step' = [p \in Partition |-> "marked"]
    /\ UNCHANGED <<format, part, scatterDone, planFiles, indexAll, meta, desc, conf, todo, history>>

\* index.done does not parse.
BuildFails ==
    /\ pc = "build" /\ indexDone.state = "torn"
    /\ LoadFails

SweepEnds ==
    /\ pc = "sweep" /\ \A p \in Partition : step[p] = "over"
    /\ pc' = "seal"
    /\ UNCHANGED <<format, files, conf, todo, step, history>>

-----------------------------------------------------------------------------
(* finalize, the removal of the sentinels and patch_meta_descriptor          *)

\* V5 publishes meta.json atomically, V4 by a plain write.
Seal ==
    /\ pc = "seal"
    /\ IF format = "v5"
       THEN meta' = indexDone /\ pc' = "unmark"
       ELSE meta' = TornOf(indexDone.dict) /\ pc' = "tear"
    /\ desc' = FALSE
    /\ UNCHANGED <<format, part, scatterDone, planFiles, indexAll, indexDone, conf, todo, step, history>>

SealWritten ==
    /\ pc = "tear"
    /\ meta' = indexDone /\ pc' = "unmark"
    /\ UNCHANGED <<format, part, scatterDone, planFiles, indexAll, indexDone, desc, conf, todo, step, history>>

RemoveScatterDone ==
    /\ pc = "unmark"
    /\ scatterDone' = FALSE /\ pc' = "unindex"
    /\ UNCHANGED <<format, part, planFiles, sealFiles, conf, todo, step, history>>

RemoveIndexDone ==
    /\ pc = "unindex"
    /\ indexDone' = NoMarker /\ pc' = "patch"
    /\ UNCHANGED <<format, part, scatterDone, planFiles, indexAll, meta, desc, conf, todo, step, history>>

\* Only the run that opened the sources patches: it rewrites meta.json in place.
PatchMeta ==
    /\ pc = "patch" /\ full
    /\ meta' = TornOf(meta.dict) /\ pc' = "patching"
    /\ UNCHANGED <<format, part, scatterDone, planFiles, indexAll, indexDone, desc, conf, todo, step, history>>

PatchWritten ==
    /\ pc = "patching"
    /\ meta' = MarkerOf(meta.dict) /\ desc' = TRUE
    /\ EndRun /\ finished' = TRUE
    /\ UNCHANGED <<format, part, scatterDone, planFiles, indexAll, indexDone, faults, cut>>

IndexOnlyEnds ==
    /\ pc = "patch" /\ ~full
    /\ EndRun /\ finished' = TRUE
    /\ UNCHANGED <<format, files, faults, cut>>

-----------------------------------------------------------------------------
LoaderStep ==
    \/ CheckScatterDone \/ CheckFails
    \/ \E r \in Record : ScatterRecord(r)
    \/ \E p \in Partition :
          \/ OpenAppender(p) \/ FinishWriter(p) \/ PublishStats(p)
          \/ BuildPartition(p) \/ SyncOutputs(p) \/ PublishBuildDone(p)
          \/ SweepLog(p) \/ SweepStats(p)
    \/ ScatterFinish \/ ScatterFails
    \/ PlanKept \/ PlanDerived \/ TrainDict \/ PublishPlan \/ PlanFails
    \/ BuildSkipped \/ PublishIndexDone \/ RemovePlan
    \/ WriteIndexAll \/ CreateIndexDone \/ WriteIndexDone \/ BuildFails \/ SweepEnds
    \/ Seal \/ SealWritten \/ RemoveScatterDone \/ RemoveIndexDone
    \/ PatchMeta \/ PatchWritten \/ IndexOnlyEnds

Next ==
    \/ LoaderStep
    \/ \E o \in Options : StartLoad(o)
    \/ SourceFails \/ (\E p \in Partition : WriterFails(p)) \/ Crash

Spec == Init /\ [][Next]_vars

\* A process that was started runs.
FairSpec == Spec /\ WF_vars(LoaderStep)

-----------------------------------------------------------------------------
(* What a sealed snapshot is                                                 *)

Complete(p) == part[p].out = RecordsOf(p) /\ part[p].outSafe

SealedHoldsAll == meta.state = "ok" => \A p \in Partition : Complete(p)

\* meta.json is "the snapshot completeness sentinel": whatever runs, crashes and
\* resumes led to it, and whatever run comes after it, each partition's outputs
\* hold every record of the sources that routes to it.  `cut` excepts the
\* histories in which the evidence of a complete scatter is wrong.
SealedComplete == ~cut => SealedHoldsAll

\* Every partition of a sealed snapshot was built under the plan that meta.json
\* names, and the dictionary of that plan is the one in dict.bin, however the
\* runs that built them were configured.
SealedUniform ==
    meta.state # "none" =>
        \A p \in Partition : part[p].outDict = meta.dict /\ meta.dict \in {NoDict, dict}

\* scatter.done, or the evidence that check_scatter_done derives it from, stands
\* for data a crash cannot take back: each partition has its whole log safe, or
\* is built.
EvidenceBacked ==
    ~cut /\ format = "v5" /\ (scatterDone \/ \A p \in Partition : ProbeSome(p)) =>
        \A p \in Partition :
            \/ part[p].has /\ part[p].safe /\ part[p].log = RecordsOf(p)
            \/ part[p].done /\ Complete(p)

\* A load that is run again after each failure, by whoever wants the snapshot (the
\* Job of a build has a backoffLimit of zero), seals it in the end: V5 after any
\* of the faults, V4 when there was none.
RunAgain == []<>(pc # "idle" \/ finished)
LoadSeals == RunAgain => <>(meta.state = "ok" \/ (format = "v4" /\ faults > 0))

\* A load of protobuf values that reported success left a meta.json with the
\* descriptor, "so downstream tools can decode values without the original build
\* config".
FinishedIsDescribed == finished => desc

=============================================================================
