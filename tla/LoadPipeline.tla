----------------------------- MODULE LoadPipeline -----------------------------
(***************************************************************************)
(* The run of `mcf load` up to scatter.done: the command line is checked,   *)
(* the source opened, and one task per stream draws batches under the       *)
(* shared row budget, routes their rows and sends them over bounded         *)
(* channels to one writer per partition, on the threads of the runtime's    *)
(* blocking pool.  The main task joins the stream tasks and the writers.    *)
(*                                                                         *)
(* A row is known by its place <<stream, batch, row>> in Feed; its fields   *)
(* are its partition, whether its value exceeds --max-value-bytes, and      *)
(* whether its key is null.  SnapshotLoad takes up from scatter.done.       *)
(***************************************************************************)
EXTENDS Integers, Sequences, FiniteSets, FiniteSetsExt

CONSTANTS
    Args,            \* the command lines considered
    Feed,            \* Feed[s]: the batches that stream s holds
    NPartitions,     \* n_partitions
    ChannelCapacity, \* channel_capacity
    BlockingThreads, \* threads of the runtime's blocking pool
    NoLimit,         \* --max-rows is not given
    FaultKinds,      \* "open", "source", "write"
    MaxFaults        \* bound on the faults

Stream == 1 .. Len(Feed)
Partition == 1 .. NPartitions

\* What is read: a table, a CSV, or what a worker config names.
Source == {"bq", "csv", "config_bigquery", "config_csv", "config_empty_csv", "config_nothing"}

\* LoadArgs, with the parts of a WorkerConfig that replace them.  Of a number that
\* is checked it says whether it passes, of a column its type in the schema.
LoadArgs ==
    [mode : {"load", "dry_run", "benchmark"}, source : Source,
     table : {"dotted", "resource", "malformed"}, output : BOOLEAN,
     block_size : BOOLEAN, partitions : BOOLEAN, max_rows : Nat \union {NoLimit},
     key_column : {"bytes", "integer", "other", "absent"},
     value_column : {"bytes", "integer", "other", "absent"},
     protobuf_message : {"off", "found", "unknown"}, protobuf_package : BOOLEAN,
     protobuf_descriptor : SUBSET {"gs_uri", "path", "base64"}]

ASSUME PipelineAssumption ==
    /\ NPartitions \in Nat \ {0} /\ ChannelCapacity \in Nat /\ BlockingThreads \in Nat \ {0}
    /\ MaxFaults \in Nat /\ NoLimit \notin Nat
    /\ Feed \in Seq(Seq(Seq([part : Partition, oversized : BOOLEAN, null : BOOLEAN])))
    /\ Feed # <<>>
    /\ Args \subseteq LoadArgs

VARIABLES
    args,      \* the command line
    main,      \* where run is
    joined,    \* stream tasks joined
    awaited,   \* writers awaited
    opened,    \* streams of the session
    task,      \* stream task -> its state
    remaining, \* the shared row budget
    chan,      \* partition -> sub-batches sent and not received
    writer,    \* partition -> "none", "queued", "running", "finished", "failed"
    appended,  \* partition -> rows appended to its files
    progress,  \* total_keys of the progress reporter
    n_keys,    \* the count in scatter.done, -1 while it is not written
    faults,
    \* history
    granted,   \* rows that passed the budget
    validated  \* a dry run of this command line ended well

command == <<args, validated>>
mainvars == <<main, joined, awaited, n_keys>>
streams == <<opened, task, remaining, progress, granted>>
writers == <<chan, writer, appended>>
vars == <<command, mainvars, streams, writers, faults>>

\* What Fanout::sub_batches holds between two batches.
NoRows == [p \in Partition |-> <<>>]
NewTask == [pc |-> "next", next |-> 1, sub |-> NoRows, n_keys |-> 0, told |-> 0]

Init ==
    /\ args \in Args
    /\ main = "start" /\ joined = 0 /\ awaited = 0 /\ n_keys = -1
    /\ opened = 0 /\ task = [s \in Stream |-> NewTask]
    /\ remaining = 0 /\ progress = 0 /\ granted = 0
    /\ chan = NoRows /\ appended = NoRows
    /\ writer = [p \in Partition |-> "none"]
    /\ faults = 0 /\ validated = FALSE

Fault(kind) == kind \in FaultKinds /\ faults < MaxFaults /\ faults' = faults + 1

-----------------------------------------------------------------------------
(* run: the checks, in their order                                          *)

\* parse_table: project.dataset.table or a full resource name.
ParseTable(a) == a.table \in {"dotted", "resource"}

FromSession(a) == a.source \in {"bq", "config_bigquery"}

\* build_pipeline: the table's name parses; a config names a source, and a CSV in it
\* has data or a path.
BuildPipeline(a) ==
    IF FromSession(a) THEN ParseTable(a) ELSE a.source \in {"csv", "config_csv"}

\* build_protobuf_config: a file or base64 text becomes the descriptor, a gs:// URI
\* the descriptor_uri.  A worker config can hold both.
ProtobufConfig(a) ==
    {IF d = "gs_uri" THEN "descriptor_uri" ELSE "descriptor" : d \in a.protobuf_descriptor}

\* resolve_descriptor: not both; a generated one needs a package.
ResolveDescriptor(a) ==
    /\ Cardinality(ProtobufConfig(a)) <= 1
    /\ ProtobufConfig(a) = {} => a.protobuf_package

\* build_transcoder: the descriptor has the message.
BuildTranscoder(a) == ResolveDescriptor(a) /\ a.protobuf_message = "found"

\* Pipeline::load: the key column is in the schema; then the transcoder is built, or
\* the value column is in the schema too.
Encodable(a) ==
    /\ a.key_column # "absent"
    /\ IF a.protobuf_message = "off" THEN a.value_column # "absent" ELSE BuildTranscoder(a)

\* What run checks of every command line.
Checked(a) == a.block_size /\ BuildPipeline(a)

\* SnapshotLoader::new: the number of partitions is a power of two.
LayoutValid(a) == a.partitions

\* What is checked when the sources are about to be used.
Usable(a) == Encodable(a) /\ (a.mode = "load" => a.output /\ LayoutValid(a))

Validate ==
    /\ main = "start" /\ Checked(args) /\ args.mode = "dry_run"
    /\ main' = "validated" /\ validated' = TRUE
    /\ UNCHANGED <<args, joined, awaited, n_keys, streams, writers, faults>>

Refuse ==
    /\ main = "start"
    /\ ~Checked(args) \/ (args.mode # "dry_run" /\ ~Usable(args))
    /\ main' = "refused"
    /\ UNCHANGED <<command, joined, awaited, n_keys, streams, writers, faults>>

\* The run ends with the error of what it waited for.
GivesUp ==
    /\ main' = "exited" /\ Fault("open")
    /\ UNCHANGED <<command, joined, awaited, n_keys, streams, writers>>

OpenSessionFails ==
    /\ main = "start" /\ Checked(args) /\ FromSession(args)
    /\ GivesUp

\* The file cannot be read, or no schema can be inferred from its first rows.
OpenCsvFails ==
    /\ main = "start" /\ Checked(args) /\ ~FromSession(args)
    /\ GivesUp

DownloadFails ==
    /\ main = "start" /\ Checked(args) /\ args.mode # "dry_run" /\ Usable(args)
    /\ args.protobuf_message # "off" /\ ProtobufConfig(args) = {"descriptor_uri"}
    /\ GivesUp

\* A session has as many streams as the service chooses, a CSV is one source.
OpenedStreams(a) == IF FromSession(a) THEN 0 .. Len(Feed) ELSE {1}

\* limit_sources gives the sources their shared budget; the tasks are spawned.
OpenSources ==
    /\ opened' \in OpenedStreams(args)
    /\ remaining' = IF args.max_rows = NoLimit THEN 0 ELSE args.max_rows
    /\ main' = "join"
    /\ UNCHANGED <<task, progress, granted>>

StartBenchmark ==
    /\ main = "start" /\ Checked(args) /\ args.mode = "benchmark" /\ Usable(args)
    /\ OpenSources
    /\ UNCHANGED <<command, joined, awaited, n_keys, writers, faults>>

\* ScatterPhase::new spawns one writer per partition on the blocking pool.
StartScatter ==
    /\ main = "start" /\ Checked(args) /\ args.mode = "load" /\ Usable(args)
    /\ OpenSources
    /\ writer' = [p \in Partition |-> "queued"]
    /\ UNCHANGED <<command, joined, awaited, n_keys, chan, appended, faults>>

\* The command line that passed a dry run is used for the load.
RunForReal ==
    /\ main = "validated"
    /\ args' = [args EXCEPT !.mode = "load"] /\ main' = "start"
    /\ UNCHANGED <<validated, joined, awaited, n_keys, streams, writers, faults>>

-----------------------------------------------------------------------------
(* A stream task: next_batch, then scatter_batch, until the end of stream    *)

Running == main \in {"join", "await", "error"}
Limited == args.max_rows # NoLimit
At(s, pc) == Running /\ s <= opened /\ task[s].pc = pc

Goto(s, pc) == task' = [task EXCEPT ![s].pc = pc]

\* LimitedSource: a budget that is spent ends the stream before anything is read.
CheckBudget(s) ==
    /\ At(s, "next")
    /\ Goto(s, IF Limited /\ remaining <= 0 THEN "ended" ELSE "fetch")
    /\ UNCHANGED <<command, mainvars, opened, remaining, progress, granted, writers, faults>>

EndOfStream(s) ==
    /\ At(s, "fetch") /\ task[s].next > Len(Feed[s])
    /\ Goto(s, "ended")
    /\ UNCHANGED <<command, mainvars, opened, remaining, progress, granted, writers, faults>>

\* The read, the decoding or the transcoding of a batch fails.
SourceFails(s) ==
    /\ At(s, "fetch") /\ Fault("source")
    /\ Goto(s, "failed")
    /\ UNCHANGED <<command, mainvars, opened, remaining, progress, granted, writers>>

Least(a, b) == IF a < b THEN a ELSE b

\* Mutant of Granted: the batch that crosses the limit is passed on whole.
GrantedWhole(n) ==
    IF ~Limited THEN n ELSE IF remaining <= 0 THEN 0 ELSE n

\* take_from_budget: how many of the n rows of a batch are passed on.
Granted(n) ==
    IF ~Limited THEN n ELSE IF remaining <= 0 THEN 0 ELSE Least(n, remaining)

Field(row) == Feed[row[1]][row[2]][row[3]]

KeyTypes == {"bytes", "integer"}
ByteTypes == {"bytes"}

\* encode_batch refuses a null key.
ProtobufEncodes(rows) ==
    args.key_column \in KeyTypes /\ \A i \in DOMAIN rows : ~Field(rows[i]).null

\* from_record_batch looks at the types only.
RawEncodes == args.key_column \in KeyTypes /\ args.value_column \in ByteTypes

Encodes(rows) == IF args.protobuf_message = "off" THEN RawEncodes ELSE ProtobufEncodes(rows)

Oversized(rows) == \E i \in DOMAIN rows : Field(rows[i]).oversized

\* Mutant of Routed: the rows of a partition are taken from the end of the batch.
RoutedBackwards(rows) ==
    LET Of(p) == SelectSeq(rows, LAMBDA row : Field(row).part = p)
    IN  [p \in Partition |-> [i \in DOMAIN Of(p) |-> Of(p)[Len(Of(p)) + 1 - i]]]

Routed(rows) == [p \in Partition |-> SelectSeq(rows, LAMBDA row : Field(row).part = p)]

\* benchmark_download counts a batch and drops it.
Counted(t, rows) == [t EXCEPT !.n_keys = @ + Len(rows), !.next = @ + 1, !.pc = "send"]

\* scatter_batch walks the batch; one oversized value fails it before any is sent.
Scattered(t, rows) ==
    IF Oversized(rows) THEN [t EXCEPT !.pc = "failed"]
    ELSE [Counted(t, rows) EXCEPT !.sub = Routed(rows)]

\* What becomes of a task with the rows that the budget left it.
Taken(t, rows) ==
    IF ~Encodes(rows) THEN [t EXCEPT !.pc = "failed"]
    ELSE IF args.mode = "load" THEN Scattered(t, rows) ELSE Counted(t, rows)

\* A batch arrives, takes its rows from the budget, and is encoded and routed.
Receive(s) ==
    /\ At(s, "fetch") /\ task[s].next <= Len(Feed[s])
    /\ LET n == Len(Feed[s][task[s].next])
           rows == [i \in 1 .. Granted(n) |-> <<s, task[s].next, i>>]
       IN  /\ task' = [task EXCEPT ![s] = IF Limited /\ remaining <= 0
                                          THEN [@ EXCEPT !.pc = "ended"] ELSE Taken(@, rows)]
           /\ granted' = granted + Granted(n)
           /\ remaining' = IF Limited THEN remaining - n ELSE remaining
    /\ UNCHANGED <<command, mainvars, opened, progress, writers, faults>>

Pending(s) == {p \in Partition : task[s].sub[p] # <<>>}

\* The loop of scatter_batch goes through the partitions in their order.
Turn(s) == CHOOSE p \in Pending(s) : \A q \in Pending(s) : p <= q

Capacity == IF ChannelCapacity = 0 THEN 1 ELSE ChannelCapacity

\* Mutant of Send: a sub-batch that finds the channel full is dropped.
SendLossy(s) ==
    /\ At(s, "send") /\ Pending(s) # {} /\ writer[Turn(s)] # "failed"
    /\ chan' = [chan EXCEPT ![Turn(s)] = IF Len(@) < Capacity THEN Append(@, task[s].sub[Turn(s)]) ELSE @]
    /\ task' = [task EXCEPT ![s].sub[Turn(s)] = <<>>]
    /\ UNCHANGED <<command, mainvars, opened, remaining, progress, granted, writer, appended, faults>>

\* send waits while the channel is full.
Send(s) ==
    /\ At(s, "send") /\ Pending(s) # {} /\ writer[Turn(s)] # "failed"
    /\ Len(chan[Turn(s)]) < Capacity
    /\ chan' = [chan EXCEPT ![Turn(s)] = Append(@, task[s].sub[Turn(s)])]
    /\ task' = [task EXCEPT ![s].sub[Turn(s)] = <<>>]
    /\ UNCHANGED <<command, mainvars, opened, remaining, progress, granted, writer, appended, faults>>

\* The writer of the partition is gone, and its receiver with it.
SendBroken(s) ==
    /\ At(s, "send") /\ Pending(s) # {} /\ writer[Turn(s)] = "failed"
    /\ Goto(s, "failed")
    /\ UNCHANGED <<command, mainvars, opened, remaining, progress, granted, writers, faults>>

\* The progress callback; the load sets progress_interval to 0.
Report(s) ==
    /\ At(s, "send") /\ Pending(s) = {}
    /\ task' = [task EXCEPT ![s].pc = "next", ![s].told = task[s].n_keys]
    /\ progress' = progress + (task[s].n_keys - task[s].told)
    /\ UNCHANGED <<command, mainvars, opened, remaining, granted, writers, faults>>

\* The reporter logs at its interval, also while nothing else moves.
Tick == Running /\ UNCHANGED vars

-----------------------------------------------------------------------------
(* partition_writer                                                         *)

Busy == {p \in Partition : writer[p] = "running"}
Queued == {p \in Partition : writer[p] = "queued"}

\* The pool starts what was spawned in order, when it has a thread.
StartWriter(p) ==
    /\ Running /\ p \in Queued /\ \A q \in Queued : p <= q
    /\ Cardinality(Busy) < BlockingThreads
    /\ writer' = [writer EXCEPT ![p] = "running"]
    /\ UNCHANGED <<command, mainvars, streams, chan, appended, faults>>

WriteBatch(p) ==
    /\ Running /\ writer[p] = "running" /\ chan[p] # <<>>
    /\ appended' = [appended EXCEPT ![p] = @ \o Head(chan[p])]
    /\ chan' = [chan EXCEPT ![p] = Tail(@)]
    /\ UNCHANGED <<command, mainvars, streams, writer, faults>>

\* append fails somewhere in the batch; the receiver goes with the writer.
AppendFails(p) ==
    /\ Running /\ writer[p] = "running" /\ chan[p] # <<>> /\ Fault("write")
    /\ \E k \in 0 .. Len(Head(chan[p])) - 1 :
          appended' = [appended EXCEPT ![p] = @ \o SubSeq(Head(chan[p]), 1, k)]
    /\ chan' = [chan EXCEPT ![p] = <<>>]
    /\ writer' = [writer EXCEPT ![p] = "failed"]
    /\ UNCHANGED <<command, mainvars, streams>>

\* Mutant of SendersDropped: finish keeps the senders of the phase.
SendersKept ==
    /\ main = "error"
    /\ \A s \in 1 .. opened : task[s].pc \in {"ended", "failed"}

\* finish drops the senders of the phase and of the fan-outs it was given; an error
\* drops the phase, and a task that has ended holds none.
SendersDropped ==
    /\ main \in {"await", "error"}
    /\ \A s \in 1 .. opened : task[s].pc \in {"ended", "failed"}

FinishWriter(p) ==
    /\ Running /\ writer[p] = "running" /\ chan[p] = <<>> /\ SendersDropped
    /\ writer' = [writer EXCEPT ![p] = "finished"]
    /\ UNCHANGED <<command, mainvars, streams, chan, appended, faults>>

FinishFails(p) ==
    /\ Running /\ writer[p] = "running" /\ chan[p] = <<>> /\ SendersDropped /\ Fault("write")
    /\ writer' = [writer EXCEPT ![p] = "failed"]
    /\ UNCHANGED <<command, mainvars, streams, chan, appended>>

-----------------------------------------------------------------------------
(* run_scatter_sources and benchmark_download join in order; finish          *)

JoinTask ==
    /\ main = "join" /\ joined < opened /\ task[joined + 1].pc = "ended"
    /\ joined' = joined + 1
    /\ UNCHANGED <<command, main, awaited, n_keys, streams, writers, faults>>

\* The first task in order that failed ends the run; later ones are left running.
JoinFailed ==
    /\ main = "join" /\ joined < opened /\ task[joined + 1].pc = "failed"
    /\ main' = "error"
    /\ UNCHANGED <<command, joined, awaited, n_keys, streams, writers, faults>>

AllJoined ==
    /\ main = "join" /\ joined = opened
    /\ main' = IF args.mode = "benchmark" THEN "drained" ELSE "await"
    /\ UNCHANGED <<command, joined, awaited, n_keys, streams, writers, faults>>

AwaitWriter ==
    /\ main = "await" /\ awaited < NPartitions /\ writer[awaited + 1] = "finished"
    /\ awaited' = awaited + 1
    /\ UNCHANGED <<command, main, joined, n_keys, streams, writers, faults>>

AwaitFailed ==
    /\ main = "await" /\ awaited < NPartitions /\ writer[awaited + 1] = "failed"
    /\ main' = "error"
    /\ UNCHANGED <<command, joined, awaited, n_keys, streams, writers, faults>>

\* scatter.done carries the counts of the writers.
WriteScatterDone ==
    /\ main = "await" /\ awaited = NPartitions
    /\ main' = "sealed" /\ n_keys' = MapThenSumSet(LAMBDA p : Len(appended[p]), Partition)
    /\ UNCHANGED <<command, joined, awaited, streams, writers, faults>>

SentinelFails ==
    /\ main = "await" /\ awaited = NPartitions /\ Fault("write")
    /\ main' = "error"
    /\ UNCHANGED <<command, joined, awaited, n_keys, streams, writers>>

\* main calls process::exit with the error.
Exit ==
    /\ main = "error"
    /\ main' = "exited"
    /\ UNCHANGED <<command, joined, awaited, n_keys, streams, writers, faults>>

Over == main \in {"sealed", "drained", "refused", "exited"}

Finished == Over /\ UNCHANGED vars

StreamStep(s) ==
    \/ CheckBudget(s) \/ EndOfStream(s) \/ Receive(s)
    \/ Send(s) \/ SendBroken(s) \/ Report(s)
WriterStep(p) == StartWriter(p) \/ WriteBatch(p) \/ FinishWriter(p)
MainStep ==
    \/ JoinTask \/ JoinFailed \/ AllJoined
    \/ AwaitWriter \/ AwaitFailed \/ WriteScatterDone \/ Exit

Next ==
    \/ Validate \/ Refuse \/ OpenSessionFails \/ OpenCsvFails \/ DownloadFails
    \/ StartBenchmark \/ StartScatter \/ RunForReal
    \/ \E s \in Stream : StreamStep(s) \/ SourceFails(s)
    \/ \E p \in Partition : WriterStep(p) \/ AppendFails(p) \/ FinishFails(p)
    \/ MainStep \/ SentinelFails
    \/ Tick \/ Finished

Spec == Init /\ [][Next]_vars

\* The runtime polls every task and thread that can go on.
Fairness ==
    /\ \A s \in Stream : WF_vars(StreamStep(s))
    /\ \A p \in Partition : WF_vars(WriterStep(p))
    /\ WF_vars(MainStep)

FairSpec == Spec /\ Fairness

-----------------------------------------------------------------------------
PipelineTypeOK ==
    /\ args \in LoadArgs /\ validated \in BOOLEAN
    /\ main \in {"start", "validated", "refused", "join", "drained", "await", "sealed", "error", "exited"}
    /\ joined \in 0 .. opened /\ opened \in 0 .. Len(Feed) /\ awaited \in 0 .. NPartitions
    /\ task \in [Stream -> [pc : {"next", "fetch", "send", "ended", "failed"}, next : Nat \ {0},
                            sub : [Partition -> Seq(Stream \X Nat \X Nat)], n_keys : Nat, told : Nat]]
    /\ remaining \in Int /\ progress \in Nat /\ granted \in Nat /\ n_keys \in Nat \union {-1}
    /\ chan \in [Partition -> Seq(Seq(Stream \X Nat \X Nat))]
    /\ appended \in [Partition -> Seq(Stream \X Nat \X Nat)]
    /\ writer \in [Partition -> {"none", "queued", "running", "finished", "failed"}]
    /\ faults \in 0 .. MaxFaults

\* The streams never take more rows than --max-rows together, however many of them
\* saw a budget left before they read their batch.
RowCapKept == Limited => granted <= args.max_rows

\* Why: until the budget is overdrawn what is left of it and what was passed on make
\* up the cap; the batch that overdraws it is passed on only up to the cap.
BudgetInv ==
    /\ args \in LoadArgs /\ remaining \in Int /\ granted \in Nat
    /\ main \in {"start", "validated"} => granted = 0
    /\ Limited => IF remaining > 0 THEN granted + remaining = args.max_rows
                                   ELSE granted <= args.max_rows

Available == MapThenSumSet(LAMBDA s : MapThenSumSet(LAMBDA b : Len(Feed[s][b]), DOMAIN Feed[s]), 1 .. opened)

\* A run that ends well has passed on exactly as many rows as the cap and the
\* sources allow, and the progress reporter has counted them all.
AllPassedOn ==
    /\ granted = IF Limited THEN Least(args.max_rows, Available) ELSE Available
    /\ progress = granted

Rows(p) == {appended[p][i] : i \in DOMAIN appended[p]}

\* scatter.done is written only when no stream and no writer failed, and it stands
\* for every row that passed the budget, once, in the files of its partition; its
\* count is theirs.
ScatteredWhole ==
    /\ main = "sealed" =>
          /\ AllPassedOn
          /\ n_keys = granted
          /\ \A p \in Partition :
                /\ Cardinality(Rows(p)) = Len(appended[p])
                /\ \A row \in Rows(p) : Field(row).part = p
          /\ \A s \in 1 .. opened : task[s].pc = "ended"
    /\ main = "drained" => AllPassedOn

\* No task has failed, and no sub-batch waits, behind a scatter.done: it is written
\* when every stream was joined and every writer awaited, in whatever order they
\* ended (run_scatter_sources and ScatterPhase::finish).
SealedIsClean ==
    main = "sealed" =>
        /\ \A s \in 1 .. opened : task[s].pc = "ended"
        /\ \A p \in Partition : writer[p] = "finished" /\ chan[p] = <<>>

\* Why: what was joined has ended for good, and a writer that has finished saw its
\* channel empty when nobody was left to send.
JoinInv ==
    /\ opened \in 0 .. Len(Feed) /\ joined \in 0 .. opened /\ awaited \in 0 .. NPartitions
    /\ DOMAIN chan = Partition /\ DOMAIN writer = Partition
    /\ \A s \in 1 .. joined : task[s].pc = "ended"
    /\ main \in {"await", "sealed"} => joined = opened
    /\ main = "sealed" => awaited = NPartitions
    /\ main \in {"start", "validated"} => joined = 0 /\ \A p \in Partition : writer[p] = "none"
    /\ \A p \in 1 .. awaited : writer[p] = "finished"
    /\ \A p \in Partition : writer[p] = "finished" =>
          /\ chan[p] = <<>>
          /\ \A s \in 1 .. opened : task[s].pc \in {"ended", "failed"}

Before(r, q) == r[2] < q[2] \/ (r[2] = q[2] /\ r[3] < q[3])

\* The rows of one stream reach a partition's files in the order of the stream,
\* also when the load fails and whatever the other streams do.
StreamOrderKept ==
    \A p \in Partition : \A i, j \in DOMAIN appended[p] :
        (i < j /\ appended[p][i][1] = appended[p][j][1]) => Before(appended[p][i], appended[p][j])

\* Once the tasks are spawned the run ends: with scatter.done, with the benchmark's
\* figures, or with the error of a stream or writer that failed.
PipelineEnds == (main = "join") ~> Over

\* What the comment at the block-size check of run promises for --dry-run: a
\* command line that passed it is not refused when it is run for real.
DryRunKeepsPromise == validated => main # "refused"
=============================================================================
