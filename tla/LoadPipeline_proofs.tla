------------------------- MODULE LoadPipeline_proofs -------------------------
(***************************************************************************)
(* The row cap and the meaning of scatter.done, for every feed, number of   *)
(* partitions, channel capacity, number of threads and set of faults.       *)
(***************************************************************************)
EXTENDS LoadPipeline, TLAPS

\* t has the fields of a task, whatever its rows and counts, and the number of the
\* batch it reads next.
TaskPc == {"next", "fetch", "send", "ended", "failed"}
TaskType(S, N) == [pc : TaskPc, next : Nat \ {0}, sub : S, n_keys : N, told : N]
IsTask(t) == \E S, N : t \in TaskType(S, N)

TasksInv == task = [s \in Stream |-> task[s]] /\ \A s \in Stream : IsTask(task[s])

-----------------------------------------------------------------------------
(* The tasks                                                                *)

\* What an update of some of its fields leaves of a task.
LEMMA TaskNext ==
    ASSUME NEW t, IsTask(t)
    PROVE  t.next \in Nat \ {0}
BY DEF IsTask, TaskType

LEMMA TaskGoes ==
    ASSUME NEW t, IsTask(t), NEW pc \in TaskPc
    PROVE  IsTask([t EXCEPT !.pc = pc]) /\ [t EXCEPT !.pc = pc].pc = pc
<1>1. PICK S, N : t \in TaskType(S, N)
  BY DEF IsTask
<1>2. [t EXCEPT !.pc = pc] \in TaskType(S, N) /\ [t EXCEPT !.pc = pc].pc = pc
  BY <1>1 DEF TaskType
<1> QED
  BY <1>2 DEF IsTask

LEMMA TaskRouted ==
    ASSUME NEW t, IsTask(t), NEW v
    PROVE  IsTask([t EXCEPT !.sub = v]) /\ [t EXCEPT !.sub = v].pc = t.pc
<1>1. PICK S, N : t \in TaskType(S, N)
  BY DEF IsTask
<1>2. [t EXCEPT !.sub = v] \in TaskType(S \union {v}, N) /\ [t EXCEPT !.sub = v].pc = t.pc
  BY <1>1 DEF TaskType
<1> QED
  BY <1>2 DEF IsTask

LEMMA TaskReports ==
    ASSUME NEW t, IsTask(t), NEW pc \in TaskPc, NEW v
    PROVE  IsTask([t EXCEPT !.pc = pc, !.told = v])
<1>1. PICK S, N : t \in TaskType(S, N)
  BY DEF IsTask
<1>2. [t EXCEPT !.pc = pc, !.told = v] \in TaskType(S, N \union {v})
  BY <1>1, Zenon DEF TaskType
<1> QED
  BY <1>2 DEF IsTask

LEMMA TaskCounts ==
    ASSUME NEW t, IsTask(t), NEW n \in Nat \ {0}, NEW v
    PROVE  IsTask([t EXCEPT !.n_keys = v, !.next = n, !.pc = "send"])
<1>1. PICK S, N : t \in TaskType(S, N)
  BY DEF IsTask
<1>2. [t EXCEPT !.n_keys = v, !.next = n, !.pc = "send"] \in TaskType(S, N \union {v})
  BY <1>1, Zenon DEF TaskType, TaskPc
<1> QED
  BY <1>2 DEF IsTask

\* A batch that was received leaves a task a task.
LEMMA TakenIsTask ==
    ASSUME NEW t, IsTask(t), NEW rows
    PROVE  IsTask(Taken(t, rows))
<1>1. IsTask([t EXCEPT !.pc = "failed"])
  BY TaskGoes, "failed" \in TaskPc, Zenon DEF TaskPc
<1>2. IsTask(Counted(t, rows))
  <2>1. t.next + 1 \in Nat \ {0}
    BY TaskNext
  <2> QED
    BY <2>1, TaskCounts, Zenon DEF Counted
<1>3. IsTask(Scattered(t, rows))
  BY <1>1, <1>2, TaskRouted, Zenon DEF Scattered
<1> QED
  BY <1>1, <1>2, <1>3, Zenon DEF Taken

\* One task changes, and stays a task.
LEMMA TaskUpdate ==
    ASSUME TasksInv, NEW s \in Stream, NEW t, IsTask(t), task' = [task EXCEPT ![s] = t]
    PROVE  TasksInv' /\ task'[s] = t /\ \A q \in Stream : q # s => task'[q] = task[q]
BY DEF TasksInv, Stream

\* Only the steps of a stream touch the tasks.
LEMMA StreamTasks ==
    ASSUME TasksInv, NEW s \in Stream, StreamStep(s) \/ SourceFails(s)
    PROVE  \E t : IsTask(t) /\ task' = [task EXCEPT ![s] = t]
<1>1. IsTask(task[s])
  BY DEF TasksInv
<1>2. \A pc \in TaskPc : IsTask([task[s] EXCEPT !.pc = pc])
  BY <1>1, TaskGoes, Zenon
<1>3. CASE CheckBudget(s) \/ EndOfStream(s) \/ SourceFails(s) \/ SendBroken(s)
  <2>1. PICK pc \in TaskPc : task' = [task EXCEPT ![s].pc = pc]
    BY <1>3, Zenon DEF CheckBudget, EndOfStream, SourceFails, SendBroken, Goto, TaskPc
  <2> QED
    BY <1>2, <2>1, Zenon
<1>4. CASE Receive(s)
  <2>1. "ended" \in TaskPc
    BY DEF TaskPc
  <2> QED
    BY <1>1, <1>2, <1>4, <2>1, TakenIsTask, Zenon DEF Receive
<1>5. CASE Send(s)
  BY <1>1, <1>5, TaskRouted, Zenon DEF Send
<1>6. CASE Report(s)
  <2>1. "next" \in TaskPc
    BY DEF TaskPc
  <2> QED
    BY <1>1, <1>6, <2>1, TaskReports, Zenon DEF Report
<1> QED
  BY <1>3, <1>4, <1>5, <1>6 DEF StreamStep

\* The steps of the main task and of the writers, and a stutter, leave the tasks, the
\* budget and what was passed on alone; only Validate, of them, may lead to validated,
\* and none leads back to start.
Aside ==
    \/ Validate \/ Refuse \/ OpenSessionFails \/ OpenCsvFails \/ DownloadFails
    \/ \E p \in Partition : WriterStep(p) \/ AppendFails(p) \/ FinishFails(p)
    \/ MainStep \/ SentinelFails \/ UNCHANGED vars

LEMMA AsideKeeps ==
    ASSUME Aside
    PROVE  /\ UNCHANGED <<args, task, opened, remaining, granted>>
           /\ main' \in {"start", "validated"} => main \in {"start", "validated"}
<1> USE DEF vars, command, mainvars, streams, writers
<1>1. CASE Validate \/ Refuse
  BY <1>1 DEF Validate, Refuse
<1>2. CASE OpenSessionFails \/ OpenCsvFails \/ DownloadFails
  BY <1>2 DEF OpenSessionFails, OpenCsvFails, DownloadFails, GivesUp
<1>3. CASE \E p \in Partition : WriterStep(p) \/ AppendFails(p) \/ FinishFails(p)
  BY <1>3, Zenon DEF WriterStep, StartWriter, WriteBatch, FinishWriter, AppendFails, FinishFails
<1>4. CASE MainStep \/ SentinelFails
  BY <1>4, Zenon DEF MainStep, JoinTask, JoinFailed, AllJoined, AwaitWriter, AwaitFailed, WriteScatterDone, Exit, SentinelFails
<1>5. CASE UNCHANGED vars
  BY <1>5
<1> QED
  BY <1>1, <1>2, <1>3, <1>4, <1>5 DEF Aside

\* Every step is one of these, starts the tasks, starts over, or is a stream's.
LEMMA Steps ==
    ASSUME [Next]_vars
    PROVE  \/ Aside \/ StartBenchmark \/ StartScatter \/ RunForReal
           \/ \E s \in Stream : StreamStep(s) \/ SourceFails(s)
BY DEF Next, Aside, Tick, Finished

LEMMA InitTasks == Init => TasksInv
<1> SUFFICES ASSUME Init PROVE TasksInv
  OBVIOUS
<1>1. NewTask \in TaskType({NoRows}, {0})
  BY DEF NewTask, TaskType, TaskPc
<1>2. IsTask(NewTask)
  BY <1>1 DEF IsTask
<1> QED
  BY <1>2 DEF Init, TasksInv

LEMMA NextTasks == TasksInv /\ [Next]_vars => TasksInv'
<1> SUFFICES ASSUME TasksInv, [Next]_vars PROVE TasksInv'
  OBVIOUS
<1>1. CASE task' = task
  BY <1>1 DEF TasksInv
<1>2. CASE \E s \in Stream : StreamStep(s) \/ SourceFails(s)
  BY <1>2, StreamTasks, TaskUpdate, Zenon
<1>3. CASE StartBenchmark \/ StartScatter \/ RunForReal
  BY <1>1, <1>3 DEF StartBenchmark, StartScatter, RunForReal, OpenSources, streams
<1> QED
  BY <1>1, <1>2, <1>3, Steps, AsideKeeps

-----------------------------------------------------------------------------
(* The row cap                                                              *)

LEMMA BatchLength ==
    ASSUME TasksInv, NEW s \in Stream, task[s].next <= Len(Feed[s])
    PROVE  Len(Feed[s][task[s].next]) \in Nat
<1>1. Feed[s] \in Seq(Seq([part : Partition, oversized : BOOLEAN, null : BOOLEAN]))
  BY PipelineAssumption DEF Stream
<1>2. task[s].next \in Nat \ {0}
  BY TaskNext, Zenon DEF TasksInv
<1>3. Feed[s][task[s].next] \in Seq([part : Partition, oversized : BOOLEAN, null : BOOLEAN])
  BY <1>1, <1>2
<1> QED
  BY <1>3

LEMMA InitBudget == Init => BudgetInv
BY PipelineAssumption DEF Init, BudgetInv, Limited, LoadArgs

LEMMA ReceiveBudget ==
    ASSUME TasksInv, BudgetInv, NEW s \in Stream, Receive(s)
    PROVE  BudgetInv'
<1> DEFINE n == Len(Feed[s][task[s].next])
<1>1. n \in Nat
  BY BatchLength DEF Receive
<1>2. /\ args' = args /\ main' = main /\ main \notin {"start", "validated"}
      /\ granted' = granted + Granted(n)
      /\ remaining' = IF Limited THEN remaining - n ELSE remaining
  BY DEF Receive, At, Running, command, mainvars
<1> HIDE DEF n
<1>3. args.max_rows \in Nat \union {NoLimit}
  BY DEF BudgetInv, LoadArgs
<1>4. CASE ~Limited
  BY <1>1, <1>2, <1>4 DEF BudgetInv, Limited, Granted
<1>5. CASE Limited /\ remaining <= 0
  BY <1>1, <1>2, <1>3, <1>5 DEF BudgetInv, Limited, Granted
<1>6. CASE Limited /\ remaining > 0
  <2>1. args.max_rows \in Nat /\ granted + remaining = args.max_rows /\ Granted(n) = Least(n, remaining)
    BY <1>3, <1>6 DEF BudgetInv, Limited, Granted
  <2> QED
    BY <1>1, <1>2, <1>6, <2>1 DEF BudgetInv, Limited, Least
<1> QED
  BY <1>4, <1>5, <1>6 DEF BudgetInv

LEMMA NextBudget == TasksInv /\ BudgetInv /\ [Next]_vars => BudgetInv'
<1> SUFFICES ASSUME TasksInv, BudgetInv, [Next]_vars PROVE BudgetInv'
  OBVIOUS
<1>1. ASSUME UNCHANGED <<args, remaining, granted>>,
             main' \in {"start", "validated"} => main \in {"start", "validated"}
      PROVE  BudgetInv'
  BY <1>1 DEF BudgetInv, Limited
<1>2. CASE Aside
  BY <1>1, <1>2, AsideKeeps
<1>3. CASE StartBenchmark \/ StartScatter
  <2>1. /\ args' = args /\ granted' = granted /\ main = "start" /\ main' = "join"
        /\ remaining' = IF args.max_rows = NoLimit THEN 0 ELSE args.max_rows
    BY <1>3 DEF StartBenchmark, StartScatter, OpenSources, command
  <2>2. args.max_rows \in Nat \union {NoLimit}
    BY DEF BudgetInv, LoadArgs
  <2> QED
    BY <2>1, <2>2, PipelineAssumption DEF BudgetInv, Limited
<1>4. CASE RunForReal
  <2>1. args \in LoadArgs /\ args' = [args EXCEPT !.mode = "load"]
    BY <1>4 DEF RunForReal, BudgetInv
  <2>2. args' \in LoadArgs /\ args'.max_rows = args.max_rows
    BY <2>1 DEF LoadArgs
  <2>3. remaining' = remaining /\ granted' = granted /\ main = "validated"
    BY <1>4 DEF RunForReal, streams
  <2> QED
    BY <2>2, <2>3 DEF BudgetInv, Limited
<1>5. ASSUME NEW s \in Stream, StreamStep(s) \/ SourceFails(s) PROVE BudgetInv'
  <2>1. CASE Receive(s)
    BY <2>1, ReceiveBudget
  <2>2. CASE ~Receive(s)
    BY <1>1, <1>5, <2>2 DEF StreamStep, CheckBudget, EndOfStream, Send, SendBroken, Report, SourceFails, command, mainvars
  <2> QED
    BY <2>1, <2>2
<1> QED
  BY <1>2, <1>3, <1>4, <1>5, Steps

\* The streams together never pass on more rows than --max-rows, for every feed,
\* number of streams and interleaving of their budget checks and reads.
THEOREM RowCapAlways == Spec => []RowCapKept
<1>1. BudgetInv => RowCapKept
  BY PipelineAssumption DEF BudgetInv, RowCapKept, Limited, LoadArgs
<1> QED
  BY <1>1, InitTasks, NextTasks, InitBudget, NextBudget, PTL DEF Spec

-----------------------------------------------------------------------------
(* What scatter.done means                                                  *)

\* A stream that takes a step had not ended, and leaves the others, the main task and
\* the writers as they are.
LEMMA StreamMoves ==
    ASSUME TasksInv, NEW s \in Stream, StreamStep(s) \/ SourceFails(s)
    PROVE  /\ s <= opened /\ task[s].pc \notin {"ended", "failed"}
           /\ \A q \in Stream : q # s => task'[q] = task[q]
           /\ UNCHANGED <<main, joined, awaited, opened, writer>> /\ DOMAIN chan' = DOMAIN chan
<1>1. \A q \in Stream : q # s => task'[q] = task[q]
  BY StreamTasks, TaskUpdate, Zenon
<1>2. s <= opened /\ task[s].pc \in {"next", "fetch", "send"}
  BY DEF StreamStep, SourceFails, CheckBudget, EndOfStream, Receive, Send, SendBroken, Report, At
<1>3. UNCHANGED <<main, joined, awaited, opened, writer>> /\ DOMAIN chan' = DOMAIN chan
  BY DEF StreamStep, SourceFails, CheckBudget, EndOfStream, Receive, Send, SendBroken, Report, mainvars, writers
<1> QED
  BY <1>1, <1>2, <1>3

LEMMA InitJoin == Init => JoinInv
BY PipelineAssumption DEF Init, JoinInv, Stream, NewTask, NoRows

LEMMA StreamJoin ==
    ASSUME TasksInv, JoinInv, NEW s \in Stream, StreamStep(s) \/ SourceFails(s)
    PROVE  JoinInv'
<1>1. /\ s \in 1 .. opened /\ task[s].pc \notin {"ended", "failed"}
      /\ \A q \in Stream : q # s => task'[q] = task[q]
      /\ UNCHANGED <<main, joined, awaited, opened, writer>> /\ DOMAIN chan' = DOMAIN chan
  BY StreamMoves DEF Stream
<1>2. \A p \in Partition : writer[p] # "finished"
  BY <1>1 DEF JoinInv
<1>3. \A q \in 1 .. joined : q \in Stream /\ q # s
  BY <1>1, PipelineAssumption DEF JoinInv, Stream
<1> QED
  BY <1>1, <1>2, <1>3 DEF JoinInv

LEMMA WriterJoin ==
    ASSUME JoinInv, NEW p \in Partition, WriterStep(p) \/ AppendFails(p) \/ FinishFails(p)
    PROVE  JoinInv'
<1>0. DOMAIN chan = Partition /\ DOMAIN writer = Partition
  BY DEF JoinInv
<1>1. /\ UNCHANGED <<main, joined, awaited, opened, task>> /\ Running
      /\ DOMAIN chan' = Partition /\ DOMAIN writer' = Partition
      /\ writer[p] \in {"queued", "running"}
  BY <1>0, Zenon DEF WriterStep, StartWriter, WriteBatch, FinishWriter, AppendFails, FinishFails, Queued, mainvars, streams
<1>2. \A q \in Partition : q # p => writer'[q] = writer[q] /\ chan'[q] = chan[q]
  BY <1>0, Zenon DEF WriterStep, StartWriter, WriteBatch, FinishWriter, AppendFails, FinishFails
<1>3. writer'[p] = "finished" => chan'[p] = <<>> /\ \A s \in 1 .. opened : task[s].pc \in {"ended", "failed"}
  BY <1>0, Zenon DEF WriterStep, StartWriter, WriteBatch, FinishWriter, AppendFails, FinishFails, Queued, SendersDropped
<1>4. \A q \in 1 .. awaited : q \in Partition /\ q # p
  BY <1>1, PipelineAssumption DEF JoinInv, Partition
<1> QED
  BY <1>1, <1>2, <1>3, <1>4 DEF JoinInv, Running

LEMMA MainJoin ==
    ASSUME JoinInv, MainStep \/ SentinelFails
    PROVE  JoinInv'
<1>1. UNCHANGED <<opened, task, writer, chan>>
  BY Zenon DEF MainStep, JoinTask, JoinFailed, AllJoined, AwaitWriter, AwaitFailed, WriteScatterDone, Exit, SentinelFails, streams, writers
<1>2. CASE JoinTask
  <2>1. /\ main = "join" /\ main' = main /\ awaited' = awaited
        /\ joined < opened /\ task[joined + 1].pc = "ended" /\ joined' = joined + 1
    BY <1>2 DEF JoinTask
  <2>2. opened \in Nat /\ joined \in 0 .. opened
    BY PipelineAssumption DEF JoinInv
  <2>3. joined' \in 0 .. opened /\ \A s \in 1 .. joined' : s \in 1 .. joined \/ s = joined + 1
    BY <2>1, <2>2
  <2> QED
    BY <1>1, <2>1, <2>3 DEF JoinInv
<1>3. CASE AwaitWriter
  <2>1. /\ main = "await" /\ main' = main /\ joined' = joined
        /\ awaited < NPartitions /\ writer[awaited + 1] = "finished" /\ awaited' = awaited + 1
    BY <1>3 DEF AwaitWriter
  <2>2. NPartitions \in Nat /\ awaited \in 0 .. NPartitions
    BY PipelineAssumption DEF JoinInv
  <2>3. awaited' \in 0 .. NPartitions /\ \A p \in 1 .. awaited' : p \in 1 .. awaited \/ p = awaited + 1
    BY <2>1, <2>2
  <2> QED
    BY <1>1, <2>1, <2>3 DEF JoinInv
<1>4. CASE JoinFailed \/ AllJoined \/ AwaitFailed \/ WriteScatterDone \/ Exit \/ SentinelFails
  BY <1>1, <1>4, Zenon DEF JoinFailed, AllJoined, AwaitFailed, WriteScatterDone, Exit, SentinelFails, JoinInv
<1> QED
  BY <1>2, <1>3, <1>4 DEF MainStep

LEMMA NextJoin == TasksInv /\ JoinInv /\ [Next]_vars => JoinInv'
<1> SUFFICES ASSUME TasksInv, JoinInv, [Next]_vars PROVE JoinInv'
  OBVIOUS
<1>1. CASE Validate \/ Refuse \/ OpenSessionFails \/ OpenCsvFails \/ DownloadFails \/ RunForReal \/ UNCHANGED vars
  BY <1>1 DEF Validate, Refuse, OpenSessionFails, OpenCsvFails, DownloadFails, RunForReal, GivesUp, JoinInv,
              vars, command, mainvars, streams, writers
<1>2. CASE StartBenchmark \/ StartScatter
  <2>1. /\ main = "start" /\ main' = "join" /\ UNCHANGED <<joined, awaited, task, chan>>
        /\ opened' \in OpenedStreams(args) /\ Checked(args)
        /\ \/ writer' = writer \/ writer' = [p \in Partition |-> "queued"]
    BY <1>2 DEF StartBenchmark, StartScatter, OpenSources, writers
  <2>2. opened' \in 0 .. Len(Feed)
    BY <2>1, PipelineAssumption DEF OpenedStreams
  <2> QED
    BY <2>1, <2>2 DEF JoinInv
<1>3. CASE \E s \in Stream : StreamStep(s) \/ SourceFails(s)
  BY <1>3, StreamJoin
<1>4. CASE \E p \in Partition : WriterStep(p) \/ AppendFails(p) \/ FinishFails(p)
  BY <1>4, WriterJoin
<1>5. CASE MainStep \/ SentinelFails
  BY <1>5, MainJoin
<1> QED
  BY <1>1, <1>2, <1>3, <1>4, <1>5, Steps DEF Aside

\* scatter.done is written only behind streams that have all ended and writers that
\* have all finished with empty channels, whatever failed and in whatever order.
THEOREM SealIsClean == Spec => []SealedIsClean
<1>1. JoinInv => SealedIsClean
  BY PipelineAssumption DEF JoinInv, SealedIsClean, Partition
<1> QED
  BY <1>1, InitTasks, NextTasks, InitJoin, NextJoin, PTL DEF Spec
=============================================================================
