------------------------- MODULE RunOutcomeProofs -------------------------
(***************************************************************************)
(* More theorems about AgentRuntime, on top of the invariant IInv:         *)
(* what the rows tell clients (RowsInv), deletions (DeletionInv), and who  *)
(* ends a run (OwnedInv).  RowsInv also gives the refinement of            *)
(* RunContract.                                                            *)
(***************************************************************************)
EXTENDS RuntimeProofs

USE ChatLogAssumption, RuntimeAssumption DEF Actions, Gens

-----------------------------------------------------------------------------
(* What the rows tell clients (RowsInv).                                   *)

\* The tasks of run r only wind down, or a handler that held the run creates one.
TasksWind(r) ==
  \A g \in Gens :
    /\ Working(<<r, g>>)' => Working(<<r, g>>) \/ \E u \in Callers : InSetup(u, r)
    /\ Ending(<<r, g>>)' => Ending(<<r, g>>)
    /\ task'[<<r, g>>].pc = "record" =>
         task[<<r, g>>].pc = "record" /\ task'[<<r, g>>].seq = task[<<r, g>>].seq

SetupWinds(r) == \A u \in Callers : InSetup(u, r)' => InSetup(u, r)

\* A row that does not change goes on agreeing with tasks that wind down.
LEMMA RowSame ==
  ASSUME NEW r \in Runs, RowOf(r), run'[r] = run[r], CalmConversations,
         log'[r] = log[r] \/ conversation'[ConvOf[r]] # "ACTIVE",
         TasksWind(r), SetupWinds(r)
  PROVE  RowOf(r)'
<1>0. ConvOf[r] \in Conversations /\ (conversation'[ConvOf[r]] = "ACTIVE" => conversation[ConvOf[r]] = "ACTIVE")
  BY DEF CalmConversations
<1>1. /\ run'[r].status \in {"ABSENT", "RUNNING", "WAITING_INPUT", "SUCCEEDED", "FAILED"}
      /\ run'[r].status = "RUNNING" => run'[r].sequence = 0
  BY DEF RowOf
<1>2. Exists(r)' =>
       /\ (\E g \in Gens : Working(<<r, g>>)') \/ (\E u \in Callers : InSetup(u, r)')
            => run'[r].status = "RUNNING"
       /\ \A g \in Gens : Ending(<<r, g>>)' =>
            run'[r].status # "RUNNING" /\ run'[r].sequence = 0
  BY DEF RowOf, TasksWind, SetupWinds, Exists
<1>3. conversation'[ConvOf[r]] = "ACTIVE" =>
       /\ \A g \in Gens : task'[<<r, g>>].pc = "record" =>
            EndsAt(log'[r], task'[<<r, g>>].seq)
       /\ run'[r].sequence # 0 => EndsAt(log'[r], run'[r].sequence)
  BY <1>0 DEF RowOf, TasksWind
<1> QED BY <1>1, <1>2, <1>3 DEF RowOf, EndsAt, TerminalEvents

\* mark_interrupted on a run nobody works on.
LEMMA RowMarked ==
  ASSUME NEW r \in Runs, TypeInv, RowOf(r), MarkInterrupted(r), UNCHANGED log, TasksWind(r),
         \A g \in Gens : ~Working(<<r, g>>)',
         \A u \in Callers : ~InSetup(u, r)'
  PROVE  RowOf(r)'
<1>0. /\ UNCHANGED conversation
      /\ Exists(r)
      /\ run'[r].sequence = run[r].sequence
      /\ run'[r].status = IF run[r].status \in TerminalRunStatuses THEN run[r].status ELSE "FAILED"
  BY DEF MarkInterrupted, TypeInv, TypeOK, RunRow
<1>1. /\ run'[r].status \in {"ABSENT", "RUNNING", "WAITING_INPUT", "SUCCEEDED", "FAILED"}
      /\ run'[r].status # "RUNNING"
  BY <1>0 DEF RowOf, TerminalRunStatuses
<1>2. \A g \in Gens : Ending(<<r, g>>)' => run'[r].sequence = 0
  BY <1>0 DEF RowOf, TasksWind
<1>3. conversation'[ConvOf[r]] = "ACTIVE" =>
       /\ \A g \in Gens : task'[<<r, g>>].pc = "record" =>
            EndsAt(log'[r], task'[<<r, g>>].seq)
       /\ run'[r].sequence # 0 => EndsAt(log'[r], run'[r].sequence)
  BY <1>0 DEF RowOf, TasksWind
<1> QED BY <1>1, <1>2, <1>3 DEF RowOf, EndsAt, TerminalEvents

\* Cancelled operations mark what goes on being over.
LEMMA MarkedStays ==
  ASSUME NEW r \in Runs, HadItsLast(r),
         \A g \in Gens : /\ Live(<<r, g>>)' => Live(<<r, g>>) \/ \E u \in Callers : InSetup(u, r)
                         /\ Known(<<r, g>>) => Known(<<r, g>>)',
         SetupWinds(r),
         \A u \in Callers : caller'[u].pc = "claim" /\ caller'[u].run = r =>
           /\ caller[u].pc = "claim" /\ caller[u].run = r
           /\ caller'[u].action = caller[u].action
  PROVE  HadItsLast(r)'
BY DEF HadItsLast, SetupWinds

\* The live task of a run is the only one at work on it, or about to be.
LEMMA LiveIsAlone ==
  ASSUME RunInv, TypeInv, NEW r \in Runs, NEW g \in Gens, Live(<<r, g>>)
  PROVE  /\ \A h \in Gens : Live(<<r, h>>) => h = g
         /\ \A u \in Callers : ~InSetup(u, r)
         /\ \A u \in Callers : Resuming(u, r) => caller[u].action <= g
         /\ conversation[ConvOf[r]] = "ACTIVE" => Exists(r)
<1>1. \A h \in Gens : Live(<<r, h>>) => h = g
  BY WorkingLiveKnown DEF RunInv, LiveIsLast
<1>2. \A u \in Callers : ~InSetup(u, r)
  BY WorkingLiveKnown DEF RunInv, SetupIsExclusive
<1>3. \A u \in Callers : Resuming(u, r) => caller[u].action <= g
  BY DEF RunInv, ResumingIsCurrent, TypeInv, TypeOK, CallerState
<1>4. conversation[ConvOf[r]] = "ACTIVE" => Exists(r)
  BY WorkingLiveKnown DEF RunInv, AbsentIsUnused
<1> QED BY <1>1, <1>2, <1>3, <1>4

\* What the operation of a task does when it commits.
LEMMA TaskCommit ==
  ASSUME NEW t \in Tasks, Commit(TaskOp(t))
  PROVE  /\ UNCHANGED <<conversation, thread, memory>>
         /\ task[t].pc = "publish" =>
              AppendEvent(t[1], "progress") /\ UNCHANGED run
         /\ task[t].pc = "append" =>
              AppendEvent(t[1], EventOf(task[t].outcome)) /\ UNCHANGED run
         /\ task[t].pc = "complete" =>
              CompleteRun(t[1], task[t].outcome, t[2] + 1) /\ UNCHANGED log
         /\ task[t].pc = "record" =>
              RecordTerminalEventSequence(t[1], task[t].seq) /\ UNCHANGED log
         /\ task[t].pc \notin {"publish", "append", "complete", "record"} =>
              MarkInterrupted(t[1]) /\ UNCHANGED log
<1> DEFINE o == TaskOp(t)
<1>1. CASE task[t].pc \in {"publish", "append"}
  <2>1. /\ o.op = "append" /\ o.run = t[1]
        /\ o.event = IF task[t].pc = "publish" THEN "progress" ELSE EventOf(task[t].outcome)
    BY <1>1 DEF TaskOp, RunOp
  <2> QED BY <1>1, <2>1 DEF Commit, MySqlTransaction
<1>2. CASE task[t].pc = "complete"
  <2>1. /\ o.op = "complete" /\ o.run = t[1] /\ o.outcome = task[t].outcome
        /\ o.action = t[2] + 1
    BY <1>2 DEF TaskOp, RunOp
  <2>2. CompleteRun(o.run, o.outcome, o.action) /\ UNCHANGED <<log, thread, memory>>
    BY <2>1 DEF Commit, MySqlTransaction
  <2> QED BY <1>2, <2>1, <2>2 DEF CompleteRun
<1>3. CASE task[t].pc = "record"
  <2>1. o.op = "record" /\ o.run = t[1] /\ o.seq = task[t].seq
    BY <1>3 DEF TaskOp, RunOp
  <2>2. RecordTerminalEventSequence(o.run, o.seq) /\ UNCHANGED <<log, thread, memory>>
    BY <2>1 DEF Commit, MySqlTransaction
  <2> QED BY <1>3, <2>1, <2>2 DEF RecordTerminalEventSequence
<1>4. CASE task[t].pc \notin {"publish", "append", "complete", "record"}
  <2>1. o.op = "mark" /\ o.run = t[1]
    BY <1>4 DEF TaskOp, RunOp
  <2>2. MarkInterrupted(o.run) /\ UNCHANGED <<log, thread, memory>>
    BY <2>1 DEF Commit, MySqlTransaction
  <2> QED BY <1>4, <2>1, <2>2 DEF MarkInterrupted
<1> QED BY <1>1, <1>2, <1>3, <1>4

-----------------------------------------------------------------------------
\* The steps of a stream task.
LEMMA TaskRows ==
  ASSUME RunInv, ProcessInv, TypeInv, TypeInv', RowsInv, NEW t \in Tasks, TaskStep(t)
  PROVE  RowsInv'
<1> DEFINE r == t[1]
           g == t[2]
<1>0. /\ t = <<r, g>> /\ r \in Runs /\ g \in Gens
      /\ run \in [Runs -> RunRow] /\ log \in [Runs -> Seq(Events)] /\ task \in [Tasks -> TaskState]
      /\ TaskOp(t) \in Ops /\ OpShape(TaskOp(t))
  <2>1. StoresOK /\ TasksOK
    BY TypeSplit DEF ProcessOK
  <2>2. t = <<r, g>> /\ r \in Runs /\ g \in Gens
    BY TaskPairs
  <2>3. TaskOp(t) \in Ops /\ OpShape(TaskOp(t))
    BY <2>1, TaskOpType
  <2> QED BY <2>1, <2>2, <2>3 DEF StoresOK, TasksOK
<1>1. /\ UNCHANGED <<conversation, late, caller, phase>>
      /\ \A v \in Tasks : v # t => task'[v] = task[v]
      /\ task'[t] \in TaskState
  <2>1. UNCHANGED conversation
    BY TaskCommit DEF TaskStep, TaskBegin, TaskPublish, TaskWork, TaskStops, TaskCompletes,
       TaskAppends, TaskRecords, TaskReturns, TaskFails, TaskInterrupted, Raises, stores
  <2>2. UNCHANGED <<late, caller, phase>> /\ \A v \in Tasks : v # t => task'[v] = task[v]
    BY <1>0 DEF TaskStep, TaskBegin, TaskPublish, TaskWork, TaskStops, TaskCompletes,
       TaskAppends, TaskRecords, TaskReturns, TaskFails, TaskInterrupted, Goto, stores
  <2>3. task'[t] \in TaskState
    BY DEF TypeInv, TypeOK
  <2> QED BY <2>1, <2>2, <2>3
<1>2. Live(t) /\ Live(<<r, g>>)
  BY <1>0 DEF TaskStep, TaskBegin, TaskPublish, TaskWork, TaskStops, TaskCompletes,
     TaskAppends, TaskRecords, TaskReturns, TaskFails, TaskInterrupted, Live, LivePcs, TaskPcs
<1>3. /\ \A h \in Gens : Live(<<r, h>>) => h = g
      /\ \A u \in Callers : ~InSetup(u, r)
      /\ conversation[ConvOf[r]] = "ACTIVE" => Exists(r)
  BY <1>0, <1>2, LiveIsAlone
<1>4. \A h \in Gens : h # g => /\ task'[<<r, h>>] = task[<<r, h>>]
                              /\ ~Live(<<r, h>>)' /\ ~Working(<<r, h>>)'
                              /\ task'[<<r, h>>].pc \notin {"append", "record"}
  <2> SUFFICES ASSUME NEW h \in Gens, h # g
               PROVE  /\ task'[<<r, h>>] = task[<<r, h>>]
                      /\ ~Live(<<r, h>>)' /\ ~Working(<<r, h>>)'
                      /\ task'[<<r, h>>].pc \notin {"append", "record"}
    OBVIOUS
  <2>1. <<r, h>> \in Tasks /\ <<r, h>> # t
    BY <1>0 DEF Tasks
  <2>2. task'[<<r, h>>] = task[<<r, h>>] /\ ~Live(<<r, h>>)
    BY <1>1, <1>3, <2>1
  <2> QED BY <2>2 DEF Live, Working, LivePcs, WorkingPcs, TaskPcs
<1>5. CalmConversations /\ \A s \in Runs : SetupWinds(s)
  BY <1>1 DEF CalmConversations, SetupWinds, InSetup
<1>6. ASSUME NEW s \in Runs, s # r
      PROVE  RowOf(s)'
  <2>1. run'[s] = run[s] /\ log'[s] = log[s]
    <3>1. CASE Commit(TaskOp(t))
      <4>1. \A x : AppendEvent(r, x) => log'[s] = log[s]
        BY <1>0, <1>6 DEF AppendEvent
      <4>2. /\ \A x, n : CompleteRun(r, x, n) => run'[s] = run[s]
            /\ \A n : RecordTerminalEventSequence(r, n) => run'[s] = run[s]
            /\ MarkInterrupted(r) => run'[s] = run[s]
        BY <1>0, <1>6 DEF CompleteRun, RecordTerminalEventSequence, MarkInterrupted
      <4> QED BY <3>1, <4>1, <4>2, TaskCommit
    <3>2. CASE ~Commit(TaskOp(t))
      BY <3>2 DEF TaskStep, TaskBegin, TaskPublish, TaskWork, TaskStops, TaskCompletes,
         TaskAppends, TaskRecords, TaskReturns, TaskFails, TaskInterrupted, Raises, stores
    <3> QED BY <3>1, <3>2
  <2>2. \A h \in Gens : task'[<<s, h>>] = task[<<s, h>>]
    BY <1>0, <1>1, <1>6 DEF Tasks
  <2>3. TasksWind(s)
    BY <2>2 DEF TasksWind, Working, Ending
  <2> QED BY <1>5, <2>1, <2>3, RowSame DEF RowsInv
<1>7. MarksAreLast'
  <2> SUFFICES ASSUME NEW o \in late PROVE HadItsLast(o.run)'
    BY <1>1 DEF MarksAreLast
  <2>1. HadItsLast(o.run) /\ o.run \in Runs
    BY DEF RowsInv, MarksAreLast, ProcessInv, LateMarks, TypeInv, LateShape, OpShape
  <2>2. o.run # r
    BY <1>0, <1>2, <2>1 DEF HadItsLast
  <2>3. \A h \in Gens : task'[<<o.run, h>>] = task[<<o.run, h>>]
    BY <1>0, <1>1, <2>1, <2>2 DEF Tasks
  <2> QED BY <1>1, <1>5, <2>1, <2>3, MarkedStays DEF Live, Known
<1>8. RowOf(r)'
  <2>0. /\ RowOf(r) /\ run[r] \in RunRow /\ log[r] \in Seq(Events) /\ task[t] \in TaskState
        /\ SetupWinds(r) /\ \A u \in Callers : ~InSetup(u, r)'
    BY <1>0, <1>3, <1>5 DEF RowsInv, SetupWinds
  <2>1. ASSUME run'[r] = run[r], log'[r] = log[r],
               Working(t)' => Working(t), task'[t].pc \notin {"append", "record"}
        PROVE  RowOf(r)'
    <3>1. TasksWind(r)
      BY <1>0, <1>4, <2>1 DEF TasksWind, Ending
    <3> QED BY <1>0, <1>5, <2>0, <2>1, <3>1, RowSame
  <2>2. CASE TaskBegin(t) \/ TaskWork(t) \/ TaskStops(t) \/ TaskReturns(t) \/ TaskFails(t)
             \/ (TaskInterrupted(t) /\ Raises(TaskOp(t)))
    <3>1. /\ run'[r] = run[r] /\ log'[r] = log[r]
          /\ Working(t)' => Working(t)
          /\ task'[t].pc \notin {"append", "record"}
      BY <1>0, <2>2 DEF TaskBegin, TaskWork, TaskStops, TaskReturns, TaskFails, TaskInterrupted,
         Raises, stores, Goto, Working, WorkingPcs, TaskState
    <3> QED BY <2>1, <3>1
  <2>3. CASE TaskInterrupted(t) /\ Commit(TaskOp(t))
    <3>1. MarkInterrupted(r) /\ UNCHANGED log
      BY <2>3, TaskCommit DEF TaskInterrupted
    <3>2. task'[t].pc = "ended"
      BY <1>0, <2>3 DEF TaskInterrupted, Goto, TaskState
    <3>3. TasksWind(r) /\ \A h \in Gens : ~Working(<<r, h>>)'
      BY <1>0, <1>4, <3>2 DEF TasksWind, Ending, Working, WorkingPcs
    <3> QED BY <1>0, <2>0, <3>1, <3>3, RowMarked
  <2>4. CASE TaskPublish(t)
    <3>1. /\ UNCHANGED <<conversation, run>>
          /\ task[t].pc = "publish" /\ task'[t].pc = "work"
      BY <1>0, <2>4, TaskCommit DEF TaskPublish, TaskState
    <3>2. Working(<<r, g>>)
      BY <1>0, <3>1 DEF Working, WorkingPcs
    <3>3. conversation[ConvOf[r]] = "ACTIVE" => run[r].status = "RUNNING"
      BY <1>0, <3>2 DEF RunInv, WorkingIsRunning
    <3>4. \A h \in Gens : task'[<<r, h>>].pc \notin {"append", "record"}
      BY <1>0, <1>4, <3>1
    <3> QED BY <1>0, <2>0, <3>1, <3>2, <3>3, <3>4 DEF RowOf, Exists, Ending
  <2>5. CASE TaskCompletes(t)
    <3>1. /\ UNCHANGED <<conversation, log>> /\ task'[t].pc = "append"
          /\ Working(<<r, g>>)
      BY <1>0, <2>5, TaskCommit DEF TaskCompletes, Goto, TaskState, Working, WorkingPcs
    <3>2. CompleteRun(r, task[t].outcome, g + 1)
      BY <2>5, TaskCommit DEF TaskCompletes
    <3>3. /\ Exists(r)
          /\ run'[r].status \in {"WAITING_INPUT", "SUCCEEDED", "FAILED"}
          /\ run'[r].sequence = run[r].sequence
      BY <1>0, <3>2 DEF CompleteRun, RunRow, StatusOf
    <3>4. run'[r].sequence = 0
      BY <1>0, <2>0, <3>1, <3>3 DEF RowOf
    <3>5. \A h \in Gens : ~Working(<<r, h>>)' /\ task'[<<r, h>>].pc # "record"
      BY <1>0, <1>4, <3>1 DEF Working, WorkingPcs
    <3> QED BY <2>0, <3>3, <3>4, <3>5 DEF RowOf
  <2>6. CASE TaskAppends(t)
    <3>1. /\ UNCHANGED <<conversation, run>> /\ task[t].pc = "append"
          /\ task'[t].pc = "record" /\ task'[t].seq = Len(log'[r])
          /\ log' = [log EXCEPT ![r] = Append(@, EventOf(task[t].outcome))]
      <4>1. /\ task[t].pc = "append" /\ Commit(TaskOp(t))
            /\ task' = [task EXCEPT ![t].pc = "record", ![t].seq = Len(log'[r])]
        BY <2>6 DEF TaskAppends
      <4>2. task'[t].pc = "record" /\ task'[t].seq = Len(log'[r])
        BY <1>0, <4>1 DEF TaskState
      <4> QED BY <4>1, <4>2, TaskCommit DEF AppendEvent
    <3>2. EventOf(task[t].outcome) \in TerminalEvents
      BY DEF EventOf, TerminalEvents
    <3>3. EndsAt(log'[r], task'[t].seq)
      BY <1>0, <2>0, <3>1, <3>2 DEF EndsAt
    <3>4. Exists(r) => run[r].status # "RUNNING" /\ run[r].sequence = 0
      BY <1>0, <2>0, <3>1 DEF RowOf, Ending
    <3>5. \A h \in Gens : ~Working(<<r, h>>)' /\ (h # g => task'[<<r, h>>].pc # "record")
      BY <1>0, <1>4, <3>1 DEF Working, WorkingPcs
    <3>6. \A h \in Gens : task'[<<r, h>>].pc = "record" => EndsAt(log'[r], task'[<<r, h>>].seq)
      BY <1>0, <3>3, <3>5
    <3> QED BY <1>3, <2>0, <3>1, <3>4, <3>5, <3>6 DEF RowOf, Exists, EndsAt
  <2>7. CASE TaskRecords(t)
    <3>1. /\ UNCHANGED <<conversation, log>> /\ task[t].pc = "record"
          /\ task'[t].pc = "recorded"
          /\ RecordTerminalEventSequence(r, task[t].seq)
      BY <1>0, <2>7, TaskCommit DEF TaskRecords, TaskState, Goto
    <3>2. /\ Exists(r) /\ run'[r].status = run[r].status
          /\ run'[r].sequence = task[t].seq
      BY <1>0, <2>0, <3>1 DEF RecordTerminalEventSequence, RunRow
    <3>3. run[r].status # "RUNNING"
      BY <1>0, <2>0, <3>1, <3>2 DEF RowOf, Ending
    <3>4. conversation[ConvOf[r]] = "ACTIVE" => EndsAt(log[r], task[t].seq)
      BY <1>0, <2>0, <3>1 DEF RowOf
    <3>5. \A h \in Gens : ~Working(<<r, h>>)' /\ ~Ending(<<r, h>>)' /\ task'[<<r, h>>].pc # "record"
      BY <1>0, <1>4, <3>1 DEF Working, WorkingPcs, Ending
    <3> QED BY <2>0, <3>1, <3>2, <3>3, <3>4, <3>5 DEF RowOf, EndsAt
  <2> QED BY <2>2, <2>3, <2>4, <2>5, <2>6, <2>7 DEF TaskStep, TaskInterrupted
<1> QED BY <1>6, <1>7, <1>8 DEF RowsInv

-----------------------------------------------------------------------------
\* A step that changes no row: conversations, tasks and handlers only wind down.
LEMMA QuietRows ==
  ASSUME TypeInv, RowsInv, UNCHANGED run, CalmConversations,
         \A r \in Runs : log'[r] = log[r] \/ conversation'[ConvOf[r]] # "ACTIVE",
         \A r \in Runs : TasksWind(r) /\ SetupWinds(r)
  PROVE  \A r \in Runs : RowOf(r)'
BY RowSame DEF RowsInv

\* Nor does it unsettle what cancelled operations will mark.
LEMMA QuietMarks ==
  ASSUME TypeInv, ProcessInv, RowsInv, CalmTasks, late' \subseteq late,
         \A r \in Runs : SetupWinds(r),
         \A u \in Callers : caller'[u].pc = "claim" =>
           /\ caller[u].pc = "claim" /\ caller'[u].run = caller[u].run
           /\ caller'[u].action = caller[u].action
  PROVE  MarksAreLast'
<1> SUFFICES ASSUME NEW o \in late PROVE HadItsLast(o.run)'
  BY DEF MarksAreLast
<1>1. HadItsLast(o.run) /\ o.run \in Runs
  BY DEF RowsInv, MarksAreLast, ProcessInv, LateMarks, TypeInv, LateShape, OpShape
<1> QED BY <1>1, MarkedStays DEF CalmTasks, Live, Known

\* A handler's transaction commits.
LEMMA CallerCommitsRows ==
  ASSUME RunInv, ProcessInv, TypeInv, TypeInv', RowsInv, NEW u \in Callers,
         NEW pc \in StoreCall, NEW next, CallerCommits(u, pc, next),
         <<pc, next>> \in {<<"start_turn", "start_setup">>, <<"claim", "resume_setup">>,
                          <<"abort", "idle">>, <<"begin_deletion", "cancel_tasks">>,
                          <<"delete_thread", "delete_memory">>,
                          <<"delete_events", "delete_history">>, <<"delete_history", "idle">>}
  PROVE  RowsInv'
<1> DEFINE h == caller[u]
<1>0. /\ Shapes /\ h.pc = pc /\ h.conv \in Conversations
      /\ CallerOp(u) \in Ops /\ OpShape(CallerOp(u)) /\ Commit(CallerOp(u))
      /\ h.pc \in RunPcs => h.run \in Runs /\ h.conv = ConvOf[h.run]
      /\ IF next = "idle" THEN Leave(u) ELSE CallerGoto(u, next)
      /\ UNCHANGED <<task, registered, late, consolidating, phase>>
      /\ \A r \in Runs : RowOf(r)
  BY TypeShapes, TypeSplit, CallerOpType
     DEF CallerCommits, At, StoreCall, Shapes, CallerShape, CallerState, ProcessOK, RowsInv
<1>1. /\ \A v \in Callers : v # u => caller'[v] = caller[v]
      /\ caller'[u].pc = next
      /\ next # "idle" => /\ caller'[u].run = h.run /\ caller'[u].action = h.action
  BY <1>0, CallerMoves
<1>2. CalmTasks /\ \A r \in Runs : TasksWind(r)
  BY <1>0, SameIsCalm DEF TasksWind, Working, Ending
<1>3. /\ \A r \in Runs : ~(next \in SetupPcs /\ r = h.run) => SetupWinds(r)
      /\ \A v \in Callers : caller'[v].pc = "claim" =>
           /\ caller[v].pc = "claim" /\ caller'[v].run = caller[v].run
           /\ caller'[v].action = caller[v].action
  BY <1>1 DEF SetupWinds, InSetup, SetupPcs
<1>q. PICK q : q = h.run
  OBVIOUS
<1>4. CASE pc \in {"start_turn", "claim"}
  <2>0. q \in Runs /\ next \in SetupPcs /\ UNCHANGED <<conversation, log>>
    BY <1>0, <1>4, <1>q DEF RunPcs, SetupPcs, CallerOp, RunOp, Commit, MySqlTransaction, StartTurn,
       ClaimPendingAction
  <2>1. /\ run'[q].status = "RUNNING" /\ run'[q].sequence = 0
        /\ \A r \in Runs : r # q => run'[r] = run[r]
        /\ \A g \in Gens : ~Ending(<<q, g>>)
        /\ \A o \in late : o.run # q
    <3>1. CASE pc = "start_turn"
      <4>1. StartTurn(q)
        BY <1>0, <1>q, <3>1 DEF CallerOp, RunOp, Commit, MySqlTransaction
      <4>2. \A g \in Gens : ~Known(<<q, g>>)
        BY <2>0, <4>1 DEF RunInv, AbsentIsUnused, StartTurn, StartTurnAllowed
      <4>3. \A o \in late : o.run # q
        BY <4>2 DEF RowsInv, MarksAreLast, HadItsLast
      <4> QED BY <1>0, <2>0, <4>1, <4>2, <4>3 DEF StartTurn, NoRow, Shapes, Known, Ending
    <3>2. CASE pc = "claim"
      <4>1. ClaimPendingAction(q, h.action)
        BY <1>0, <1>q, <3>2 DEF CallerOp, RunOp, Commit, MySqlTransaction
      <4>2. /\ Resuming(u, q) /\ run[q].status = "WAITING_INPUT"
            /\ run[q].pending = h.action /\ h.action \in Nat
        BY <1>0, <1>q, <3>2, <4>1 DEF Resuming, ResumingPcs, ClaimPendingAction, ClaimAllowed,
           Shapes, CallerState
      <4>3. \A g \in Gens : Known(<<q, g>>) => g < h.action
        BY <2>0, <4>2 DEF RunInv, WaitingAsksNext
      <4>4. \A g \in Gens : ~Live(<<q, g>>)
        BY <2>0, <4>2, <4>3, WorkingLiveKnown DEF RunInv, ResumingIsCurrent
      <4>5. \A o \in late : o.run # q
        <5> SUFFICES ASSUME NEW o \in late, o.run = q PROVE FALSE
          OBVIOUS
        <5>1. caller[u].pc = "claim" /\ caller[u].run = q /\ caller[u].action = h.action
          BY <1>0, <1>q, <3>2
        <5>2. HadItsLast(q)
          BY DEF RowsInv, MarksAreLast
        <5>3. PICK g \in Gens : Known(<<q, g>>) /\ caller[u].action <= g
          BY <5>1, <5>2 DEF HadItsLast
        <5> QED BY <4>2, <4>3, <5>1, <5>3
      <4>6. \A g \in Gens : ~Ending(<<q, g>>)
        BY <4>4 DEF Live, Ending, LivePcs, TaskPcs
      <4> QED BY <1>0, <2>0, <4>1, <4>5, <4>6 DEF ClaimPendingAction, Shapes, RunRow
    <3> QED BY <1>4, <3>1, <3>2
  <2>2. \A r \in Runs : r # q => RowOf(r)'
    BY <1>0, <1>2, <1>3, <1>q, <2>0, <2>1, SameIsCalm, RowSame DEF CalmConversations
  <2>3. \A g \in Gens : /\ ~Ending(<<q, g>>)'
                        /\ task'[<<q, g>>].pc # "record"
    BY <1>0, <2>1 DEF Ending
  <2>4. RowOf(q)'
    BY <2>1, <2>3 DEF RowOf
  <2>5. MarksAreLast'
    <3> SUFFICES ASSUME NEW o \in late PROVE HadItsLast(o.run)'
      BY <1>0 DEF MarksAreLast
    <3>1. HadItsLast(o.run) /\ o.run \in Runs
      BY DEF RowsInv, MarksAreLast, ProcessInv, LateMarks, TypeInv, LateShape, OpShape
    <3>2. SetupWinds(o.run)
      BY <1>3, <1>q, <2>1, <3>1
    <3> QED BY <1>2, <1>3, <3>1, <3>2, MarkedStays DEF CalmTasks, Live, Known
  <2> QED BY <2>2, <2>4, <2>5 DEF RowsInv
<1>5. CASE pc = "abort"
  <2>1. MarkInterrupted(q) /\ UNCHANGED log /\ next = "idle" /\ q \in Runs
        /\ InSetup(u, q)
    BY <1>0, <1>5, <1>q DEF CallerOp, RunOp, Commit, MySqlTransaction, InSetup, SetupPcs, RunPcs
  <2>2. SetupOf(u, q)
    BY <2>1 DEF RunInv, SetupIsExclusive, SetupOf
  <2>3. \A g \in Gens : ~Working(<<q, g>>)'
    BY <1>0, <2>1, <2>2, WorkingLiveKnown DEF SetupOf, Working
  <2>4. \A v \in Callers : ~InSetup(v, q)'
    BY <1>1, <2>1, <2>2 DEF SetupOf, InSetup, SetupPcs
  <2>5. \A r \in Runs : SetupWinds(r)
    BY <1>3, <2>1 DEF SetupPcs
  <2>6. RowOf(q)'
    BY <1>0, <1>2, <2>1, <2>3, <2>4, RowMarked
  <2>7. UNCHANGED conversation /\ \A r \in Runs : r # q => run'[r] = run[r]
    BY <1>0, <2>1 DEF MarkInterrupted, Shapes
  <2>8. \A r \in Runs : r # q => RowOf(r)'
    BY <1>0, <1>2, <2>1, <2>5, <2>7, RowSame DEF CalmConversations
  <2> QED BY <1>0, <1>2, <1>3, <2>5, <2>6, <2>8, QuietMarks DEF RowsInv
<1>6. CASE pc \in {"begin_deletion", "delete_thread", "delete_events", "delete_history"}
  <2>1. CallerOp(u).op = pc /\ CallerOp(u).conv = h.conv
    BY <1>0, <1>6 DEF CallerOp, ConversationOp
  <2>2. CalmConversations
    BY <1>0, <1>6, <2>1, CommitCalm
  <2>3. \A r \in Runs : SetupWinds(r)
    BY <1>3, <1>6 DEF SetupPcs
  <2>4. MarksAreLast'
    BY <1>0, <1>2, <1>3, <2>3, QuietMarks
  <2>5. CASE pc = "begin_deletion"
    <3>1. UNCHANGED <<run, log>>
      BY <1>0, <2>1, <2>5 DEF Commit, MySqlTransaction, BeginConversationDeletion
    <3> QED BY <1>2, <2>2, <2>3, <2>4, <3>1, QuietRows DEF RowsInv
  <2>6. CASE pc = "delete_thread"
    <3>1. UNCHANGED <<run, log>>
      BY <1>0, <2>1, <2>6 DEF Commit, MySqlTransaction
    <3> QED BY <1>2, <2>2, <2>3, <2>4, <3>1, QuietRows DEF RowsInv
  <2>7. CASE pc = "delete_events"
    <3>1. UNCHANGED <<run, conversation>> /\ DeleteEvents(h.conv)
      BY <1>0, <2>1, <2>7 DEF Commit, MySqlTransaction
    <3>2. conversation[h.conv] # "ACTIVE"
      BY <1>0, <2>7 DEF ProcessInv, DeletionIsAnnounced, DeletionPcs
    <3>3. \A r \in Runs : log'[r] = log[r] \/ conversation'[ConvOf[r]] # "ACTIVE"
      BY <3>1, <3>2 DEF DeleteEvents
    <3> QED BY <1>2, <2>2, <2>3, <2>4, <3>1, <3>3, QuietRows DEF RowsInv
  <2>8. CASE pc = "delete_history"
    <3>1. DeleteConversation(h.conv) /\ UNCHANGED log
      BY <1>0, <2>1, <2>8 DEF Commit, MySqlTransaction
    <3>2. /\ \A r \in Runs : run'[r] = IF ConvOf[r] = h.conv THEN NoRow ELSE run[r]
          /\ conversation'[h.conv] = "GONE"
      BY <1>0, <3>1 DEF DeleteConversation, Shapes
    <3>3. \A r \in Runs : ConvOf[r] = h.conv => RowOf(r)'
      BY <3>2 DEF RowOf, NoRow, Exists
    <3>4. \A r \in Runs : ConvOf[r] # h.conv => RowOf(r)'
      BY <1>0, <1>2, <2>2, <2>3, <3>1, <3>2, RowSame
    <3> QED BY <2>4, <3>3, <3>4 DEF RowsInv
  <2> QED BY <1>6, <2>5, <2>6, <2>7, <2>8
<1> QED BY <1>0, <1>4, <1>5, <1>6 DEF StoreCall

\* Every other step of a handler, and those of a client: no row changes.
LEMMA CallerOtherRows ==
  ASSUME AssumedAdversity, RunInv, ProcessInv, TypeInv, TypeInv', RowsInv, NEW u \in Callers,
         \/ CallerFails(u) \/ StartSetupFails(u) \/ ResumeReads(u)
         \/ DeletionGathers(u) \/ DeletionForgets(u)
         \/ CallerCancelled(u) /\ ~At(u, "gather")
         \/ \E r \in Runs : StartRun(u, r)
         \/ \E r \in Runs, a \in Actions : ResumeRun(u, r, a)
         \/ \E c \in Conversations : DeleteRun(u, c)
  PROVE  RowsInv'
<1>0. Shapes /\ UNCHANGED <<conversation, run, log, task, late>>
  BY TypeShapes DEF CallerFails, StartSetupFails, ResumeReads, DeletionGathers, DeletionForgets,
     CallerCancelled, AssumedAdversity, StartRun, ResumeRun, DeleteRun, Begin, Raises, stores
<1>1. /\ CalmConversations /\ CalmTasks
      /\ \A r \in Runs : TasksWind(r)
  BY <1>0, SameIsCalm DEF TasksWind, Working, Ending
<1>2. /\ \A v \in Callers : v # u => caller'[v] = caller[v]
      /\ caller'[u].pc \in SetupPcs => caller[u].pc \in SetupPcs /\ caller'[u].run = caller[u].run
      /\ caller'[u].pc = "claim" =>
           ResumeReads(u) /\ caller[u].pc = "resume_read" /\ caller'[u].run = caller[u].run
  BY <1>0, CallerMoves DEF CallerFails, StartSetupFails, ResumeReads, DeletionGathers,
     DeletionForgets, CallerCancelled, StartRun, ResumeRun, DeleteRun, Begin, At, Shapes, SetupPcs
<1>3. \A r \in Runs : SetupWinds(r)
  BY <1>2 DEF SetupWinds, InSetup
<1>4. \A r \in Runs : RowOf(r)'
  BY <1>0, <1>1, <1>3, QuietRows
<1>5. CASE caller'[u].pc # "claim"
  BY <1>0, <1>1, <1>2, <1>3, <1>4, <1>5, QuietMarks DEF RowsInv
<1>6. CASE caller'[u].pc = "claim"
  <2>1. /\ caller[u].run \in Runs /\ conversation[ConvOf[caller[u].run]] = "ACTIVE"
        /\ phase # "draining"
    BY <1>0, <1>2, <1>6 DEF ResumeReads, At, Shapes, CallerShape, RunPcs, ProcessInv,
       DrainingIsQuiet, CallerGoto, Leave, Idle
  <2>2. MarksAreLast'
    <3> SUFFICES ASSUME NEW o \in late PROVE HadItsLast(o.run)'
      BY <1>0 DEF MarksAreLast
    <3>1. /\ HadItsLast(o.run) /\ o.run \in Runs
          /\ conversation[ConvOf[o.run]] # "ACTIVE" \/ phase = "draining"
      BY DEF RowsInv, MarksAreLast, ProcessInv, LateMarks, TypeInv, LateShape, OpShape
    <3>2. o.run # caller'[u].run
      BY <1>2, <1>6, <2>1, <3>1
    <3> QED BY <1>0, <1>1, <1>2, <1>3, <3>1, <3>2, MarkedStays DEF CalmTasks, Live, Known
  <2> QED BY <1>4, <2>2 DEF RowsInv
<1> QED BY <1>5, <1>6

\* A handler creates its task.
LEMMA CallerCreatesRows ==
  ASSUME RunInv, ProcessInv, TypeInv, RowsInv, NEW u \in Callers, StartSetup(u) \/ ResumeSetup(u)
  PROVE  RowsInv'
<1>1. PICK q \in Runs, a \in Gens : caller[u].run = q /\ caller[u].action = a
  BY TypeShapes DEF Shapes, CallerShape, CallerState, StartSetup, ResumeSetup, At, RunPcs
<1>2. /\ Shapes /\ InSetup(u, q)
      /\ StartStreamTask(<<q, a>>) /\ Leave(u)
      /\ UNCHANGED <<conversation, run, log, late>>
  BY <1>1, TypeShapes DEF StartSetup, ResumeSetup, At, Shapes, CallerShape, stores, InSetup, SetupPcs
<1>3. /\ \A r \in Runs : \A g \in Gens : <<r, g>> # <<q, a>> => task'[<<r, g>>] = task[<<r, g>>]
      /\ task'[<<q, a>>].pc = "created"
  BY <1>2 DEF StartStreamTask, Shapes, Tasks, NoTask
<1>4. /\ \A v \in Callers : v # u => caller'[v] = caller[v]
      /\ caller'[u].pc = "idle"
  BY <1>2, CallerMoves
<1>5. \A r \in Runs : SetupWinds(r)
  BY <1>4 DEF SetupWinds, InSetup, SetupPcs
<1>6. \A r \in Runs : TasksWind(r)
  BY <1>2, <1>3 DEF TasksWind, Working, Ending, WorkingPcs
<1>7. \A r \in Runs : RowOf(r)'
  BY <1>2, <1>5, <1>6, QuietRows, SameIsCalm
<1>8. MarksAreLast'
  <2> SUFFICES ASSUME NEW o \in late PROVE HadItsLast(o.run)'
    BY <1>2 DEF MarksAreLast
  <2>1. HadItsLast(o.run) /\ o.run \in Runs
    BY DEF RowsInv, MarksAreLast, ProcessInv, LateMarks, TypeInv, LateShape, OpShape
  <2>2. o.run # q
    BY <1>2, <2>1 DEF HadItsLast
  <2>3. \A g \in Gens : task'[<<o.run, g>>] = task[<<o.run, g>>]
    BY <1>3, <2>1, <2>2
  <2> QED BY <1>4, <1>5, <2>1, <2>3, MarkedStays DEF Live, Known
<1> QED BY <1>7, <1>8 DEF RowsInv

\* Tasks are cancelled: those about to mark their run leave that to a worker thread.
LEMMA CancelRows ==
  ASSUME AssumedAdversity, RunInv, ProcessInv, TypeInv, RowsInv,
         NEW S \in SUBSET Tasks, NEW T \in SUBSET S, CancelTasks(S, T),
         UNCHANGED <<conversation, run, log>>,
         \A u \in Callers : caller'[u].pc \in SetupPcs \cup {"claim"} => caller'[u] = caller[u]
  PROVE  RowsInv'
<1>0. Shapes /\ T = {} /\ CalmTasks
  BY TypeShapes, CancelStep DEF CancelTasks, AssumedAdversity
<1>1. /\ \A t \in Tasks :
           /\ task'[t] = task[t] \/ task'[t].pc \in {"ended", "interrupt"}
           /\ t \in S /\ task[t].pc = "interrupt" => task'[t].pc = "ended"
      /\ late' = late \cup {TaskOp(t) : t \in {v \in S : task[v].pc = "interrupt"}}
  BY <1>0 DEF CancelTasks, Shapes, TaskState, LivePcs, TaskPcs
<1>2. \A r \in Runs : \A g \in Gens :
        task'[<<r, g>>] = task[<<r, g>>] \/ task'[<<r, g>>].pc \in {"ended", "interrupt"}
  BY <1>1 DEF Tasks
<1>3. \A r \in Runs : TasksWind(r) /\ SetupWinds(r)
  BY <1>2 DEF TasksWind, SetupWinds, InSetup, Working, Ending, WorkingPcs
<1>4. \A r \in Runs : RowOf(r)'
  BY <1>3, QuietRows, SameIsCalm
<1>5. MarksAreLast'
  <2> SUFFICES ASSUME NEW o \in late' PROVE HadItsLast(o.run)'
    BY DEF MarksAreLast
  <2>1. CASE o \in late
    <3>1. HadItsLast(o.run) /\ o.run \in Runs
      BY <2>1 DEF RowsInv, MarksAreLast, ProcessInv, LateMarks, TypeInv, LateShape, OpShape
    <3> QED BY <1>0, <1>3, <3>1, MarkedStays DEF CalmTasks, Live, Known
  <2>2. CASE o \notin late
    <3>1. PICK t \in S : task[t].pc = "interrupt" /\ o = TaskOp(t)
      BY <1>1, <2>2
    <3>2. PICK r \in Runs, g \in Gens : t = <<r, g>>
      BY TaskPairs
    <3>3. o.run = r
      BY <3>1, <3>2 DEF TaskOp, RunOp
    <3>4. Live(<<r, g>>) /\ task'[<<r, g>>].pc = "ended"
      BY <1>1, <3>1, <3>2 DEF Live, LivePcs, TaskPcs
    <3>5. /\ \A h \in Gens : Live(<<r, h>>) => h = g
          /\ \A u \in Callers : ~InSetup(u, r)
          /\ \A u \in Callers : Resuming(u, r) => caller[u].action <= g
      BY <3>4, LiveIsAlone
    <3>6. \A h \in Gens : ~Live(<<r, h>>)'
      BY <1>0, <3>4, <3>5 DEF CalmTasks, Live, LivePcs
    <3>7. \A u \in Callers : ~InSetup(u, r)'
      BY <1>3, <3>5 DEF SetupWinds
    <3>8. \A u \in Callers : caller'[u].pc = "claim" /\ caller'[u].run = r =>
            caller'[u].action <= g
      BY <3>5 DEF Resuming, ResumingPcs
    <3>9. Known(<<r, g>>)'
      BY <3>4 DEF Known
    <3> QED BY <3>3, <3>6, <3>7, <3>8, <3>9 DEF HadItsLast
  <2> QED BY <2>1, <2>2
<1> QED BY <1>4, <1>5 DEF RowsInv

\* Every step of a handler, and those of a client.
LEMMA CallerRows ==
  ASSUME AssumedAdversity, RunInv, ProcessInv, TypeInv, TypeInv', RowsInv, NEW u \in Callers,
         \/ CallerStep(u) \/ CallerCancelled(u)
         \/ \E r \in Runs : StartRun(u, r)
         \/ \E r \in Runs, a \in Actions : ResumeRun(u, r, a)
         \/ \E c \in Conversations : DeleteRun(u, c)
  PROVE  RowsInv'
<1>0. Shapes
  BY TypeShapes
<1>1. CASE DeletionCancels(u)
  <2> DEFINE S == {t \in registered : ConvOf[t[1]] = caller[u].conv}
  <2>1. S \subseteq Tasks
    BY DEF TypeInv, TypeOK
  <2>2. PICK T \in SUBSET S : CancelTasks(S, T)
    BY <1>1 DEF DeletionCancels
  <2>3. /\ UNCHANGED <<conversation, run, log>>
        /\ \A v \in Callers : caller'[v].pc \in SetupPcs \cup {"claim"} => caller'[v] = caller[v]
    BY <1>0, <1>1 DEF DeletionCancels, stores, Shapes, CallerState, SetupPcs
  <2> HIDE DEF S
  <2> QED BY <2>1, <2>2, <2>3, CancelRows
<1>2. CASE CallerCancelled(u) /\ At(u, "gather")
  <2>1. caller[u].waits \in SUBSET Tasks
    BY <1>0 DEF Shapes, CallerState
  <2>2. PICK T \in SUBSET caller[u].waits : CancelTasks(caller[u].waits, T)
    BY <1>2 DEF CallerCancelled
  <2>3. /\ UNCHANGED <<conversation, run, log>>
        /\ \A v \in Callers : caller'[v].pc \in SetupPcs \cup {"claim"} => caller'[v] = caller[v]
    BY <1>0, <1>2, CallerMoves DEF CallerCancelled, stores, SetupPcs
  <2> QED BY <2>1, <2>2, <2>3, CancelRows
<1>3. CASE StartSetup(u) \/ ResumeSetup(u)
  BY <1>3, CallerCreatesRows
<1>4. CASE \E pc \in StoreCall, next \in CallerPcs :
             /\ CallerCommits(u, pc, next)
             /\ <<pc, next>> \in {<<"start_turn", "start_setup">>, <<"claim", "resume_setup">>,
                  <<"abort", "idle">>, <<"begin_deletion", "cancel_tasks">>,
                  <<"delete_thread", "delete_memory">>,
                  <<"delete_events", "delete_history">>, <<"delete_history", "idle">>}
  BY <1>4, CallerCommitsRows
<1> QED BY <1>1, <1>2, <1>3, <1>4, CallerOtherRows DEF CallerStep, StoreCall, CallerPcs

\* An operation nobody awaits runs: it marks a run that had its last task.
LEMMA LateRows ==
  ASSUME RunInv, ProcessInv, TypeInv, TypeInv', RowsInv, NEW o \in late, LateCommit(o)
  PROVE  RowsInv'
<1>0. /\ Shapes /\ o.op = "mark" /\ o.run \in Runs
      /\ HadItsLast(o.run)
      /\ UNCHANGED <<task, caller>> /\ late' \subseteq late
  BY TypeShapes DEF LateCommit, ProcessInv, LateMarks, TypeInv, LateShape, OpShape, RowsInv,
     MarksAreLast
<1>1. /\ CalmTasks /\ \A r \in Runs : TasksWind(r) /\ SetupWinds(r)
      /\ MarksAreLast'
  <2>1. CalmTasks /\ \A r \in Runs : TasksWind(r) /\ SetupWinds(r)
    BY <1>0, SameIsCalm DEF TasksWind, SetupWinds, Working, Ending, InSetup
  <2> QED BY <1>0, <2>1, QuietMarks
<1>2. CASE UNCHANGED <<conversation, run, log>>
  BY <1>1, <1>2, QuietRows, SameIsCalm DEF RowsInv
<1>3. CASE MarkInterrupted(o.run) /\ UNCHANGED log
  <2>1. UNCHANGED conversation /\ \A r \in Runs : r # o.run => run'[r] = run[r]
    BY <1>0, <1>3 DEF MarkInterrupted, Shapes
  <2>2. /\ \A g \in Gens : ~Working(<<o.run, g>>)'
        /\ \A u \in Callers : ~InSetup(u, o.run)'
    BY <1>0, WorkingLiveKnown DEF HadItsLast, Working, InSetup
  <2>3. \A r \in Runs : RowOf(r)
    BY DEF RowsInv
  <2>4. RowOf(o.run)'
    BY <1>0, <1>1, <1>3, <2>2, <2>3, RowMarked
  <2>5. \A r \in Runs : r # o.run => RowOf(r)'
    BY <1>1, <1>3, <2>1, <2>3, RowSame DEF CalmConversations
  <2> QED BY <1>1, <2>4, <2>5 DEF RowsInv
<1>4. UNCHANGED <<conversation, run, log>> \/ (MarkInterrupted(o.run) /\ UNCHANGED log)
  BY <1>0 DEF LateCommit, Commit, MySqlTransaction, Raises, stores
<1> QED BY <1>2, <1>3, <1>4

\* A new process, and steps that touch no row, event, task or handler.
LEMMA ProcessRows ==
  ASSUME TypeInv, ProcessInv, RowsInv, UNCHANGED <<conversation, run, log>>,
         Restart \/ UNCHANGED <<task, caller, late>>
  PROVE  RowsInv'
<1>0. Shapes
  BY TypeShapes
<1>1. CASE Restart
  <2>1. /\ late' = {}
        /\ \A u \in Callers : caller'[u].pc = "idle"
        /\ \A r \in Runs : \A g \in Gens :
             task'[<<r, g>>] = task[<<r, g>>] \/ task'[<<r, g>>].pc = "ended"
    BY <1>0, <1>1 DEF Restart, Idle, Shapes, TaskState, Tasks
  <2>2. \A r \in Runs : TasksWind(r) /\ SetupWinds(r)
    BY <2>1 DEF TasksWind, SetupWinds, Working, Ending, InSetup, WorkingPcs, SetupPcs
  <2> QED BY <2>1, <2>2, QuietRows, SameIsCalm DEF RowsInv, MarksAreLast
<1>2. CASE UNCHANGED <<task, caller, late>>
  <2>1. \A r \in Runs : TasksWind(r) /\ SetupWinds(r)
    BY <1>2 DEF TasksWind, SetupWinds, Working, Ending, InSetup
  <2> QED BY <1>2, <2>1, QuietRows, QuietMarks, SameIsCalm DEF RowsInv
<1> QED BY <1>1, <1>2

LEMMA RowsInit == Init => RowsInv
<1> SUFFICES ASSUME Init PROVE RowsInv
  OBVIOUS
<1>1. MarksAreLast
  BY DEF Init, MarksAreLast
<1>2. \A r \in Runs : RowOf(r)
  BY DEF Init, RowOf, Exists, NoRow, NoTask, Tasks
<1> QED BY <1>1, <1>2 DEF RowsInv

LEMMA RowsStep == AssumedAdversity /\ IInv /\ RowsInv /\ [Next]_vars => RowsInv'
<1> SUFFICES ASSUME AssumedAdversity, IInv, RowsInv, [Next]_vars PROVE RowsInv'
  OBVIOUS
<1>0. RunInv /\ ProcessInv /\ TypeInv /\ TypeInv'
  BY TypeStep DEF IInv, RunInv, ProcessInv
<1>1. CASE \E u \in Callers :
             \/ CallerStep(u) \/ CallerCancelled(u)
             \/ \E r \in Runs : StartRun(u, r)
             \/ \E r \in Runs, a \in Actions : ResumeRun(u, r, a)
             \/ \E c \in Conversations : DeleteRun(u, c)
  BY <1>0, <1>1, CallerRows
<1>2. CASE \E t \in Tasks : TaskStep(t)
  BY <1>0, <1>2, TaskRows
<1>3. CASE \E o \in late : LateCommit(o)
  BY <1>0, <1>3, LateRows
<1>4. CASE Shutdown
  <2>1. registered \in SUBSET Tasks
    BY <1>0 DEF TypeInv, TypeOK
  <2>2. PICK T \in SUBSET registered : CancelTasks(registered, T)
    BY <1>4 DEF Shutdown
  <2> QED BY <1>0, <1>4, <2>1, <2>2, CancelRows DEF Shutdown, stores
<1>5. CASE Exit \/ Crash
  BY <1>0, <1>5, ProcessRows DEF Exit, Crash, Restart, stores
<1>6. CASE StopServer \/ UNCHANGED vars \/ \E c \in Conversations : Consolidate(c)
  BY <1>0, <1>6, ProcessRows DEF StopServer, Consolidate, vars, stores, process
<1> QED BY <1>1, <1>2, <1>3, <1>4, <1>5, <1>6 DEF Next

-----------------------------------------------------------------------------
(* What clients may rely on.                                               *)

\* The transaction a step commits, with what its caller has made sure of: none
\* completes a run that is not at work, or empties a conversation still open.
GuardedTransaction ==
  \/ UNCHANGED <<conversation, run>>
  \/ \E r \in Runs :
       \/ StartTurn(r)
       \/ \E a \in Actions : ClaimPendingAction(r, a)
       \/ run[r].status = "RUNNING" /\ \E outcome, action : CompleteRun(r, outcome, action)
       \/ MarkInterrupted(r)
       \/ \E n : RecordTerminalEventSequence(r, n)
  \/ \E c \in Conversations :
       \/ BeginConversationDeletion(c)
       \/ conversation[c] # "ACTIVE" /\ DeleteConversation(c)

LEMMA TransactionsAreGuarded ==
  ASSUME IInv, RowsInv, [Next]_vars
  PROVE  GuardedTransaction
<1>0. RunInv /\ ProcessInv /\ TypeInv /\ Shapes
  BY TypeShapes DEF IInv, RunInv, ProcessInv
<1>1. ASSUME NEW t \in Tasks, TaskStep(t)
      PROVE  GuardedTransaction
  <2>1. \/ UNCHANGED <<conversation, run>>
        \/ Commit(TaskOp(t)) /\ (TaskCompletes(t) \/ task[t].pc # "complete")
    BY <1>1 DEF TaskStep, TaskBegin, TaskPublish, TaskWork, TaskStops, TaskCompletes,
       TaskAppends, TaskRecords, TaskReturns, TaskFails, TaskInterrupted, Raises, stores
  <2>2. CASE Commit(TaskOp(t)) /\ task[t].pc = "complete"
    <3>1. CompleteRun(t[1], task[t].outcome, t[2] + 1) /\ t[1] \in Runs
      BY <2>2, TaskCommit, TaskPairs
    <3>2. Working(<<t[1], t[2]>>) /\ t[2] \in Gens
      BY <2>2, TaskPairs DEF Working, WorkingPcs
    <3>3. run[t[1]].status = "RUNNING"
      BY <3>1, <3>2 DEF RowsInv, RowOf, CompleteRun
    <3> QED BY <3>1, <3>3 DEF GuardedTransaction
  <2>3. CASE Commit(TaskOp(t)) /\ task[t].pc # "complete"
    <3>1. \/ UNCHANGED <<conversation, run>>
          \/ RecordTerminalEventSequence(t[1], task[t].seq)
          \/ MarkInterrupted(t[1])
      BY <2>3, TaskCommit
    <3> QED BY <3>1, TaskPairs DEF GuardedTransaction
  <2> QED BY <2>1, <2>2, <2>3 DEF GuardedTransaction
<1>2. ASSUME NEW u \in Callers, CallerStep(u)
      PROVE  GuardedTransaction
  <2>1. \/ UNCHANGED <<conversation, run>>
        \/ caller[u].pc \in StoreCall /\ Commit(CallerOp(u))
    BY <1>2 DEF CallerStep, CallerCommits, CallerFails, StartSetup, StartSetupFails,
       ResumeReads, ResumeSetup, DeletionCancels, DeletionGathers, DeletionForgets, Raises,
       At, StoreCall, stores
  <2>2. CASE caller[u].pc \in {"start_turn", "claim", "abort"} /\ Commit(CallerOp(u))
    <3>1. caller[u].run \in Runs /\ (caller[u].pc = "claim" => caller[u].action \in Actions)
      BY <1>0, <2>2 DEF Shapes, CallerShape, CallerState, RunPcs, ResumingPcs
    <3>2. \/ StartTurn(caller[u].run)
          \/ caller[u].pc = "claim" /\ ClaimPendingAction(caller[u].run, caller[u].action)
          \/ MarkInterrupted(caller[u].run)
      BY <2>2 DEF CallerOp, RunOp, Commit, MySqlTransaction
    <3> QED BY <3>1, <3>2 DEF GuardedTransaction
  <2>3. CASE /\ caller[u].pc \in {"begin_deletion", "delete_thread", "delete_events", "delete_history"}
             /\ Commit(CallerOp(u))
    <3>1. caller[u].conv \in Conversations
      BY <1>0 DEF Shapes, CallerState
    <3>2. \/ UNCHANGED <<conversation, run>>
          \/ BeginConversationDeletion(caller[u].conv)
          \/ caller[u].pc = "delete_history" /\ DeleteConversation(caller[u].conv)
      BY <2>3 DEF CallerOp, ConversationOp, Commit, MySqlTransaction
    <3>3. caller[u].pc = "delete_history" => conversation[caller[u].conv] # "ACTIVE"
      BY <1>0 DEF ProcessInv, DeletionIsAnnounced, DeletionPcs
    <3> QED BY <3>1, <3>2, <3>3 DEF GuardedTransaction
  <2> QED BY <2>1, <2>2, <2>3 DEF StoreCall, GuardedTransaction
<1>3. ASSUME NEW o \in late, LateCommit(o)
      PROVE  GuardedTransaction
  <2>1. o.op = "mark" /\ o.run \in Runs
    BY <1>0 DEF ProcessInv, LateMarks, TypeInv, LateShape, OpShape
  <2>2. UNCHANGED <<conversation, run>> \/ MarkInterrupted(o.run)
    BY <1>3, <2>1 DEF LateCommit, Commit, MySqlTransaction, Raises, stores
  <2> QED BY <2>1, <2>2 DEF GuardedTransaction
<1>4. CASE UNCHANGED <<conversation, run>>
  BY <1>4 DEF GuardedTransaction
<1>5. \/ UNCHANGED <<conversation, run>>
      \/ \E t \in Tasks : TaskStep(t)
      \/ \E u \in Callers : CallerStep(u)
      \/ \E o \in late : LateCommit(o)
  BY DEF Next, StartRun, ResumeRun, DeleteRun, Begin, CallerCancelled, Consolidate,
     StopServer, Shutdown, Exit, Crash, Restart, stores, vars
<1> QED BY <1>1, <1>2, <1>3, <1>4, <1>5

\* The rows, the tasks that work on them and the logs agree: nothing that was
\* cancelled or fails makes a row lie.
THEOREM RowsAreTrue == AssumedAdversity => (Spec => []RowsInv)
<1> SUFFICES ASSUME AssumedAdversity PROVE Spec => []RowsInv
  OBVIOUS
<1>1. IInv /\ RowsInv /\ [Next]_vars => RowsInv'
  BY RowsStep
<1> QED BY InvariantHolds, RowsInit, <1>1, PTL DEF Spec

\* A subscriber that reads up to the recorded sequence number has the whole
\* segment and its terminal event.
THEOREM SequenceEndsLog == AssumedAdversity => (Spec => []RecordedSequenceEndsLog)
<1>1. RowsInv => RecordedSequenceEndsLog
  BY DEF RowsInv, RowOf, RecordedSequenceEndsLog, EndsAt
<1> QED BY RowsAreTrue, <1>1, PTL

\* complete_run and mark_interrupted never overwrite the end of a run.
THEOREM FinalIsFinal == AssumedAdversity => (Spec => FinishedIsFinal)
<1> SUFFICES ASSUME AssumedAdversity PROVE Spec => FinishedIsFinal
  OBVIOUS
<1>1. IInv /\ RowsInv /\ [Next]_vars =>
        [\A r \in Runs : run[r].status \in TerminalRunStatuses =>
           run'[r].status \in {run[r].status, "ABSENT"}]_vars
  <2> SUFFICES ASSUME IInv, RowsInv, [Next]_vars, NEW r \in Runs,
                      run[r].status \in TerminalRunStatuses
               PROVE  run'[r].status \in {run[r].status, "ABSENT"}
    OBVIOUS
  <2>1. GuardedTransaction /\ run \in [Runs -> RunRow]
    BY TransactionsAreGuarded DEF IInv, TypeInv, TypeOK
  <2>2. CASE UNCHANGED <<conversation, run>>
    BY <2>2
  <2>3. CASE \E s \in Runs : StartTurn(s) \/ MarkInterrupted(s)
    BY <2>1, <2>3 DEF StartTurn, StartTurnAllowed, Exists, MarkInterrupted, TerminalRunStatuses
  <2>4. CASE \E s \in Runs, a \in Actions : ClaimPendingAction(s, a)
    BY <2>1, <2>4 DEF ClaimPendingAction, ClaimAllowed, TerminalRunStatuses
  <2>5. CASE \E s \in Runs : /\ run[s].status = "RUNNING"
                             /\ \E outcome, action : CompleteRun(s, outcome, action)
    BY <2>1, <2>5 DEF CompleteRun, TerminalRunStatuses
  <2>6. CASE \E s \in Runs : \E n : RecordTerminalEventSequence(s, n)
    <3>1. PICK s \in Runs : \E n : RecordTerminalEventSequence(s, n)
      BY <2>6
    <3> QED BY <2>1, <3>1 DEF RecordTerminalEventSequence, RunRow
  <2>7. CASE \E c \in Conversations : BeginConversationDeletion(c) \/ DeleteConversation(c)
    BY <2>1, <2>7 DEF BeginConversationDeletion, DeleteConversation, NoRow
  <2> QED BY <2>1, <2>2, <2>3, <2>4, <2>5, <2>6, <2>7 DEF GuardedTransaction
<1> QED BY InvariantHolds, RowsAreTrue, <1>1, PTL DEF Spec, FinishedIsFinal

\* What a client reads of the rows changes by a step of the contract, or not.
LEMMA ContractStep ==
  ASSUME IInv, RowsInv, GuardedTransaction
  PROVE  [Contract!Next]_(Contract!vars)
<1> DEFINE Open == {c \in Conversations : conversation[c] = "ACTIVE"}
           Status == [r \in Runs |-> run[r].status]
<1>0. /\ run \in [Runs -> RunRow] /\ conversation \in [Conversations -> ConversationStatus]
      /\ \A r \in Runs : run[r].status \in {"ABSENT", "RUNNING", "WAITING_INPUT", "SUCCEEDED", "FAILED"}
  BY DEF IInv, TypeInv, TypeOK, RowsInv, RowOf
<1>1. CASE UNCHANGED <<conversation, run>>
  BY <1>1 DEF Contract!vars
<1>2. ASSUME NEW r \in Runs, NEW s, UNCHANGED conversation,
             \A q \in Runs : run'[q].status = IF q = r THEN s ELSE run[q].status
      PROVE  Open' = Open /\ Status' = [Status EXCEPT ![r] = s]
  BY <1>2
<1>3. ASSUME NEW r \in Runs, StartTurn(r) PROVE Contract!Start(r)
  <2>1. Open' = Open /\ Status' = [Status EXCEPT ![r] = "RUNNING"]
    <3>1. /\ UNCHANGED conversation
          /\ \A q \in Runs : run'[q].status = IF q = r THEN "RUNNING" ELSE run[q].status
      BY <1>0, <1>3 DEF StartTurn, NoRow
    <3> QED BY <1>2, <3>1
  <2>2. ConvOf[r] \in Open /\ Status[r] = "ABSENT"
    BY <1>3 DEF StartTurn, StartTurnAllowed, Exists
  <2>3. \A q \in Runs : ConvOf[q] = ConvOf[r] => Status[q] \notin {"RUNNING", "WAITING_INPUT"}
    BY <1>3 DEF StartTurn, StartTurnAllowed, Siblings, Active, ActiveRunStatuses
  <2> QED BY <2>1, <2>2, <2>3 DEF Contract!Start, Contract!Unfinished
<1>4. ASSUME NEW r \in Runs, NEW a \in Actions, ClaimPendingAction(r, a) PROVE Contract!Approve(r)
  <2>1. Open' = Open /\ Status' = [Status EXCEPT ![r] = "RUNNING"]
    <3>1. /\ UNCHANGED conversation
          /\ \A q \in Runs : run'[q].status = IF q = r THEN "RUNNING" ELSE run[q].status
      BY <1>0, <1>4 DEF ClaimPendingAction, RunRow
    <3> QED BY <1>2, <3>1
  <2> QED BY <1>4, <2>1 DEF Contract!Approve, ClaimPendingAction, ClaimAllowed
<1>5. ASSUME NEW r \in Runs, run[r].status = "RUNNING", NEW outcome, NEW action,
             CompleteRun(r, outcome, action)
      PROVE  Contract!Ask(r) \/ Contract!Finish(r)
  <2>1. PICK s \in {"WAITING_INPUT", "SUCCEEDED", "FAILED"} :
          \A q \in Runs : run'[q].status = IF q = r THEN s ELSE run[q].status
    BY <1>0, <1>5 DEF CompleteRun, StatusOf, RunRow
  <2>2. Open' = Open /\ Status' = [Status EXCEPT ![r] = s]
    BY <1>2, <1>5, <2>1 DEF CompleteRun
  <2> QED BY <1>5, <2>2 DEF Contract!Ask, Contract!Finish, Contract!Unfinished, Contract!Finished
<1>6. ASSUME NEW r \in Runs, MarkInterrupted(r)
      PROVE  Contract!Finish(r) \/ UNCHANGED <<Open, Status>>
  <2>1. CASE run[r].status \in TerminalRunStatuses
    BY <1>6, <2>1 DEF MarkInterrupted
  <2>2. CASE run[r].status \notin TerminalRunStatuses
    <3>1. Open' = Open /\ Status' = [Status EXCEPT ![r] = "FAILED"]
      BY <1>0, <1>2, <1>6, <2>2 DEF MarkInterrupted, RunRow
    <3>2. Status[r] \in {"RUNNING", "WAITING_INPUT"}
      BY <1>0, <1>6, <2>2 DEF MarkInterrupted, Exists, TerminalRunStatuses
    <3> QED BY <3>1, <3>2 DEF Contract!Finish, Contract!Unfinished, Contract!Finished
  <2> QED BY <2>1, <2>2
<1>7. ASSUME NEW r \in Runs, NEW n, RecordTerminalEventSequence(r, n)
      PROVE  UNCHANGED <<Open, Status>>
  BY <1>0, <1>7 DEF RecordTerminalEventSequence, RunRow
<1>8. ASSUME NEW c \in Conversations, BeginConversationDeletion(c) PROVE Contract!Close(c)
  BY <1>0, <1>8 DEF BeginConversationDeletion, Contract!Close
<1>9. ASSUME NEW c \in Conversations, conversation[c] # "ACTIVE", DeleteConversation(c)
      PROVE  Contract!Forget(c)
  <2>1. Open' = Open
    BY <1>0, <1>9 DEF DeleteConversation
  <2>2. Status' = [r \in Runs |-> IF ConvOf[r] = c THEN "ABSENT" ELSE Status[r]]
    BY <1>9 DEF DeleteConversation, NoRow
  <2> QED BY <1>9, <2>1, <2>2 DEF Contract!Forget
<1> QED BY <1>1, <1>3, <1>4, <1>5, <1>6, <1>7, <1>8, <1>9
        DEF GuardedTransaction, Contract!Next, Contract!vars

\* The runtime with its handlers, tasks, cancellations and crashes implements the
\* contract with clients.
THEOREM ContractIsKept == AssumedAdversity => (Spec => ContractSpec)
<1> SUFFICES ASSUME AssumedAdversity PROVE Spec => ContractSpec
  OBVIOUS
<1>1. Init => Contract!Init
  BY DEF Init, Contract!Init, NoRow
<1>2. IInv /\ RowsInv /\ [Next]_vars => [Contract!Next]_(Contract!vars)
  BY TransactionsAreGuarded, ContractStep
<1> QED BY InvariantHolds, RowsAreTrue, <1>1, <1>2, PTL DEF Spec, ContractSpec, Contract!Spec

-----------------------------------------------------------------------------
(* Deletions that do not race (DeletionInv).                               *)

\* Tasks of conversation c wind down, and nobody adds to its empty stores.
Settles(c) ==
  /\ \A t \in Tasks : ConvOf[t[1]] = c /\ Live(t)' => Live(t)
  /\ QuietConversation(c) =>
       /\ thread'[c] \in {thread[c], NoThread}
       /\ c \in memory' => c \in memory \cup consolidating
       /\ c \in consolidating' => c \in consolidating
       /\ \A r \in Siblings(c) : log'[r] \in {log[r], <<>>}

\* A deletion whose handler does not move keeps what it has done.
LEMMA DeletionStays ==
  ASSUME NEW u \in Callers, NEW c \in Conversations, DeletionOf(u, c), Settles(c),
         caller'[u] = caller[u],
         \A v \in Callers \ {u} : caller'[v].conv = c => caller'[v].pc = "idle"
  PROVE  DeletionOf(u, c)'
<1>1. QuietConversation(c) => QuietConversation(c)'
  BY DEF Settles, QuietConversation
<1>2. caller[u].pc = "gather" =>
        \A t \in Tasks : ConvOf[t[1]] = c /\ Live(t)' => t \in caller'[u].waits
  BY DEF DeletionOf, Settles
<1>3. caller[u].pc \in {"delete_thread", "delete_memory", "delete_events", "delete_history"} => QuietConversation(c)
  BY DEF DeletionOf, EmptyingPcs, DeletionPcs
<1>4. caller[u].pc \in {"delete_memory", "delete_events", "delete_history"} => thread'[c] = NoThread
  BY <1>3 DEF DeletionOf, Settles
<1>5. caller[u].pc \in {"delete_events", "delete_history"} => c \notin memory' /\ c \notin consolidating'
  BY <1>3 DEF DeletionOf, Settles
<1>6. caller[u].pc = "delete_history" => \A r \in Siblings(c) : log'[r] = <<>>
  BY <1>3 DEF DeletionOf, Settles
<1>7. caller[u].pc \in EmptyingPcs => QuietConversation(c)'
  BY <1>1, <1>3 DEF EmptyingPcs, DeletionPcs
<1> QED BY <1>2, <1>4, <1>5, <1>6, <1>7 DEF DeletionOf, Siblings, NoThread

\* Handlers that still call for a deleted conversation get no further than this.
RefusedPcs == {"idle", "start_turn", "resume_read", "begin_deletion"}

\* A deleted conversation stays empty.
LEMMA EmptiedStays ==
  ASSUME NEW c \in Conversations, Emptied(c), Settles(c),
         \A u \in Callers : caller'[u].conv = c => caller'[u].pc \in RefusedPcs
  PROVE  Emptied(c)'
<1>1. QuietConversation(c) /\ QuietConversation(c)'
  BY DEF Emptied, Settles, QuietConversation
<1>2. /\ \A r \in Siblings(c) : log'[r] = <<>>
      /\ thread'[c] = NoThread
      /\ c \notin memory' /\ c \notin consolidating'
  BY <1>1 DEF Emptied, Settles
<1> QED BY <1>1, <1>2 DEF Emptied, RefusedPcs, Siblings, NoThread

\* A step no handler takes part in.
LEMMA ProcessDeletions ==
  ASSUME DeletionInv, UNCHANGED <<conversation, caller>>,
         \A c \in Conversations : Settles(c)
  PROVE  DeletionInv'
<1>1. ASSUME NEW u \in Callers, NEW c \in Conversations, Deleting(u, c)'
      PROVE  DeletionOf(u, c)'
  <2>1. DeletionOf(u, c)
    BY <1>1 DEF DeletionInv, Deleting
  <2>2. \A v \in Callers \ {u} : caller'[v].conv = c => caller'[v].pc = "idle"
    BY <2>1 DEF DeletionOf
  <2> QED BY <2>1, <2>2, DeletionStays
<1>2. ASSUME NEW c \in Conversations, conversation'[c] = "GONE"
      PROVE  Emptied(c)'
  <2>1. Emptied(c) /\ Settles(c)
    BY <1>2 DEF DeletionInv
  <2> QED BY <2>1, EmptiedStays DEF Emptied, RefusedPcs
<1> QED BY <1>1, <1>2 DEF DeletionInv

\* A step of handler u, which works on conversation d: it leaves the others alone,
\* and nobody else is deleting d.
LEMMA HandlerDeletions ==
  ASSUME DeletionInv, NEW u \in Callers, NEW d \in Conversations,
         caller[u].conv = d, caller'[u].conv = d, caller[u].pc # "idle",
         \A v \in Callers : v # u => caller'[v] = caller[v],
         \A c \in Conversations : c # d => Settles(c) /\ conversation'[c] = conversation[c],
         Deleting(u, d)' => DeletionOf(u, d)',
         conversation'[d] = "GONE" => Emptied(d)'
  PROVE  DeletionInv'
<1>1. ASSUME NEW w \in Callers, NEW c \in Conversations, Deleting(w, c)'
      PROVE  DeletionOf(w, c)'
  <2>1. CASE w = u
    BY <1>1, <2>1 DEF Deleting
  <2>2. CASE w # u
    <3>1. DeletionOf(w, c) /\ caller'[w] = caller[w]
      BY <1>1, <2>2 DEF DeletionInv, Deleting
    <3>2. c # d
      BY <2>2, <3>1 DEF DeletionOf
    <3>3. \A v \in Callers \ {w} : caller'[v].conv = c => caller'[v].pc = "idle"
      BY <3>1, <3>2 DEF DeletionOf
    <3> QED BY <3>1, <3>2, <3>3, DeletionStays
  <2> QED BY <2>1, <2>2
<1>2. ASSUME NEW c \in Conversations, conversation'[c] = "GONE"
      PROVE  Emptied(c)'
  <2>1. CASE c = d
    BY <1>2, <2>1
  <2>2. CASE c # d
    <3>1. Emptied(c) /\ Settles(c)
      BY <1>2, <2>2 DEF DeletionInv
    <3>2. \A v \in Callers : caller'[v].conv = c => caller'[v].pc \in RefusedPcs
      BY <2>2, <3>1 DEF Emptied, RefusedPcs
    <3> QED BY <3>1, <3>2, EmptiedStays
  <2> QED BY <2>1, <2>2
<1> QED BY <1>1, <1>2 DEF DeletionInv

\* Stores, tasks and consolidations as they were settle every conversation.
LEMMA SameSettles ==
  ASSUME UNCHANGED <<log, thread, memory, consolidating>>, CalmTasks
  PROVE  \A c \in Conversations : Settles(c)
<1>1. \A t \in Tasks : Live(t)' => Live(t)
  BY TaskPairs DEF CalmTasks, Live
<1> QED BY <1>1 DEF Settles

\* A stream task.
LEMMA TaskDeletions ==
  ASSUME RunInv, ProcessInv, TypeInv, DeletionInv, NEW t \in Tasks, TaskStep(t)
  PROVE  DeletionInv'
<1>0. StoresOK /\ TasksOK /\ t[1] \in Runs /\ ConvOf[t[1]] \in Conversations
  BY TypeSplit, TaskPairs DEF ProcessOK
<1>1. /\ UNCHANGED <<conversation, caller>>
      /\ \A v \in Tasks : v # t => task'[v] = task[v]
      /\ Live(t)
  <2>1. UNCHANGED conversation
    BY TaskCommit DEF TaskStep, TaskBegin, TaskPublish, TaskWork, TaskStops, TaskCompletes,
       TaskAppends, TaskRecords, TaskReturns, TaskFails, TaskInterrupted, Raises, stores
  <2>2. UNCHANGED caller /\ Live(t) /\ \A v \in Tasks : v # t => task'[v] = task[v]
    BY <1>0 DEF TasksOK, TaskStep, TaskBegin, TaskPublish, TaskWork, TaskStops, TaskCompletes,
       TaskAppends, TaskRecords, TaskReturns, TaskFails, TaskInterrupted, Goto, stores,
       Live, LivePcs, TaskPcs
  <2> QED BY <2>1, <2>2
<1>2. /\ \A c \in Conversations \ {ConvOf[t[1]]} :
           thread'[c] = thread[c] /\ (c \in consolidating' => c \in consolidating)
      /\ UNCHANGED memory
      /\ \A r \in Runs : ConvOf[r] # ConvOf[t[1]] => log'[r] = log[r]
  <2>1. CASE Commit(TaskOp(t))
    BY <1>0, <2>1, TaskCommit DEF StoresOK, AppendEvent, TaskStep, TaskBegin, TaskPublish, TaskWork,
       TaskStops, TaskCompletes, TaskAppends, TaskRecords, TaskReturns, TaskFails, TaskInterrupted,
       Checkpoint, stores
  <2>2. CASE ~Commit(TaskOp(t))
    BY <1>0, <2>2 DEF StoresOK, TaskStep, TaskBegin, TaskPublish, TaskWork, TaskStops, TaskCompletes,
       TaskAppends, TaskRecords, TaskReturns, TaskFails, TaskInterrupted, Raises, Checkpoint, stores
  <2> QED BY <2>1, <2>2
<1>3. \A c \in Conversations : Settles(c)
  <2> SUFFICES ASSUME NEW c \in Conversations PROVE Settles(c)
    OBVIOUS
  <2>1. \A v \in Tasks : Live(v)' => Live(v)
    BY <1>1 DEF Live
  <2>2. QuietConversation(c) => c # ConvOf[t[1]]
    BY <1>1 DEF QuietConversation
  <2> QED BY <1>2, <2>1, <2>2 DEF Settles, Siblings
<1> QED BY <1>1, <1>3, ProcessDeletions

\* The rest of the process but its end: late marks, consolidation, the server's stop.
LEMMA OtherDeletions ==
  ASSUME ProcessInv, TypeInv, DeletionInv,
         \/ \E o \in late : LateCommit(o)
         \/ \E c \in Conversations : Consolidate(c)
         \/ StopServer \/ UNCHANGED vars
  PROVE  DeletionInv'
<1>1. CASE \E o \in late : LateCommit(o)
  <2>1. PICK o \in late : LateCommit(o)
    BY <1>1
  <2>2. UNCHANGED <<conversation, log, thread, memory, consolidating, task, caller>>
    BY <2>1 DEF LateCommit, ProcessInv, LateMarks, Commit, MySqlTransaction, MarkInterrupted,
       Raises, stores
  <2> QED BY <2>2, SameIsCalm, SameSettles, ProcessDeletions
<1>2. CASE \E c \in Conversations : Consolidate(c)
  <2>1. /\ UNCHANGED <<conversation, log, thread, task, caller>>
        /\ memory' \subseteq memory \cup consolidating /\ consolidating' \subseteq consolidating
    BY <1>2 DEF Consolidate
  <2>2. \A c \in Conversations : Settles(c)
    BY <2>1 DEF Settles, Live
  <2> QED BY <2>1, <2>2, ProcessDeletions
<1>3. CASE StopServer \/ UNCHANGED vars
  BY <1>3, SameIsCalm, SameSettles, ProcessDeletions DEF StopServer, vars, stores, process
<1> QED BY <1>1, <1>2, <1>3

\* The end of a process, in order or not.
LEMMA EndDeletions ==
  ASSUME TypeInv, DeletionInv, AssumedAdversity, RunInv, ProcessInv, Shutdown \/ Restart
  PROVE  DeletionInv'
<1>0. Shapes
  BY TypeShapes
<1>1. CalmTasks
  <2>1. CASE Shutdown
    <3>1. registered \in SUBSET Tasks
      BY DEF TypeInv, TypeOK
    <3>2. PICK T \in SUBSET registered : CancelTasks(registered, T)
      BY <2>1 DEF Shutdown
    <3> QED BY <3>1, <3>2, CancelStep
  <2>2. CASE Restart
    <3>1. \A t \in Tasks : task'[t].pc = IF task[t].pc = "none" THEN "none" ELSE "ended"
      BY <1>0, <2>2 DEF Restart, Shapes, TaskState
    <3>2. \A r \in Runs : \A g \in Gens : <<r, g>> \in Tasks
      BY DEF Tasks
    <3> QED BY <3>1, <3>2 DEF CalmTasks, LivePcs, WorkingPcs
  <2> QED BY <2>1, <2>2
<1>2. /\ UNCHANGED <<conversation, log, thread, memory>>
      /\ \A u \in Callers : caller'[u].pc = "idle"
      /\ consolidating' \subseteq consolidating
  BY <1>0 DEF Shutdown, Restart, stores, At, Idle, Shapes
<1>3. \A c \in Conversations : Settles(c)
  <2>1. \A t \in Tasks : Live(t)' => Live(t)
    BY <1>1, TaskPairs DEF CalmTasks, Live
  <2> QED BY <1>2, <2>1 DEF Settles
<1>4. ASSUME NEW c \in Conversations, conversation'[c] = "GONE" PROVE Emptied(c)'
  BY <1>2, <1>3, <1>4, EmptiedStays DEF DeletionInv, RefusedPcs
<1>5. \A u \in Callers, c \in Conversations : ~Deleting(u, c)'
  BY <1>2 DEF Deleting, DeletionPcs
<1> QED BY <1>4, <1>5 DEF DeletionInv

\* A call arrives: not on a conversation that is being deleted, nor to delete one
\* that another call works on.
LEMMA CallDeletions ==
  ASSUME "deleteRace" \notin Adversity, TypeInv, DeletionInv, NEW u \in Callers,
         \/ \E r \in Runs : StartRun(u, r)
         \/ \E r \in Runs, a \in Actions : ResumeRun(u, r, a)
         \/ \E c \in Conversations : DeleteRun(u, c)
  PROVE  DeletionInv'
<1>1. PICK d \in Conversations, pc \in {"start_turn", "resume_read", "begin_deletion"} :
        /\ \E r, a : Begin(u, pc, d, r, a)
        /\ pc = "begin_deletion" => Busy(d) = {}
  BY DEF StartRun, ResumeRun, DeleteRun
<1>2. /\ UNCHANGED <<stores, task, consolidating>>
      /\ caller[u].pc = "idle" /\ caller'[u].pc = pc /\ caller'[u].conv = d
      /\ \A v \in Callers : v # u => caller'[v] = caller[v]
      /\ \A v \in Busy(d) : caller[v].pc \notin {"begin_deletion", "cancel_tasks", "gather",
           "delete_thread", "delete_memory", "delete_events", "delete_history"}
  BY <1>1, TypeShapes DEF Begin, At, Shapes
<1>3. \A c \in Conversations : Settles(c)
  BY <1>2, SameIsCalm, SameSettles DEF stores
<1>4. ASSUME NEW w \in Callers, NEW c \in Conversations, Deleting(w, c)' PROVE DeletionOf(w, c)'
  <2>1. CASE w = u
    <3>1. c = d /\ pc = "begin_deletion"
      BY <1>2, <1>4, <2>1 DEF Deleting, DeletionPcs
    <3>2. \A v \in Callers \ {u} : caller'[v].conv = c => caller'[v].pc = "idle"
      BY <1>1, <1>2, <3>1 DEF Busy, At
    <3> QED BY <1>2, <2>1, <3>1, <3>2 DEF DeletionOf, EmptyingPcs, DeletionPcs
  <2>2. CASE w # u
    <3>1. Deleting(w, c) /\ DeletionOf(w, c) /\ caller'[w] = caller[w]
      BY <1>2, <1>4, <2>2 DEF DeletionInv, Deleting
    <3>2. c # d
      BY <1>2, <3>1 DEF Deleting, DeletionPcs, Busy, At
    <3>3. \A v \in Callers \ {w} : caller'[v].conv = c => caller'[v].pc = "idle"
      BY <1>2, <3>1, <3>2 DEF DeletionOf
    <3> QED BY <1>3, <3>1, <3>3, DeletionStays
  <2> QED BY <2>1, <2>2
<1>5. ASSUME NEW c \in Conversations, conversation'[c] = "GONE" PROVE Emptied(c)'
  <2>1. Emptied(c)
    BY <1>2, <1>5 DEF DeletionInv, stores
  <2>2. \A v \in Callers : caller'[v].conv = c => caller'[v].pc \in RefusedPcs
    BY <1>2, <2>1 DEF Emptied, RefusedPcs
  <2> QED BY <1>3, <2>1, <2>2, EmptiedStays
<1> QED BY <1>4, <1>5 DEF DeletionInv

\* A handler whose step touches no store, task or consolidation, and is none of a
\* deletion, or its last: a deleted conversation lets it get nowhere.
LEMMA QuietHandler ==
  ASSUME TypeInv, DeletionInv, NEW u \in Callers, caller[u].pc # "idle",
         UNCHANGED <<log, thread, memory, consolidating>>, CalmTasks, UNCHANGED conversation,
         caller'[u].conv = caller[u].conv,
         \A v \in Callers : v # u => caller'[v] = caller[v],
         caller'[u].pc \notin DeletionPcs \cup {"begin_deletion"},
         conversation[caller[u].conv] = "GONE" => caller'[u].pc = "idle"
  PROVE  DeletionInv'
<1>1. PICK d \in Conversations : d = caller[u].conv
  BY TypeShapes DEF Shapes, CallerState
<1>2. \A c \in Conversations : Settles(c)
  BY SameSettles
<1>3. conversation'[d] = "GONE" => Emptied(d)'
  <2> SUFFICES ASSUME conversation'[d] = "GONE" PROVE Emptied(d)'
    OBVIOUS
  <2>1. Emptied(d)
    BY DEF DeletionInv
  <2>2. \A v \in Callers : caller'[v].conv = d => caller'[v].pc \in RefusedPcs
    BY <1>1, <2>1 DEF Emptied, RefusedPcs
  <2> QED BY <1>2, <2>1, <2>2, EmptiedStays
<1>4. ~Deleting(u, d)'
  BY DEF Deleting
<1> QED BY <1>1, <1>2, <1>3, <1>4, HandlerDeletions

\* A handler's transaction commits.
LEMMA CommitDeletions ==
  ASSUME ProcessInv, TypeInv, GoneStaysGone, DeletionInv, NEW u \in Callers,
         NEW pc \in StoreCall, NEW next, CallerCommits(u, pc, next),
         <<pc, next>> \in {<<"start_turn", "start_setup">>, <<"claim", "resume_setup">>,
                          <<"abort", "idle">>, <<"begin_deletion", "cancel_tasks">>,
                          <<"delete_thread", "delete_memory">>,
                          <<"delete_events", "delete_history">>, <<"delete_history", "idle">>}
  PROVE  DeletionInv'
<1>1. PICK d \in Conversations : d = caller[u].conv
  BY TypeShapes DEF Shapes, CallerState
<1>2. /\ Shapes /\ StoresOK /\ caller[u].pc = pc /\ pc # "idle"
      /\ Commit(CallerOp(u)) /\ UNCHANGED <<task, consolidating>> /\ CalmTasks
      /\ \A v \in Callers : v # u => caller'[v] = caller[v]
      /\ caller'[u].pc = next /\ caller'[u].conv = d
  BY <1>1, TypeShapes, TypeSplit, CallerMoves, SameIsCalm DEF CallerCommits, At, StoreCall,
     Leave, Idle, Shapes
<1>3. CASE pc \in {"start_turn", "claim", "abort"}
  <2>1. UNCHANGED <<log, thread, memory, conversation>>
    BY <1>2, <1>3 DEF CallerOp, RunOp, Commit, MySqlTransaction, StartTurn, ClaimPendingAction,
       MarkInterrupted
  <2>2. conversation[d] = "GONE" => next = "idle"
    <3>1. caller[u].run \in Runs /\ d = ConvOf[caller[u].run]
      BY <1>1, <1>2, <1>3 DEF Shapes, CallerShape, RunPcs
    <3>2. CASE pc = "start_turn"
      BY <1>2, <3>1, <3>2 DEF CallerOp, RunOp, Commit, MySqlTransaction, StartTurn, StartTurnAllowed
    <3>3. CASE pc = "claim"
      <4>1. ClaimPendingAction(caller[u].run, caller[u].action)
        BY <1>2, <3>3 DEF CallerOp, RunOp, Commit, MySqlTransaction
      <4> QED BY <3>1, <4>1 DEF ClaimPendingAction, ClaimAllowed, GoneStaysGone
    <3> QED BY <1>3, <3>2, <3>3
  <2>3. next \notin DeletionPcs \cup {"begin_deletion"}
    BY <1>3 DEF DeletionPcs
  <2> QED BY <1>1, <1>2, <2>1, <2>2, <2>3, QuietHandler
<1>4. CASE pc \in {"begin_deletion", "delete_thread", "delete_events", "delete_history"}
  <2>1. CallerOp(u).op = pc /\ CallerOp(u).conv = d
    BY <1>1, <1>2, <1>4 DEF CallerOp, ConversationOp
  <2>2. /\ DeletionOf(u, d)
        /\ pc \in EmptyingPcs => QuietConversation(d)
        /\ conversation[d] = "GONE" => pc = "begin_deletion"
        /\ QuietConversation(d) => QuietConversation(d)'
    <3>1. Deleting(u, d)
      BY <1>1, <1>2, <1>4 DEF Deleting, DeletionPcs
    <3>2. DeletionOf(u, d)
      BY <3>1 DEF DeletionInv
    <3>3. conversation[d] = "GONE" => pc = "begin_deletion"
      BY <1>1, <1>2, <1>4 DEF DeletionInv, Emptied
    <3> QED BY <1>2, <3>2, <3>3 DEF DeletionOf, QuietConversation, Live
  <2>3. \A v \in Callers \ {u} : caller'[v].conv = d => caller'[v].pc = "idle"
    BY <1>2, <2>2 DEF DeletionOf
  <2>4. CASE pc = "begin_deletion"
    <3>1. /\ UNCHANGED <<log, thread, memory>>
          /\ \A c \in Conversations : c # d => conversation'[c] = conversation[c]
          /\ conversation'[d] # "GONE"
      BY <1>2, <2>1, <2>4 DEF Commit, MySqlTransaction, BeginConversationDeletion, Shapes
    <3>2. \A c \in Conversations : Settles(c)
      BY <1>2, <3>1, SameSettles
    <3>3. DeletionOf(u, d)'
      BY <1>2, <2>3, <2>4 DEF DeletionOf, EmptyingPcs, DeletionPcs
    <3> QED BY <1>1, <1>2, <3>1, <3>2, <3>3, HandlerDeletions
  <2>5. CASE pc = "delete_thread"
    <3>1. /\ UNCHANGED <<log, memory, conversation>>
          /\ \A c \in Conversations : c # d => thread'[c] = thread[c]
          /\ thread'[d] = NoThread
      BY <1>2, <2>1, <2>5 DEF Commit, MySqlTransaction, StoresOK
    <3>2. \A c \in Conversations : Settles(c)
      BY <1>2, <3>1 DEF Settles, Live
    <3>3. DeletionOf(u, d)'
      BY <1>2, <2>2, <2>3, <2>5, <3>1 DEF DeletionOf, EmptyingPcs, DeletionPcs, NoThread
    <3> QED BY <1>1, <1>2, <2>2, <2>5, <3>1, <3>2, <3>3, HandlerDeletions
  <2>6. CASE pc = "delete_events"
    <3>1. /\ UNCHANGED <<thread, memory, conversation>> /\ DeleteEvents(d)
      BY <1>2, <2>1, <2>6 DEF Commit, MySqlTransaction
    <3>2. \A c \in Conversations : Settles(c)
      BY <1>2, <3>1 DEF Settles, Live, DeleteEvents, Siblings
    <3>3. DeletionOf(u, d)'
      <4>1. \A r \in Siblings(d) : log'[r] = <<>>
        BY <3>1 DEF DeleteEvents, Siblings
      <4> QED BY <1>2, <2>2, <2>3, <2>6, <3>1, <4>1 DEF DeletionOf, EmptyingPcs, DeletionPcs, NoThread, Siblings
    <3> QED BY <1>1, <1>2, <2>2, <2>6, <3>1, <3>2, <3>3, HandlerDeletions
  <2>7. CASE pc = "delete_history"
    <3>1. /\ UNCHANGED <<log, thread, memory>>
          /\ \A c \in Conversations : c # d => conversation'[c] = conversation[c]
      BY <1>2, <2>1, <2>7 DEF Commit, MySqlTransaction, DeleteConversation, Shapes
    <3>2. \A c \in Conversations : Settles(c)
      BY <1>2, <3>1, SameSettles
    <3>3. ~Deleting(u, d)' /\ next = "idle"
      BY <1>2, <2>7 DEF Deleting, DeletionPcs
    <3>4. Emptied(d)'
      <4>1. /\ \A r \in Siblings(d) : log[r] = <<>>
            /\ thread[d] = NoThread
            /\ d \notin memory /\ d \notin consolidating
            /\ QuietConversation(d)'
        BY <1>2, <2>2, <2>7 DEF DeletionOf, EmptyingPcs, DeletionPcs
      <4>2. \A v \in Callers : caller'[v].conv = d => caller'[v].pc = "idle"
        BY <1>2, <2>3, <3>3
      <4> QED BY <1>2, <3>1, <4>1, <4>2 DEF Emptied, Siblings, NoThread
    <3> QED BY <1>1, <1>2, <3>1, <3>2, <3>3, <3>4, HandlerDeletions
  <2> QED BY <1>4, <2>4, <2>5, <2>6, <2>7
<1> QED BY <1>3, <1>4 DEF StoreCall

\* A handler creates its task: nobody deletes its conversation meanwhile.
LEMMA CreateDeletions ==
  ASSUME TypeInv, DeletionInv, NEW u \in Callers, StartSetup(u) \/ ResumeSetup(u)
  PROVE  DeletionInv'
<1>1. PICK d \in Conversations : d = caller[u].conv
  BY TypeShapes DEF Shapes, CallerState
<1>2. PICK q \in Runs, a \in Gens : caller[u].run = q /\ caller[u].action = a /\ ConvOf[q] = d
  BY <1>1, TypeShapes DEF Shapes, CallerShape, CallerState, StartSetup, ResumeSetup, At, RunPcs
<1>3. /\ Shapes /\ caller[u].pc \in {"start_setup", "resume_setup"}
      /\ StartStreamTask(<<q, a>>) /\ Leave(u)
      /\ UNCHANGED <<conversation, log, thread, memory, consolidating>>
  BY <1>2, TypeShapes DEF StartSetup, ResumeSetup, At, Shapes, CallerShape, stores
<1>4. /\ \A v \in Callers : v # u => caller'[v] = caller[v]
      /\ caller'[u].pc = "idle" /\ caller'[u].conv = d
  BY <1>1, <1>3, CallerMoves DEF Leave, Idle, Shapes
<1>5. \A t \in Tasks : t # <<q, a>> => task'[t] = task[t]
  BY <1>3 DEF StartStreamTask, Shapes
<1>6. \A c \in Conversations : c # d => Settles(c) /\ conversation'[c] = conversation[c]
  <2> SUFFICES ASSUME NEW c \in Conversations, c # d PROVE Settles(c)
    BY <1>3
  <2>1. \A t \in Tasks : ConvOf[t[1]] = c => t # <<q, a>>
    BY <1>2
  <2> QED BY <1>3, <1>5, <2>1 DEF Settles, Live
<1>7. conversation'[d] # "GONE"
  BY <1>1, <1>3 DEF DeletionInv, Emptied
<1>8. ~Deleting(u, d)'
  BY <1>4 DEF Deleting, DeletionPcs
<1> QED BY <1>1, <1>3, <1>4, <1>6, <1>7, <1>8, HandlerDeletions

\* The stages of a deletion that are no transaction, and gRPC's cancellation.
LEMMA StageDeletions ==
  ASSUME AssumedAdversity, "deleteRace" \notin Adversity, RunInv, ProcessInv, TypeInv,
         DeletionInv, NEW u \in Callers,
         \/ DeletionCancels(u) \/ DeletionGathers(u) \/ DeletionForgets(u)
         \/ CallerCancelled(u)
  PROVE  DeletionInv'
<1>0. PICK d \in Conversations : d = caller[u].conv
  BY TypeShapes DEF Shapes, CallerState
<1>1. /\ Shapes /\ caller[u].pc # "idle"
      /\ UNCHANGED <<conversation, run, log, thread, consolidating>>
      /\ \A v \in Callers : v # u => caller'[v] = caller[v]
      /\ caller'[u].conv = d
  BY <1>0, TypeShapes, CallerMoves DEF DeletionCancels, DeletionGathers, DeletionForgets,
     CallerCancelled, At, stores, Shapes, CallerState, Leave, Idle
<1>2. ASSUME ~CallerCancelled(u)
      PROVE  /\ DeletionOf(u, d) /\ conversation'[d] # "GONE"
             /\ \A v \in Callers \ {u} : caller'[v].conv = d => caller'[v].pc = "idle"
  <2>1. caller[u].pc \in {"cancel_tasks", "gather", "delete_memory"}
    BY <1>2 DEF DeletionCancels, DeletionGathers, DeletionForgets, At
  <2>2. Deleting(u, d)
    BY <1>0, <2>1 DEF Deleting, DeletionPcs
  <2>3. DeletionOf(u, d)
    BY <2>2 DEF DeletionInv
  <2>4. conversation'[d] # "GONE"
    BY <1>0, <1>1, <2>1 DEF DeletionInv, Emptied
  <2> QED BY <1>1, <2>3, <2>4 DEF DeletionOf
<1>3. ASSUME DeletionCancels(u), ~CallerCancelled(u) PROVE DeletionInv'
  <2> DEFINE S == {t \in registered : ConvOf[t[1]] = caller[u].conv}
  <2>1. S \subseteq Tasks
    BY DEF TypeInv, TypeOK
  <2>2. PICK T \in SUBSET S : CancelTasks(S, T)
    BY <1>3 DEF DeletionCancels
  <2>3. \A t \in Tasks : ConvOf[t[1]] = d /\ Live(t) => t \in S
    BY <1>0 DEF ProcessInv, LiveIsRegistered
  <2>4. UNCHANGED memory /\ caller'[u].pc = "gather" /\ caller'[u].waits = S
    BY <1>1, <1>3 DEF DeletionCancels, stores, Shapes, CallerState
  <2> HIDE DEF S
  <2>5. CalmTasks
    BY <2>1, <2>2, CancelStep
  <2>6. \A c \in Conversations : Settles(c)
    BY <1>1, <2>4, <2>5, SameSettles
  <2>7. DeletionOf(u, d)'
    <3>1. \A t \in Tasks : ConvOf[t[1]] = d /\ Live(t)' => t \in caller'[u].waits
      BY <2>3, <2>4, <2>5, TaskPairs DEF CalmTasks, Live
    <3> QED BY <1>2, <1>3, <2>4, <3>1 DEF DeletionOf, EmptyingPcs, DeletionPcs
  <2> QED BY <1>0, <1>1, <1>2, <1>3, <2>6, <2>7, HandlerDeletions
<1>4. ASSUME DeletionGathers(u), ~CallerCancelled(u) PROVE DeletionInv'
  <2>1. /\ UNCHANGED <<memory, task>> /\ caller[u].pc = "gather" /\ caller'[u].pc = "delete_thread"
        /\ \A t \in caller[u].waits : task[t].pc = "ended"
    BY <1>1, <1>4, CallerMoves DEF DeletionGathers, At, stores
  <2>2. \A c \in Conversations : Settles(c)
    BY <1>1, <2>1, SameIsCalm, SameSettles
  <2>3. QuietConversation(d)'
    BY <1>2, <1>4, <2>1 DEF DeletionOf, QuietConversation, Live, LivePcs
  <2>4. DeletionOf(u, d)'
    BY <1>2, <1>4, <2>1, <2>3 DEF DeletionOf, EmptyingPcs, DeletionPcs
  <2> QED BY <1>0, <1>1, <1>2, <1>4, <2>2, <2>4, HandlerDeletions
<1>5. ASSUME DeletionForgets(u), ~CallerCancelled(u) PROVE DeletionInv'
  <2>1. /\ UNCHANGED task /\ caller[u].pc = "delete_memory"
        /\ d \notin consolidating
        /\ memory' \subseteq memory
    BY <1>0, <1>5 DEF DeletionForgets, At
  <2>2. \/ caller'[u].pc = "delete_events" /\ d \notin memory'
        \/ caller'[u].pc = "idle"
    BY <1>0, <1>1, <1>5, CallerMoves DEF DeletionForgets
  <2>3. \A c \in Conversations : Settles(c)
    BY <1>1, <2>1 DEF Settles, Live
  <2>4. QuietConversation(d)' /\ thread'[d] = NoThread
    BY <1>1, <1>2, <1>5, <2>1 DEF DeletionOf, QuietConversation, Live, EmptyingPcs, DeletionPcs
  <2>5. Deleting(u, d)' => DeletionOf(u, d)'
    BY <1>1, <1>2, <1>5, <2>1, <2>2, <2>4 DEF Deleting, DeletionOf, EmptyingPcs, DeletionPcs, NoThread
  <2> QED BY <1>0, <1>1, <1>2, <1>5, <2>3, <2>5, HandlerDeletions
<1>6. CASE CallerCancelled(u)
  <2>1. Leave(u) /\ UNCHANGED memory
    BY <1>6 DEF CallerCancelled, stores
  <2>2. CalmTasks
    <3>1. CASE At(u, "gather")
      <4>1. caller[u].waits \in SUBSET Tasks
        BY <1>1 DEF Shapes, CallerState
      <4>2. PICK T \in SUBSET caller[u].waits : CancelTasks(caller[u].waits, T)
        BY <1>6, <3>1 DEF CallerCancelled
      <4> QED BY <4>1, <4>2, CancelStep
    <3>2. CASE ~At(u, "gather")
      BY <1>6, <3>2, SameIsCalm DEF CallerCancelled
    <3> QED BY <3>1, <3>2
  <2>3. caller'[u].pc = "idle"
    BY <1>1, <2>1, CallerMoves
  <2> QED BY <1>0, <1>1, <2>1, <2>2, <2>3, QuietHandler DEF DeletionPcs
<1> QED BY <1>3, <1>4, <1>5, <1>6

\* Every step of a handler.
LEMMA HandlerStepDeletions ==
  ASSUME AssumedAdversity, "deleteRace" \notin Adversity, RunInv, ProcessInv, TypeInv,
         GoneStaysGone, DeletionInv, NEW u \in Callers, CallerStep(u) \/ CallerCancelled(u)
  PROVE  DeletionInv'
<1>0. Shapes
  BY TypeShapes
<1>1. CASE \E pc \in StoreCall, next \in CallerPcs :
             /\ CallerCommits(u, pc, next)
             /\ <<pc, next>> \in {<<"start_turn", "start_setup">>, <<"claim", "resume_setup">>,
                  <<"abort", "idle">>, <<"begin_deletion", "cancel_tasks">>,
                  <<"delete_thread", "delete_memory">>,
                  <<"delete_events", "delete_history">>, <<"delete_history", "idle">>}
  BY <1>1, CommitDeletions
<1>2. CASE CallerFails(u) \/ StartSetupFails(u) \/ ResumeReads(u)
  <2>1. /\ caller[u].pc # "idle" /\ UNCHANGED <<log, thread, memory, consolidating, conversation, task>>
        /\ CalmTasks
    BY <1>2, SameIsCalm DEF CallerFails, StartSetupFails, ResumeReads, Raises, stores, At, StoreCall
  <2>2. /\ \A v \in Callers : v # u => caller'[v] = caller[v]
        /\ caller'[u].conv = caller[u].conv
        /\ \/ caller'[u].pc = "idle"
           \/ caller[u].pc = "start_setup" /\ caller'[u].pc = "abort"
           \/ caller[u].pc = "resume_read" /\ caller'[u].pc = "claim"
              /\ conversation[caller[u].conv] = "ACTIVE"
    BY <1>0, <1>2, CallerMoves DEF CallerFails, StartSetupFails, ResumeReads, At, Leave, Idle, Shapes
  <2>3. conversation[caller[u].conv] = "GONE" => caller'[u].pc = "idle"
    BY <1>0, <2>2 DEF DeletionInv, Emptied, Shapes, CallerState
  <2>4. caller'[u].pc \notin DeletionPcs \cup {"begin_deletion"}
    BY <2>2 DEF DeletionPcs
  <2> QED BY <2>1, <2>2, <2>3, <2>4, QuietHandler
<1> QED BY <1>1, <1>2, CreateDeletions, StageDeletions DEF CallerStep, StoreCall, CallerPcs

LEMMA DeletionInit == Init => DeletionInv
<1> SUFFICES ASSUME Init PROVE DeletionInv
  OBVIOUS
<1>1. \A u \in Callers, c \in Conversations : ~Deleting(u, c)
  <2>1. \A u \in Callers : caller[u].pc = "idle"
    BY DEF Init, Idle
  <2> QED BY <2>1 DEF Deleting, DeletionPcs
<1>2. \A c \in Conversations : conversation[c] = "ACTIVE"
  BY DEF Init
<1> QED BY <1>1, <1>2 DEF DeletionInv

LEMMA DeletionStep ==
  ASSUME AssumedAdversity, "deleteRace" \notin Adversity
  PROVE  IInv /\ GoneStaysGone /\ DeletionInv /\ [Next]_vars => DeletionInv'
<1> SUFFICES ASSUME IInv, GoneStaysGone, DeletionInv, [Next]_vars PROVE DeletionInv'
  OBVIOUS
<1>0. RunInv /\ ProcessInv /\ TypeInv
  BY DEF IInv, RunInv, ProcessInv
<1>1. CASE \E u \in Callers :
             \/ \E r \in Runs : StartRun(u, r)
             \/ \E r \in Runs, a \in Actions : ResumeRun(u, r, a)
             \/ \E c \in Conversations : DeleteRun(u, c)
  BY <1>0, <1>1, CallDeletions
<1>2. CASE \E u \in Callers : CallerStep(u) \/ CallerCancelled(u)
  BY <1>0, <1>2, HandlerStepDeletions
<1>3. CASE \E t \in Tasks : TaskStep(t)
  BY <1>0, <1>3, TaskDeletions
<1>4. CASE \/ \E o \in late : LateCommit(o)
           \/ \E c \in Conversations : Consolidate(c)
           \/ StopServer \/ UNCHANGED vars
  BY <1>0, <1>4, OtherDeletions
<1>5. CASE Shutdown \/ Exit \/ Crash
  BY <1>0, <1>5, EndDeletions DEF Exit, Crash
<1> QED BY <1>1, <1>2, <1>3, <1>4, <1>5 DEF Next

\* Rows, logs, tasks, handlers and the stores being emptied agree with each other in
\* every state, unless a client deletes a conversation it still uses.
THEOREM RuntimeInvHolds ==
  AssumedAdversity /\ "deleteRace" \notin Adversity => (Spec => []RuntimeInv)
<1> SUFFICES ASSUME AssumedAdversity, "deleteRace" \notin Adversity PROVE Spec => []RuntimeInv
  OBVIOUS
<1>1. IInv /\ GoneStaysGone /\ DeletionInv /\ [Next]_vars => DeletionInv'
  BY DeletionStep
<1>2. IInv /\ RowsInv /\ DeletionInv => RuntimeInv
  BY DEF RuntimeInv
<1> QED BY InvariantHolds, RowsAreTrue, GoneIsForGood, DeletionInit, <1>1, <1>2, PTL DEF Spec

\* A deletion that no other call on the conversation races waits for every task it
\* cancels before it empties a store, and what it has emptied stays empty.
THEOREM DeletionsAreClean ==
  AssumedAdversity /\ "deleteRace" \notin Adversity => (Spec => []DeletionIsClean)
<1> SUFFICES ASSUME AssumedAdversity, "deleteRace" \notin Adversity PROVE Spec => []DeletionIsClean
  OBVIOUS
<1>1. RuntimeInv /\ GoneStaysGone => DeletionIsClean
  <2> SUFFICES ASSUME IInv, GoneStaysGone, DeletionInv PROVE DeletionIsQuiet /\ DeletionIsComplete
    BY DEF DeletionIsClean, RuntimeInv
  <2>1. DeletionIsQuiet
    <3> SUFFICES ASSUME NEW u \in Callers, caller[u].pc \in EmptyingPcs
                 PROVE  QuietConversation(caller[u].conv)
      BY DEF DeletionIsQuiet, EmptyingPcs, DeletionPcs, QuietConversation, Live
    <3>1. caller[u].conv \in Conversations
      BY DEF IInv, TypeInv, TypeOK, CallerState
    <3>2. Deleting(u, caller[u].conv)
      BY DEF Deleting, EmptyingPcs
    <3> QED BY <3>1, <3>2 DEF DeletionInv, DeletionOf
  <2>2. DeletionIsComplete
    BY DEF DeletionIsComplete, DeletionInv, Emptied, GoneStaysGone, Siblings
  <2> QED BY <2>1, <2>2
<1> QED BY RuntimeInvHolds, GoneIsForGood, <1>1, PTL

-----------------------------------------------------------------------------
(* Somebody ends every run (OwnedInv).                                     *)

\* Without store failures an operation raises only because of the rows it finds.
LEMMA RaisesRefused ==
  ASSUME OrderlyAdversity, NEW o, Raises(o)
  PROVE  Refused(o) /\ UNCHANGED stores
BY DEF OrderlyAdversity, Raises

\* Whoever owned run r still does, or someone else.
LEMMA OwnerStays ==
  ASSUME OwnedInv, NEW r \in Runs,
         run'[r].status = "RUNNING" /\ conversation'[ConvOf[r]] = "ACTIVE" =>
            \/ run[r].status = "RUNNING" /\ conversation[ConvOf[r]] = "ACTIVE"
            \/ Owned(r)',
         \A g \in Gens : OwnsRun(<<r, g>>) => Owned(r)',
         \A u \in Callers : InSetup(u, r) => Owned(r)',
         RunOp("mark", r) \in late => RunOp("mark", r) \in late'
  PROVE  run'[r].status = "RUNNING" /\ conversation'[ConvOf[r]] = "ACTIVE" => Owned(r)'
<1>1. Owned(r) => Owned(r)'
  BY DEF Owned, RunOp
<1> QED BY <1>1 DEF OwnedInv

\* A stream task.
LEMMA TaskOwned ==
  ASSUME OrderlyAdversity, TypeInv, OwnedInv, NEW t \in Tasks, TaskStep(t)
  PROVE  OwnedInv'
<1> DEFINE s == t[1]
           g == t[2]
<1>0. /\ t = <<s, g>> /\ s \in Runs /\ g \in Gens
      /\ StoresOK /\ task \in [Tasks -> TaskState]
  BY TaskPairs, TypeSplit DEF ProcessOK, TasksOK
<1>1. /\ UNCHANGED <<conversation, late, caller>>
      /\ \A v \in Tasks : v # t => task'[v] = task[v]
  <2>1. UNCHANGED conversation
    BY TaskCommit DEF TaskStep, TaskBegin, TaskPublish, TaskWork, TaskStops, TaskCompletes,
       TaskAppends, TaskRecords, TaskReturns, TaskFails, TaskInterrupted, Raises, stores
  <2>2. UNCHANGED <<late, caller>> /\ \A v \in Tasks : v # t => task'[v] = task[v]
    BY <1>0 DEF TaskStep, TaskBegin, TaskPublish, TaskWork, TaskStops, TaskCompletes,
       TaskAppends, TaskRecords, TaskReturns, TaskFails, TaskInterrupted, Goto
  <2> QED BY <2>1, <2>2
<1>2. \A r \in Runs : \A h \in Gens : <<r, h>> # t => (OwnsRun(<<r, h>>) => OwnsRun(<<r, h>>)')
  BY <1>1 DEF OwnsRun, Tasks
<1>3. \A r \in Runs : \A u \in Callers : InSetup(u, r) => InSetup(u, r)'
  BY <1>1 DEF InSetup
<1>4. \A r \in Runs : r # s => run'[r] = run[r]
  <2>1. CASE Commit(TaskOp(t))
    BY <1>0, <2>1, TaskCommit DEF CompleteRun, RecordTerminalEventSequence,
       MarkInterrupted, StoresOK
  <2>2. CASE ~Commit(TaskOp(t))
    BY <2>2 DEF TaskStep, TaskBegin, TaskPublish, TaskWork, TaskStops, TaskCompletes,
       TaskAppends, TaskRecords, TaskReturns, TaskFails, TaskInterrupted, Raises, stores
  <2> QED BY <2>1, <2>2
<1>5. ASSUME NEW r \in Runs, run'[r].status = "RUNNING", conversation'[ConvOf[r]] = "ACTIVE"
      PROVE  Owned(r)'
  <2>1. CASE r # s
    <3>1. \A h \in Gens : OwnsRun(<<r, h>>) => Owned(r)'
      BY <1>0, <1>2, <2>1 DEF Owned
    <3>2. \A u \in Callers : InSetup(u, r) => Owned(r)'
      BY <1>3 DEF Owned
    <3> QED BY <1>1, <1>4, <1>5, <2>1, <3>1, <3>2, OwnerStays
  <2>2. CASE OwnsRun(t)' /\ r = s
    BY <1>0, <2>2 DEF Owned
  <2>3. CASE ~OwnsRun(t)' /\ r = s
    <3>1. CASE TaskBegin(t) \/ TaskPublish(t) \/ TaskWork(t) \/ TaskStops(t) \/ TaskFails(t)
      <4>1. task'[t].pc \in {"publish", "complete", "work", "interrupt"}
        BY <1>0, <3>1 DEF TaskBegin, TaskPublish, TaskWork, TaskStops, TaskFails, Goto, TaskState
      <4> QED BY <2>3, <4>1 DEF OwnsRun, WorkingPcs
    <3>2. CASE TaskCompletes(t)
      <4>1. CompleteRun(s, task[t].outcome, g + 1)
        BY <3>2, TaskCommit DEF TaskCompletes
      <4> QED BY <1>0, <1>5, <2>3, <4>1 DEF CompleteRun, StatusOf, StoresOK, RunRow
    <3>3. CASE TaskInterrupted(t) /\ Commit(TaskOp(t))
      <4>1. MarkInterrupted(s)
        BY <3>3, TaskCommit DEF TaskInterrupted
      <4> QED BY <1>0, <1>5, <2>3, <4>1 DEF MarkInterrupted, StoresOK, RunRow, TerminalRunStatuses
    <3>4. CASE TaskInterrupted(t) /\ Raises(TaskOp(t))
      <4>1. Refused(TaskOp(t)) /\ UNCHANGED run
        BY <3>4, RaisesRefused DEF stores
      <4>2. TaskOp(t).op = "mark" /\ TaskOp(t).run = s
        BY <3>4 DEF TaskInterrupted, TaskOp, RunOp
      <4> QED BY <1>5, <2>3, <4>1, <4>2 DEF Refused, Exists
    <3>5. CASE TaskAppends(t) \/ TaskRecords(t) \/ TaskReturns(t)
      <4>1. task[t].pc \in {"append", "record", "recorded"}
        BY <3>5 DEF TaskAppends, TaskRecords, TaskReturns
      <4>2. run'[s].status = run[s].status
        <5>1. CASE TaskReturns(t)
          BY <5>1 DEF TaskReturns, stores
        <5>2. CASE TaskAppends(t)
          BY <5>2, TaskCommit DEF TaskAppends
        <5>3. CASE TaskRecords(t)
          <6>1. RecordTerminalEventSequence(s, task[t].seq)
            BY <5>3, TaskCommit DEF TaskRecords
          <6> QED BY <1>0, <6>1 DEF RecordTerminalEventSequence, StoresOK, RunRow
        <5> QED BY <3>5, <5>1, <5>2, <5>3
      <4>3. ~OwnsRun(t)
        BY <4>1 DEF OwnsRun, WorkingPcs
      <4>4. \A h \in Gens : OwnsRun(<<r, h>>) => Owned(r)'
        BY <1>2, <4>3 DEF Owned
      <4>5. \A u \in Callers : InSetup(u, r) => Owned(r)'
        BY <1>3 DEF Owned
      <4> QED BY <1>1, <1>5, <2>3, <4>2, <4>4, <4>5, OwnerStays
    <3> QED BY <3>1, <3>2, <3>3, <3>4, <3>5 DEF TaskStep, TaskInterrupted
  <2> QED BY <2>1, <2>2, <2>3
<1> QED BY <1>5 DEF OwnedInv

\* A handler moves on: only its own step can leave a run without an owner.
LEMMA HandlerOwned ==
  ASSUME OwnedInv, NEW u \in Callers, late \subseteq late',
         \A v \in Callers : v # u => caller'[v] = caller[v],
         \A r \in Runs : \A g \in Gens : OwnsRun(<<r, g>>) => Owned(r)',
         \A r \in Runs : run'[r].status = "RUNNING" /\ conversation'[ConvOf[r]] = "ACTIVE" =>
            \/ /\ run[r].status = "RUNNING" /\ conversation[ConvOf[r]] = "ACTIVE"
               /\ InSetup(u, r) => Owned(r)'
            \/ Owned(r)'
  PROVE  OwnedInv'
<1> SUFFICES ASSUME NEW r \in Runs, run'[r].status = "RUNNING",
                    conversation'[ConvOf[r]] = "ACTIVE", ~Owned(r)'
             PROVE  FALSE
  BY DEF OwnedInv
<1>1. \A v \in Callers : v # u => ~InSetup(v, r)
  BY DEF Owned, InSetup
<1>2. /\ \A g \in Gens : ~OwnsRun(<<r, g>>)
      /\ RunOp("mark", r) \notin late
      /\ ~InSetup(u, r)
  BY DEF Owned, RunOp
<1>3. ~Owned(r)
  BY <1>1, <1>2 DEF Owned
<1> QED BY <1>3 DEF OwnedInv

\* While no task moves, what a task owned it owns.
LEMMA TasksStillOwn ==
  ASSUME UNCHANGED task
  PROVE  \A r \in Runs : \A g \in Gens : OwnsRun(<<r, g>>) => Owned(r)'
BY DEF Owned, OwnsRun

\* start_turn and claim_pending_action give the run to the handler, and
\* mark_interrupted ends it.
LEMMA CommitsOwned ==
  ASSUME TypeInv, OwnedInv, NEW u \in Callers,
         NEW pc \in StoreCall, NEW next, CallerCommits(u, pc, next),
         <<pc, next>> \in {<<"start_turn", "start_setup">>, <<"claim", "resume_setup">>,
                          <<"abort", "idle">>, <<"begin_deletion", "cancel_tasks">>,
                          <<"delete_thread", "delete_memory">>,
                          <<"delete_events", "delete_history">>, <<"delete_history", "idle">>}
  PROVE  OwnedInv'
<1> DEFINE h == caller[u]
<1>0. /\ Shapes /\ h.pc = pc /\ h.conv \in Conversations
      /\ Commit(CallerOp(u))
      /\ h.pc \in RunPcs => h.run \in Runs /\ h.conv = ConvOf[h.run]
      /\ IF next = "idle" THEN Leave(u) ELSE CallerGoto(u, next)
      /\ UNCHANGED <<task, late>>
  BY TypeShapes DEF CallerCommits, At, StoreCall, Shapes, CallerShape, CallerState
<1>1. /\ \A v \in Callers : v # u => caller'[v] = caller[v]
      /\ caller'[u].pc = next
      /\ next # "idle" => caller'[u].run = h.run
  BY <1>0, CallerMoves
<1>2. /\ late \subseteq late'
      /\ \A r \in Runs : \A g \in Gens : OwnsRun(<<r, g>>) => Owned(r)'
  BY <1>0, TasksStillOwn
<1>q. PICK q : q = h.run
  OBVIOUS
<1>3. CASE pc \in {"start_turn", "claim"}
  <2>1. /\ q \in Runs /\ next \in SetupPcs
        /\ StartTurn(q) \/ ClaimPendingAction(q, h.action)
    BY <1>0, <1>3, <1>q DEF RunPcs, SetupPcs, CallerOp, RunOp, Commit, MySqlTransaction
  <2>2. UNCHANGED conversation /\ \A r \in Runs : r # q => run'[r] = run[r]
    BY <1>0, <2>1 DEF StartTurn, ClaimPendingAction, Shapes
  <2>3. Owned(q)'
    BY <1>1, <1>q, <2>1 DEF Owned, InSetup, SetupPcs
  <2>4. \A r \in Runs : ~InSetup(u, r)
    BY <1>0, <1>3 DEF InSetup, SetupPcs
  <2> QED BY <1>1, <1>2, <2>2, <2>3, <2>4, HandlerOwned
<1>4. CASE pc = "abort"
  <2>1. MarkInterrupted(q) /\ q \in Runs
    BY <1>0, <1>4, <1>q DEF CallerOp, RunOp, Commit, MySqlTransaction, RunPcs
  <2>2. /\ UNCHANGED conversation /\ \A r \in Runs : r # q => run'[r] = run[r]
        /\ run'[q].status # "RUNNING"
    BY <1>0, <2>1 DEF MarkInterrupted, Shapes, TerminalRunStatuses, RunRow
  <2>3. \A r \in Runs : InSetup(u, r) => r = q
    BY <1>q DEF InSetup
  <2> QED BY <1>1, <1>2, <2>2, <2>3, HandlerOwned
<1>5. CASE pc \in {"begin_deletion", "delete_thread", "delete_events", "delete_history"}
  <2>1. CallerOp(u).op = pc /\ CallerOp(u).conv = h.conv
    BY <1>0, <1>5 DEF CallerOp, ConversationOp
  <2>2. \A r \in Runs : ~InSetup(u, r)
    BY <1>0, <1>5 DEF InSetup, SetupPcs
  <2>3. \/ UNCHANGED <<conversation, run>>
        \/ BeginConversationDeletion(h.conv) \/ DeleteConversation(h.conv)
    BY <1>5, <1>0, <2>1 DEF Commit, MySqlTransaction
  <2>4. \A r \in Runs : run'[r].status = "RUNNING" /\ conversation'[ConvOf[r]] = "ACTIVE" =>
           run[r].status = "RUNNING" /\ conversation[ConvOf[r]] = "ACTIVE"
    <3>1. CASE UNCHANGED <<conversation, run>>
      BY <3>1
    <3>2. CASE BeginConversationDeletion(h.conv)
      BY <1>0, <3>2 DEF BeginConversationDeletion, Shapes
    <3>3. CASE DeleteConversation(h.conv)
      BY <1>0, <3>3 DEF DeleteConversation, Shapes, NoRow
    <3> QED BY <2>3, <3>1, <3>2, <3>3
  <2> QED BY <1>1, <1>2, <2>2, <2>4, HandlerOwned
<1> QED BY <1>3, <1>4, <1>5 DEF StoreCall

\* Handlers that change no row: their abort fails only on a row that is gone.
LEMMA QuietOwned ==
  ASSUME OrderlyAdversity, TypeInv, OwnedInv, NEW u \in Callers,
         \/ CallerFails(u) \/ StartSetupFails(u) \/ ResumeReads(u)
         \/ DeletionGathers(u) \/ DeletionForgets(u)
         \/ \E r \in Runs : StartRun(u, r)
         \/ \E r \in Runs, a \in Actions : ResumeRun(u, r, a)
         \/ \E c \in Conversations : DeleteRun(u, c)
  PROVE  OwnedInv'
<1> DEFINE h == caller[u]
<1>0. Shapes
  BY TypeShapes
<1>1. UNCHANGED <<conversation, run, task, late>>
  BY DEF CallerFails, StartSetupFails, ResumeReads, DeletionGathers, DeletionForgets, Raises,
     stores, StartRun, ResumeRun, DeleteRun, Begin
<1>2. \A v \in Callers : v # u => caller'[v] = caller[v]
  BY <1>0, CallerMoves DEF CallerFails, StartSetupFails, ResumeReads, DeletionGathers,
     DeletionForgets, StartRun, ResumeRun, DeleteRun, Begin, Shapes
<1>3. ASSUME NEW r \in Runs, run[r].status = "RUNNING", InSetup(u, r)
      PROVE  Owned(r)'
  <2>1. h.pc \in SetupPcs /\ h.run = r
    BY <1>3 DEF InSetup
  <2>2. CASE CallerFails(u)
    <3>1. h.pc = "abort" /\ Refused(CallerOp(u))
      BY <2>1, <2>2, RaisesRefused DEF CallerFails, SetupPcs, StoreCall
    <3>2. CallerOp(u) = RunOp("mark", r)
      BY <2>1, <3>1 DEF CallerOp
    <3>3. ~Exists(r)
      BY <3>1, <3>2 DEF Refused, RunOp
    <3> QED BY <1>3, <3>3 DEF Exists
  <2>3. CASE StartSetupFails(u)
    <3>1. caller'[u].pc = "abort" /\ caller'[u].run = h.run
      BY <1>0, <2>3, CallerMoves DEF StartSetupFails
    <3> QED BY <2>1, <3>1 DEF Owned, InSetup, SetupPcs
  <2>4. CASE ~CallerFails(u) /\ ~StartSetupFails(u)
    BY <2>1, <2>4 DEF SetupPcs, ResumeReads, DeletionGathers, DeletionForgets, At,
       StartRun, ResumeRun, DeleteRun, Begin
  <2> QED BY <2>2, <2>3, <2>4
<1>4. /\ late \subseteq late'
      /\ \A r \in Runs : \A g \in Gens : OwnsRun(<<r, g>>) => Owned(r)'
  BY <1>1, TasksStillOwn
<1>5. \A r \in Runs : run'[r].status = "RUNNING" /\ conversation'[ConvOf[r]] = "ACTIVE" =>
        /\ run[r].status = "RUNNING" /\ conversation[ConvOf[r]] = "ACTIVE"
        /\ InSetup(u, r) => Owned(r)'
  BY <1>1, <1>3
<1> QED BY <1>2, <1>4, <1>5, HandlerOwned

\* The task a handler creates takes its run over.
LEMMA CreateOwned ==
  ASSUME TypeInv, OwnedInv, NEW u \in Callers, StartSetup(u) \/ ResumeSetup(u)
  PROVE  OwnedInv'
<1>0. Shapes /\ caller[u].run \in Runs /\ caller[u].action \in Gens
  BY TypeShapes DEF Shapes, CallerShape, CallerState, StartSetup, ResumeSetup, At, RunPcs
<1>1. PICK q \in Runs, a \in Gens :
      /\ q = caller[u].run
      /\ StartStreamTask(<<q, a>>) /\ Leave(u)
      /\ UNCHANGED <<conversation, run, late>>
  BY <1>0 DEF StartSetup, ResumeSetup, CallerShape, At, stores, TypeInv
<1>2. /\ \A v \in Callers : v # u => caller'[v] = caller[v]
      /\ <<q, a>> \in Tasks
      /\ task'[<<q, a>>].pc = "created"
      /\ \A t \in Tasks : t # <<q, a>> => task'[t] = task[t]
  BY <1>0, <1>1, CallerMoves DEF StartStreamTask, NoTask, Shapes, Tasks
<1>3. Owned(q)'
  BY <1>2 DEF Owned, OwnsRun, WorkingPcs
<1>4. \A r \in Runs : \A g \in Gens : OwnsRun(<<r, g>>) => Owned(r)'
  <2> SUFFICES ASSUME NEW r \in Runs, NEW g \in Gens, OwnsRun(<<r, g>>), r # q
               PROVE  Owned(r)'
    BY <1>3
  <2>1. task'[<<r, g>>] = task[<<r, g>>]
    BY <1>2 DEF Tasks
  <2> QED BY <2>1 DEF Owned, OwnsRun
<1>5. \A r \in Runs : InSetup(u, r) => r = q
  BY <1>1 DEF InSetup
<1> QED BY <1>1, <1>2, <1>3, <1>4, <1>5, HandlerOwned

\* Cancelling leaves a run to its task, or to the mark_interrupted it had begun.
LEMMA CancelOwned ==
  ASSUME OrderlyAdversity, TypeInv, NEW S \in SUBSET Tasks, NEW T \in SUBSET S, CancelTasks(S, T),
         NEW r \in Runs, NEW g \in Gens, OwnsRun(<<r, g>>),
         <<r, g>> \in S => task[<<r, g>>].pc # "created"
  PROVE  Owned(r)'
<1> DEFINE t == <<r, g>>
<1>0. Shapes /\ T = {} /\ t \in Tasks /\ task[t].pc \in WorkingPcs \cup {"interrupt"}
  BY TypeShapes DEF CancelTasks, OrderlyAdversity, Tasks, OwnsRun
<1>1. CASE t \notin S
  <2>1. task'[t] = task[t]
    BY <1>0, <1>1 DEF CancelTasks
  <2> QED BY <1>0, <2>1 DEF Owned, OwnsRun
<1>2. CASE t \in S /\ task[t].pc # "interrupt"
  <2>1. task'[t].pc = "interrupt"
    BY <1>0, <1>2 DEF CancelTasks, Shapes, TaskState, WorkingPcs, LivePcs, TaskPcs
  <2> QED BY <2>1 DEF Owned, OwnsRun
<1>3. CASE t \in S /\ task[t].pc = "interrupt"
  <2>1. TaskOp(t) = RunOp("mark", r)
    BY <1>3 DEF TaskOp, RunOp
  <2>2. TaskOp(t) \in late'
    BY <1>3 DEF CancelTasks
  <2>3. RunOp("mark", r) \in late'
    BY <2>1, <2>2
  <2> QED BY <2>3 DEF Owned, RunOp
<1> QED BY <1>1, <1>2, <1>3

\* Deletion cancels tasks of its own conversation, which takes no more runs.
LEMMA DeletionCancelsOwned ==
  ASSUME OrderlyAdversity, ProcessInv, TypeInv, OwnedInv, NEW u \in Callers, DeletionCancels(u)
  PROVE  OwnedInv'
<1> SUFFICES ASSUME NEW r \in Runs, run'[r].status = "RUNNING", conversation'[ConvOf[r]] = "ACTIVE"
             PROVE  Owned(r)'
  BY DEF OwnedInv
<1> DEFINE S == {t \in registered : ConvOf[t[1]] = caller[u].conv}
<1>0. /\ Shapes /\ registered \subseteq Tasks
      /\ UNCHANGED <<conversation, run>>
      /\ \E T \in SUBSET S : CancelTasks(S, T)
  BY TypeShapes DEF DeletionCancels, stores, TypeInv, TypeOK
<1>1. ConvOf[r] # caller[u].conv
  BY <1>0 DEF ProcessInv, DeletionIsAnnounced, DeletionPcs, DeletionCancels, At
<1>2. Owned(r)
  BY <1>0 DEF OwnedInv
<1>3. CASE \E g \in Gens : OwnsRun(<<r, g>>)
  <2>1. PICK g \in Gens : OwnsRun(<<r, g>>)
    BY <1>3
  <2>2. S \in SUBSET Tasks /\ <<r, g>> \notin S
    BY <1>0, <1>1
  <2>3. PICK T \in SUBSET S : CancelTasks(S, T)
    BY <1>0
  <2> HIDE DEF S
  <2> QED BY <2>1, <2>2, <2>3, CancelOwned
<1>4. CASE \E v \in Callers : InSetup(v, r)
  <2>1. PICK v \in Callers : InSetup(v, r)
    BY <1>4
  <2>2. v # u
    BY <2>1 DEF InSetup, SetupPcs, DeletionCancels, At
  <2>3. caller'[v] = caller[v]
    BY <1>0, <2>2 DEF DeletionCancels, Shapes
  <2> QED BY <2>1, <2>3 DEF Owned, InSetup
<1>5. CASE RunOp("mark", r) \in late
  <2>1. RunOp("mark", r) \in late'
    BY <1>0, <1>5 DEF CancelTasks
  <2> QED BY <2>1 DEF Owned, RunOp
<1> QED BY <1>2, <1>3, <1>4, <1>5 DEF Owned

\* A mark_interrupted nobody awaits ends its run; the others are still to come.
LEMMA LateOwned ==
  ASSUME OrderlyAdversity, ProcessInv, TypeInv, OwnedInv, NEW o \in late, LateCommit(o)
  PROVE  OwnedInv'
<1> SUFFICES ASSUME NEW r \in Runs, run'[r].status = "RUNNING", conversation'[ConvOf[r]] = "ACTIVE"
             PROVE  Owned(r)'
  BY DEF OwnedInv
<1>0. /\ Shapes /\ o.op = "mark" /\ o.run \in Runs
      /\ UNCHANGED <<task, caller>> /\ late' = late \ {o}
      /\ MarkInterrupted(o.run) \/ (~Exists(o.run) /\ UNCHANGED <<conversation, run>>)
  <2>1. Shapes /\ o.op = "mark" /\ o.run \in Runs
    BY TypeShapes DEF ProcessInv, LateMarks, TypeInv, LateShape, OpShape
  <2>2. Commit(o) => MarkInterrupted(o.run)
    BY <2>1 DEF Commit, MySqlTransaction
  <2>3. Raises(o) => ~Exists(o.run) /\ UNCHANGED <<conversation, run>>
    BY <2>1, RaisesRefused DEF Refused, stores
  <2> QED BY <2>1, <2>2, <2>3 DEF LateCommit
<1>1. /\ UNCHANGED conversation
      /\ \A s \in Runs : s # o.run => run'[s] = run[s]
      /\ run'[o.run].status # "RUNNING"
  BY <1>0 DEF MarkInterrupted, Shapes, TerminalRunStatuses, RunRow, Exists
<1>2. r # o.run /\ Owned(r)
  BY <1>1 DEF OwnedInv
<1>3. RunOp("mark", r) \in late => RunOp("mark", r) \in late'
  BY <1>0, <1>2 DEF RunOp
<1>4. /\ \A g \in Gens : OwnsRun(<<r, g>>) => OwnsRun(<<r, g>>)'
      /\ \A u \in Callers : InSetup(u, r) => InSetup(u, r)'
  BY <1>0 DEF OwnsRun, InSetup
<1> QED BY <1>2, <1>3, <1>4 DEF Owned, RunOp

\* Shutdown begins no task's cancellation before the task has begun.
LEMMA ShutdownOwned ==
  ASSUME OrderlyAdversity, ProcessInv, TypeInv, OwnedInv, Shutdown
  PROVE  OwnedInv'
<1> SUFFICES ASSUME NEW r \in Runs, run'[r].status = "RUNNING", conversation'[ConvOf[r]] = "ACTIVE"
             PROVE  Owned(r)'
  BY DEF OwnedInv
<1>0. /\ registered \in SUBSET Tasks
      /\ UNCHANGED <<conversation, run, caller>>
      /\ \A u \in Callers : caller[u].pc = "idle"
      /\ \A t \in registered : task[t].pc # "created"
      /\ Owned(r)
  BY DEF Shutdown, stores, At, TypeInv, TypeOK, OwnedInv
<1>1. PICK T \in SUBSET registered : CancelTasks(registered, T)
  BY DEF Shutdown
<1>2. \A g \in Gens : OwnsRun(<<r, g>>) => Owned(r)'
  BY <1>0, <1>1, CancelOwned
<1>3. RunOp("mark", r) \in late => Owned(r)'
  BY <1>1 DEF CancelTasks, Owned, RunOp
<1>4. \A u \in Callers : ~InSetup(u, r)
  BY <1>0 DEF InSetup, SetupPcs
<1> QED BY <1>0, <1>2, <1>3, <1>4 DEF Owned

\* A server that exits has no run left to end.
LEMMA ExitOwned ==
  ASSUME ProcessInv, OwnedInv, Exit
  PROVE  OwnedInv'
<1>1. UNCHANGED <<conversation, run>>
  BY DEF Exit, Restart, stores
<1>2. \A r \in Runs : ~Owned(r)
  <2> SUFFICES ASSUME NEW r \in Runs, Owned(r) PROVE FALSE
    OBVIOUS
  <2>1. ~(\E u \in Callers : InSetup(u, r)) /\ RunOp("mark", r) \notin late
    BY DEF ProcessInv, DrainingIsQuiet, Exit, InSetup, SetupPcs
  <2>2. PICK g \in Gens : OwnsRun(<<r, g>>)
    BY <2>1 DEF Owned
  <2>3. Live(<<r, g>>) /\ <<r, g>> \in Tasks
    BY <2>2 DEF OwnsRun, Live, WorkingPcs, LivePcs, TaskPcs, Tasks
  <2>4. <<r, g>> \in registered
    BY <2>3 DEF ProcessInv, LiveIsRegistered
  <2>5. task[<<r, g>>].pc = "ended"
    BY <2>4 DEF Exit
  <2> QED BY <2>3, <2>5 DEF Live, LivePcs
<1>3. \A r \in Runs : ~(run[r].status = "RUNNING" /\ conversation[ConvOf[r]] = "ACTIVE")
  BY <1>2 DEF OwnedInv
<1> QED BY <1>1, <1>3 DEF OwnedInv

LEMMA OwnedInit == Init => OwnedInv
BY DEF Init, OwnedInv, NoRow

LEMMA OwnedStep == OrderlyAdversity /\ IInv /\ OwnedInv /\ [Next]_vars => OwnedInv'
<1> SUFFICES ASSUME OrderlyAdversity, IInv, OwnedInv, [Next]_vars PROVE OwnedInv'
  OBVIOUS
<1>0. ProcessInv /\ TypeInv
  BY DEF IInv, ProcessInv
<1>1. CASE \E u \in Callers :
             \/ \E r \in Runs : StartRun(u, r)
             \/ \E r \in Runs, a \in Actions : ResumeRun(u, r, a)
             \/ \E c \in Conversations : DeleteRun(u, c)
  BY <1>0, <1>1, QuietOwned
<1>2. CASE \E u \in Callers : CallerStep(u)
  <2>1. PICK u \in Callers : CallerStep(u)
    BY <1>2
  <2>2. \/ \E pc \in StoreCall, next \in CallerPcs :
             /\ CallerCommits(u, pc, next)
             /\ <<pc, next>> \in {<<"start_turn", "start_setup">>, <<"claim", "resume_setup">>,
                  <<"abort", "idle">>, <<"begin_deletion", "cancel_tasks">>,
                  <<"delete_thread", "delete_memory">>,
                  <<"delete_events", "delete_history">>, <<"delete_history", "idle">>}
        \/ CallerFails(u) \/ StartSetupFails(u) \/ ResumeReads(u)
        \/ DeletionGathers(u) \/ DeletionForgets(u)
        \/ StartSetup(u) \/ ResumeSetup(u)
        \/ DeletionCancels(u)
    BY <2>1 DEF CallerStep, StoreCall, CallerPcs
  <2> QED BY <1>0, <2>2, CommitsOwned, QuietOwned, CreateOwned, DeletionCancelsOwned
<1>3. CASE \E t \in Tasks : TaskStep(t)
  BY <1>0, <1>3, TaskOwned
<1>4. CASE \E o \in late : LateCommit(o)
  BY <1>0, <1>4, LateOwned
<1>5. CASE (\E c \in Conversations : Consolidate(c)) \/ StopServer \/ UNCHANGED vars
  <2>1. UNCHANGED <<conversation, run, task, late, caller>>
    BY <1>5 DEF Consolidate, StopServer, vars, stores, process
  <2> QED BY <2>1 DEF OwnedInv, Owned, OwnsRun, InSetup, RunOp
<1>6. CASE Shutdown
  BY <1>0, <1>6, ShutdownOwned
<1>7. CASE Exit
  BY <1>0, <1>7, ExitOwned
<1>8. ~Crash /\ \A u \in Callers : ~CallerCancelled(u)
  BY DEF Crash, CallerCancelled, OrderlyAdversity
<1> QED BY <1>1, <1>2, <1>3, <1>4, <1>5, <1>6, <1>7, <1>8 DEF Next

\* When no store fails, no client hangs up and the process does not crash, no run
\* of a live conversation is left RUNNING without somebody who will end it: the
\* stream task, the handler that sets it up or aborts it, or the mark_interrupted
\* a cancelled task left behind.
THEOREM RunsAreOwned == OrderlyAdversity => (Spec => []RunningIsOwned)
<1> SUFFICES ASSUME OrderlyAdversity PROVE Spec => []RunningIsOwned
  OBVIOUS
<1>1. AssumedAdversity
  BY DEF OrderlyAdversity, AssumedAdversity
<1>2. IInv /\ OwnedInv /\ [Next]_vars => OwnedInv'
  BY OwnedStep
<1>3. OwnedInv => RunningIsOwned
  <2> SUFFICES ASSUME OwnedInv, NEW r \in Runs, Owned(r)
               PROVE  \/ LiveTasks(r) # {}
                      \/ \E u \in Callers : /\ caller[u].run = r
                                            /\ caller[u].pc \in SetupPcs
                      \/ RunOp("mark", r) \in late
    BY DEF OwnedInv, RunningIsOwned, SetupPcs
  <2>1. ASSUME NEW g \in Gens, OwnsRun(<<r, g>>) PROVE <<r, g>> \in LiveTasks(r)
    BY <2>1 DEF OwnsRun, LiveTasks, WorkingPcs, LivePcs, TaskPcs, Tasks
  <2> QED BY <2>1 DEF Owned, InSetup
<1> QED BY InvariantHolds, OwnedInit, <1>1, <1>2, <1>3, PTL DEF Spec

=============================================================================
