--------------------------- MODULE RuntimeProofs ---------------------------
(***************************************************************************)
(* Theorems about AgentRuntime for every set of conversations, runs and    *)
(* handlers and every value of the bounds.  TLC checks the same formulas   *)
(* on the instances of MCAgentRuntime.                                     *)
(*                                                                         *)
(* First type correctness, then the inductive invariant IInv of            *)
(* RuntimeInvariant and with it AtMostOneActiveRun.  Most steps are calm:  *)
(* they start nothing and revive nothing, and one lemma carries the part   *)
(* of the invariant about runs over all of them.  The steps that are not   *)
(* calm, which start, claim or complete a run, create its task or begin    *)
(* its resumption, have a lemma each.                                      *)
(***************************************************************************)
EXTENDS RuntimeInvariant, TLAPS

USE ChatLogAssumption, RuntimeAssumption DEF Actions, Gens

-----------------------------------------------------------------------------
(* Type correctness.  TypeInv is TypeOK with what the operations in flight *)
(* and the handlers' fields must look like for it to be inductive.         *)

\* The part of TypeOK about the stores, and the part about the process.
StoresOK ==
  /\ conversation \in [Conversations -> ConversationStatus]
  /\ run \in [Runs -> RunRow]
  /\ log \in [Runs -> Seq(Events)]
  /\ thread \in [Conversations -> [run : Runs \cup {NoRun}, action : 0..MaxAction]]
  /\ memory \subseteq Conversations

TasksOK   == task \in [Tasks -> TaskState] /\ OutcomeShape
CallersOK == caller \in [Callers -> CallerState] /\ CallerShape
LateOK    == late \subseteq Ops /\ LateShape

RestOK ==
  /\ registered \subseteq Tasks
  /\ consolidating \subseteq Conversations
  /\ phase \in {"up", "stopping", "draining"}

ProcessOK == TasksOK /\ CallersOK /\ LateOK /\ RestOK

\* TypeInv is the conjunction of these parts.
LEMMA TypeSplit ==
  /\ TypeInv <=> StoresOK /\ ProcessOK
  /\ TypeInv' <=> StoresOK' /\ ProcessOK'
BY DEF TypeInv, TypeOK, StoresOK, ProcessOK, TasksOK, CallersOK, LateOK, RestOK

\* A row stays well formed under the updates chat_log makes.
LEMMA RowStatusUpdate ==
  ASSUME NEW x \in RunRow, NEW s \in RunStatus, NEW p \in 0..MaxAction
  PROVE  /\ [x EXCEPT !.status = s, !.pending = p] \in RunRow
         /\ [x EXCEPT !.status = s, !.answers = @ + 1] \in RunRow
         /\ [x EXCEPT !.status = s, !.pending = p, !.answers = @ + 1] \in RunRow
<1>1. x.answers + 1 \in Nat
  BY DEF RunRow
<1> QED BY <1>1, Zenon DEF RunRow

LEMMA RowClaimUpdate ==
  ASSUME NEW x \in RunRow, NEW s \in RunStatus, NEW a \in Actions
  PROVE  [x EXCEPT !.status = s, !.pending = 0,
                   !.approvals = @ \cup {a}, !.sequence = 0] \in RunRow
<1>1. x.approvals \cup {a} \in SUBSET Actions /\ 0 \in Nat /\ 0 \in 0..MaxAction
  BY DEF RunRow
<1> QED BY <1>1, Zenon DEF RunRow

\* Each MySQL transaction of chat_log keeps the rows well formed.
LEMMA TransactionType ==
  ASSUME StoresOK, NEW o \in Ops, OpShape(o), MySqlTransaction(o)
  PROVE  /\ conversation' \in [Conversations -> ConversationStatus]
         /\ run' \in [Runs -> RunRow]
<1> DEFINE r == o.run
<1> DEFINE R == {"start_turn", "claim", "mark", "complete", "append", "record"}
<1>a. /\ o.conv \in Conversations
      /\ o.seq \in Nat
      /\ o.op \in R => r \in Runs
      /\ o.op = "claim" => o.action \in Actions
      /\ o.op = "complete" /\ o.outcome = "confirmation_required" => o.action \in Actions
  BY DEF Ops, OpShape
<1>b. NoRow \in RunRow
  BY DEF NoRow, RunRow, RunStatus
<1>c. /\ conversation \in [Conversations -> ConversationStatus]
      /\ run \in [Runs -> RunRow]
  BY DEF StoresOK
<1>d. /\ {"RUNNING", "WAITING_INPUT", "SUCCEEDED", "FAILED"} \subseteq RunStatus
      /\ 0 \in 0..MaxAction /\ Actions \subseteq 0..MaxAction
  BY DEF RunStatus, ActiveRunStatuses, TerminalRunStatuses
<1> HIDE DEF r
<1>1. CASE o.op = "start_turn" /\ StartTurn(r)
  <2>1. [NoRow EXCEPT !.status = "RUNNING"] \in RunRow
    BY <1>b, <1>d DEF RunRow
  <2> QED BY <1>1, <1>a, <1>c, <2>1 DEF StartTurn
<1>2. CASE o.op = "claim" /\ ClaimPendingAction(r, o.action)
  <2>1. [run[r] EXCEPT !.status = "RUNNING", !.pending = 0,
                       !.approvals = @ \cup {o.action}, !.sequence = 0] \in RunRow
    BY <1>2, <1>a, <1>c, <1>d, RowClaimUpdate
  <2> QED BY <1>2, <1>a, <1>c, <2>1 DEF ClaimPendingAction
<1>3. CASE o.op = "mark" /\ MarkInterrupted(r)
  <2>1. [run[r] EXCEPT !.status = "FAILED", !.answers = @ + 1] \in RunRow
    BY <1>3, <1>a, <1>c, <1>d, RowStatusUpdate
  <2> QED BY <1>3, <1>a, <1>c, <2>1 DEF MarkInterrupted
<1>4. CASE o.op = "complete" /\ CompleteRun(r, o.outcome, o.action)
  <2>1. CASE o.outcome = "confirmation_required"
    <3>1. [run[r] EXCEPT !.status = "WAITING_INPUT", !.pending = o.action] \in RunRow
      BY <1>4, <1>a, <1>c, <1>d, <2>1, RowStatusUpdate
    <3> QED BY <1>4, <1>a, <1>c, <2>1, <3>1 DEF CompleteRun
  <2>2. CASE o.outcome # "confirmation_required"
    <3> DEFINE row == [run[r] EXCEPT !.status = StatusOf(o.outcome), !.pending = 0,
                                     !.answers = @ + 1]
    <3>1. row \in RunRow
      BY <1>4, <1>a, <1>c, <1>d, RowStatusUpdate DEF StatusOf
    <3>2. run' = [run EXCEPT ![r] = row] /\ UNCHANGED conversation
      BY <1>4, <1>a, <1>c, <2>2, Zenon DEF CompleteRun
    <3> HIDE DEF row
    <3> QED BY <1>4, <1>a, <1>c, <3>1, <3>2
  <2> QED BY <2>1, <2>2
<1>5. CASE o.op = "record" /\ RecordTerminalEventSequence(r, o.seq)
  BY <1>5, <1>a, <1>c DEF RecordTerminalEventSequence, RunRow
<1>6. CASE o.op = "begin_deletion" /\ BeginConversationDeletion(o.conv)
  BY <1>6, <1>a, <1>c DEF BeginConversationDeletion, ConversationStatus
<1>7. CASE o.op = "delete_history" /\ DeleteConversation(o.conv)
  BY <1>7, <1>a, <1>b, <1>c DEF DeleteConversation, ConversationStatus
<1> QED BY <1>1, <1>2, <1>3, <1>4, <1>5, <1>6, <1>7 DEF MySqlTransaction, r

\* Each store operation keeps the stores well formed.
LEMMA CommitType ==
  ASSUME StoresOK, NEW o \in Ops, OpShape(o), Commit(o)
  PROVE  StoresOK'
<1>1. CASE MySqlTransaction(o) /\ UNCHANGED <<log, thread, memory>>
  BY <1>1, TransactionType DEF StoresOK
<1>2. CASE o.op = "append" /\ AppendEvent(o.run, o.event)
           /\ UNCHANGED <<conversation, run, thread, memory>>
  BY <1>2 DEF StoresOK, Ops, OpShape, AppendEvent
<1>3. CASE o.op = "delete_events" /\ DeleteEvents(o.conv)
           /\ UNCHANGED <<conversation, run, thread, memory>>
  BY <1>3 DEF StoresOK, DeleteEvents
<1>4. CASE o.op = "delete_thread"
           /\ thread' = [thread EXCEPT ![o.conv] = NoThread]
           /\ UNCHANGED <<conversation, run, log, memory>>
  BY <1>4 DEF StoresOK, NoThread, Ops
<1> QED BY <1>1, <1>2, <1>3, <1>4 DEF Commit

\* What a task awaits is an operation of the shape Commit expects.
LEMMA TaskOpType ==
  ASSUME TasksOK, NEW t \in Tasks
  PROVE  TaskOp(t) \in Ops /\ OpShape(TaskOp(t))
<1>1. /\ t[1] \in Runs /\ t[2] \in Nat /\ t[2] <= MaxAction
      /\ ConvOf[t[1]] \in Conversations
      /\ task[t].outcome \in Outcomes \cup {"none"}
      /\ task[t].seq \in Nat
      /\ task[t].outcome = "confirmation_required" => t[2] < MaxAction
  BY DEF TasksOK, Tasks, TaskState, OutcomeShape
<1>2. EventOf(task[t].outcome) \in Events /\ "progress" \in Events
  BY DEF EventOf, Events, TerminalEvents
<1>3. RunOp("append", t[1]) \in Ops
  BY <1>1, <1>2 DEF RunOp, Ops, OpNames
<1> USE <1>1, <1>2, <1>3 DEF TaskOp, OpShape, RunOp, Ops, OpNames
<1>4. CASE task[t].pc = "publish"
  BY <1>4
<1>5. CASE task[t].pc = "append"
  BY <1>5
<1>6. CASE task[t].pc = "complete"
  <2>1. t[2] + 1 \in 0..(MaxAction + 1)
    OBVIOUS
  <2>2. TaskOp(t) \in Ops
    BY <1>6, <2>1, Zenon
  <2>3. /\ TaskOp(t).op = "complete" /\ TaskOp(t).outcome = task[t].outcome
        /\ TaskOp(t).run = t[1] /\ TaskOp(t).conv = ConvOf[t[1]]
        /\ TaskOp(t).action = t[2] + 1
    BY <1>6, Zenon
  <2>4. OpShape(TaskOp(t))
    BY <1>1, <2>3 DEF OpShape
  <2> QED BY <2>2, <2>4
<1>7. CASE task[t].pc = "record"
  BY <1>7
<1>8. CASE task[t].pc \notin {"publish", "append", "complete", "record"}
  BY <1>8
<1> QED BY <1>4, <1>5, <1>6, <1>7, <1>8

\* The same of what a handler awaits.
LEMMA CallerOpType ==
  ASSUME CallersOK, NEW u \in Callers, caller[u].pc \in StoreCall
  PROVE  CallerOp(u) \in Ops /\ OpShape(CallerOp(u))
BY DEF CallersOK, CallerOp, RunOp, ConversationOp, Ops, OpNames, OpShape,
       CallerShape, RunPcs, ResumingPcs, StoreCall, CallerState, Events

-----------------------------------------------------------------------------
\* The initial state is well formed.
LEMMA TypeInit == Init => TypeInv
<1> SUFFICES ASSUME Init PROVE TypeInv
  OBVIOUS
<1>1. StoresOK
  BY DEF Init, StoresOK, ConversationStatus, RunRow, NoRow, RunStatus, NoThread
<1>2. TasksOK
  BY DEF Init, TasksOK, TaskState, NoTask, TaskPcs, OutcomeShape
<1>3. CallersOK
  BY DEF Init, Idle, CallersOK, CallerState, CallerPcs, CallerShape, RunPcs, ResumingPcs
<1>4. LateOK /\ RestOK
  BY DEF Init, LateOK, LateShape, RestOK
<1> QED BY <1>1, <1>2, <1>3, <1>4, TypeSplit DEF ProcessOK

\* A task that moves on to another step stays well formed.
LEMMA GotoType ==
  ASSUME TasksOK, NEW t \in Tasks, NEW pc \in TaskPcs, Goto(t, pc)
  PROVE  TasksOK'
BY DEF TasksOK, TaskState, OutcomeShape, Goto

\* A handler that has left is well formed, whatever it was at.
LEMMA LeaveType ==
  ASSUME CallersOK, NEW u \in Callers, Leave(u)
  PROVE  CallersOK'
BY DEF CallersOK, CallerState, CallerPcs, CallerShape, RunPcs, ResumingPcs, Leave, Idle

\* Cancelling tasks keeps the process well formed.
LEMMA CancelType ==
  ASSUME TasksOK, LateOK, registered \subseteq Tasks,
         NEW S \in SUBSET Tasks, NEW T \in SUBSET S, CancelTasks(S, T)
  PROVE  TasksOK' /\ LateOK' /\ registered' \subseteq Tasks
<1>1. TasksOK'
  BY DEF TasksOK, TaskState, TaskPcs, OutcomeShape, CancelTasks
<1>2. registered' \subseteq Tasks
  BY DEF CancelTasks, Unregister
<1>3. LateOK'
  BY TaskOpType DEF LateOK, LateShape, CancelTasks
<1> QED BY <1>1, <1>2, <1>3

\* Every step of a stream task keeps the state well formed.
LEMMA TaskStepType ==
  ASSUME TypeInv, NEW t \in Tasks, TaskStep(t)
  PROVE  TypeInv'
<1>0. StoresOK /\ ProcessOK /\ TasksOK /\ RestOK /\ TaskOp(t) \in Ops /\ OpShape(TaskOp(t))
  BY TypeSplit, TaskOpType DEF ProcessOK
<1>a. t[1] \in Runs /\ t[2] \in Nat /\ t[2] <= MaxAction /\ ConvOf[t[1]] \in Conversations
  BY DEF Tasks
<1>b. /\ CallersOK /\ UNCHANGED caller => CallersOK'
      /\ LateOK /\ UNCHANGED late => LateOK'
      /\ StoresOK /\ UNCHANGED stores => StoresOK'
      /\ RestOK /\ UNCHANGED <<registered, consolidating, phase>> => RestOK'
  BY DEF CallersOK, CallerShape, LateOK, LateShape, StoresOK, RestOK, stores
<1> USE DEF ProcessOK
<1>1. CASE TaskBegin(t)
  <2>1. TasksOK'
    BY <1>0, <1>1, GotoType DEF TaskBegin, TasksOK, TaskState, TaskPcs, OutcomeShape, Outcomes
  <2> QED BY <1>0, <1>1, <1>b, <2>1, TypeSplit DEF TaskBegin
<1>2. CASE TaskPublish(t)
  <2>1. StoresOK'
    BY <1>0, <1>2, CommitType DEF TaskPublish
  <2>2. TasksOK'
    BY <1>0, <1>2 DEF TaskPublish, TasksOK, TaskState, TaskPcs, OutcomeShape
  <2> QED BY <1>0, <1>2, <1>b, <2>1, <2>2, TypeSplit DEF TaskPublish
<1>3. CASE TaskWork(t)
  <2>1. StoresOK'
    BY <1>0, <1>3, <1>a DEF TaskWork, Checkpoint, StoresOK
  <2>2. TasksOK'
    BY <1>0, <1>3, GotoType DEF TaskWork, TaskPcs
  <2> QED BY <1>0, <1>3, <1>b, <2>1, <2>2, TypeSplit DEF TaskWork
<1>4. CASE TaskStops(t)
  <2> PICK outcome \in Outcomes :
         /\ outcome = "confirmation_required" => t[2] < MaxAction
         /\ Checkpoint(t, IF outcome = "confirmation_required" THEN t[2] + 1 ELSE 0)
         /\ task' = [task EXCEPT ![t].pc = "complete", ![t].outcome = outcome]
    BY <1>4 DEF TaskStops
  <2>1. StoresOK'
    <3> DEFINE next == IF outcome = "confirmation_required" THEN t[2] + 1 ELSE 0
    <3>1. next \in 0..MaxAction
      BY <1>a
    <3> HIDE DEF next
    <3> QED BY <1>0, <1>4, <1>a, <3>1 DEF TaskStops, Checkpoint, StoresOK, next
  <2>2. TasksOK'
    BY <1>0, <1>4 DEF TasksOK, TaskState, TaskPcs, OutcomeShape
  <2> QED BY <1>0, <1>4, <1>b, <2>1, <2>2, TypeSplit DEF TaskStops
<1>5. CASE TaskCompletes(t)
  <2>1. StoresOK'
    BY <1>0, <1>5, CommitType DEF TaskCompletes
  <2>2. TasksOK'
    BY <1>0, <1>5, GotoType DEF TaskCompletes, TaskPcs
  <2> QED BY <1>0, <1>5, <1>b, <2>1, <2>2, TypeSplit DEF TaskCompletes
<1>6. CASE TaskAppends(t)
  <2>1. StoresOK'
    BY <1>0, <1>6, CommitType DEF TaskAppends
  <2>2. Len(log'[t[1]]) \in Nat
    BY <2>1, <1>a DEF StoresOK
  <2>3. TasksOK'
    BY <1>0, <1>6, <2>2 DEF TaskAppends, TasksOK, TaskState, TaskPcs, OutcomeShape
  <2> QED BY <1>0, <1>6, <1>b, <2>1, <2>3, TypeSplit DEF TaskAppends
<1>7. CASE TaskRecords(t)
  <2>1. StoresOK'
    BY <1>0, <1>7, CommitType DEF TaskRecords
  <2>2. TasksOK'
    BY <1>0, <1>7, GotoType DEF TaskRecords, TaskPcs
  <2> QED BY <1>0, <1>7, <1>b, <2>1, <2>2, TypeSplit DEF TaskRecords
<1>8. CASE TaskReturns(t)
  <2>1. TasksOK'
    BY <1>0, <1>8, GotoType DEF TaskReturns, TaskPcs
  <2>2. RestOK'
    BY <1>0, <1>8, <1>a DEF TaskReturns, RestOK, Unregister
  <2> QED BY <1>0, <1>8, <1>b, <2>1, <2>2, TypeSplit DEF TaskReturns
<1>9. CASE TaskFails(t)
  <2>1. UNCHANGED stores /\ Goto(t, "interrupt")
    BY <1>9 DEF TaskFails, Raises
  <2>2. TasksOK'
    BY <1>0, <2>1, GotoType DEF TaskPcs
  <2> QED BY <1>0, <1>9, <1>b, <2>1, <2>2, TypeSplit DEF TaskFails
<1>10. CASE TaskInterrupted(t)
  <2>1. StoresOK'
    BY <1>0, <1>10, <1>b, CommitType DEF TaskInterrupted, Raises
  <2>2. TasksOK'
    BY <1>0, <1>10, GotoType DEF TaskInterrupted, TaskPcs
  <2>3. RestOK'
    BY <1>0, <1>10 DEF TaskInterrupted, RestOK, Unregister
  <2> QED BY <1>0, <1>10, <1>b, <2>1, <2>2, <2>3, TypeSplit DEF TaskInterrupted
<1> QED BY <1>1, <1>2, <1>3, <1>4, <1>5, <1>6, <1>7, <1>8, <1>9, <1>10 DEF TaskStep

\* Every step of a handler keeps the state well formed.
LEMMA CallerStepType ==
  ASSUME TypeInv, NEW u \in Callers, CallerStep(u)
  PROVE  TypeInv'
<1>0. /\ StoresOK /\ ProcessOK /\ TasksOK /\ CallersOK /\ LateOK /\ RestOK
      /\ caller[u].pc \in StoreCall => CallerOp(u) \in Ops /\ OpShape(CallerOp(u))
  BY TypeSplit, CallerOpType DEF ProcessOK
<1>b. /\ TasksOK /\ UNCHANGED task => TasksOK'
      /\ LateOK /\ UNCHANGED late => LateOK'
      /\ StoresOK /\ UNCHANGED stores => StoresOK'
      /\ RestOK /\ UNCHANGED <<registered, consolidating, phase>> => RestOK'
  BY DEF TasksOK, OutcomeShape, LateOK, LateShape, StoresOK, RestOK, stores
<1> USE DEF ProcessOK
<1>c. ASSUME NEW pc \in StoreCall, NEW next \in CallerPcs, CallerCommits(u, pc, next),
             next \notin RunPcs \/ (pc = "start_turn" /\ next = "start_setup")
                                \/ (pc = "claim" /\ next = "resume_setup")
      PROVE  TypeInv'
  <2>1. StoresOK'
    BY <1>0, <1>c, CommitType DEF CallerCommits, At
  <2>2. CallersOK'
    <3>1. CASE next = "idle"
      BY <1>0, <1>c, <3>1, LeaveType DEF CallerCommits
    <3>2. CASE next # "idle"
      BY <1>0, <1>c, <3>2 DEF CallerCommits, CallerGoto, At, CallersOK, CallerState,
         CallerShape, RunPcs, ResumingPcs
    <3> QED BY <3>1, <3>2
  <2> QED BY <1>0, <1>b, <1>c, <2>1, <2>2, TypeSplit DEF CallerCommits
<1>1. CASE CallerCommits(u, "start_turn", "start_setup")
  BY <1>1, <1>c DEF StoreCall, CallerPcs
<1>2. CASE CallerCommits(u, "claim", "resume_setup")
  BY <1>2, <1>c DEF StoreCall, CallerPcs
<1>3. CASE CallerCommits(u, "abort", "idle")
  BY <1>3, <1>c DEF StoreCall, CallerPcs, RunPcs
<1>4. CASE CallerCommits(u, "begin_deletion", "cancel_tasks")
  BY <1>4, <1>c DEF StoreCall, CallerPcs, RunPcs
<1>5. CASE CallerCommits(u, "delete_thread", "delete_memory")
  BY <1>5, <1>c DEF StoreCall, CallerPcs, RunPcs
<1>6. CASE CallerCommits(u, "delete_events", "delete_history")
  BY <1>6, <1>c DEF StoreCall, CallerPcs, RunPcs
<1>7. CASE CallerCommits(u, "delete_history", "idle")
  BY <1>7, <1>c DEF StoreCall, CallerPcs, RunPcs
<1>8. CASE CallerFails(u)
  BY <1>0, <1>8, <1>b, LeaveType, TypeSplit DEF CallerFails, Raises
<1>9. CASE StartSetup(u)
  <2>1. <<caller[u].run, 0>> \in Tasks
    BY <1>0, <1>9 DEF StartSetup, At, CallersOK, CallerShape, RunPcs, Tasks
  <2>2. TasksOK' /\ RestOK'
    BY <1>0, <1>9, <2>1 DEF StartSetup, StartStreamTask, TasksOK, TaskState, NoTask,
       TaskPcs, OutcomeShape, RestOK
  <2> QED BY <1>0, <1>9, <1>b, <2>2, LeaveType, TypeSplit DEF StartSetup
<1>10. CASE StartSetupFails(u)
  <2>1. CallersOK'
    BY <1>0, <1>10 DEF StartSetupFails, CallerGoto, At, CallersOK, CallerState, CallerPcs,
       CallerShape, RunPcs, ResumingPcs
  <2> QED BY <1>0, <1>10, <1>b, <2>1, TypeSplit DEF StartSetupFails
<1>11. CASE ResumeReads(u)
  <2>1. CallersOK'
    <3>1. CASE Leave(u)
      BY <1>0, <3>1, LeaveType
    <3>2. CASE CallerGoto(u, "claim")
      BY <1>0, <1>11, <3>2 DEF ResumeReads, CallerGoto, At, CallersOK, CallerState, CallerPcs,
         CallerShape, RunPcs, ResumingPcs
    <3> QED BY <1>11, <3>1, <3>2 DEF ResumeReads
  <2> QED BY <1>0, <1>11, <1>b, <2>1, TypeSplit DEF ResumeReads
<1>12. CASE ResumeSetup(u)
  <2>1. <<caller[u].run, caller[u].action>> \in Tasks
    BY <1>0, <1>12 DEF ResumeSetup, At, CallersOK, CallerShape, CallerState, RunPcs, Tasks
  <2>2. TasksOK' /\ RestOK'
    BY <1>0, <1>12, <2>1 DEF ResumeSetup, StartStreamTask, TasksOK, TaskState, NoTask,
       TaskPcs, OutcomeShape, RestOK
  <2> QED BY <1>0, <1>12, <1>b, <2>2, LeaveType, TypeSplit DEF ResumeSetup
<1>13. CASE DeletionCancels(u)
  <2> DEFINE S == {t \in registered : ConvOf[t[1]] = caller[u].conv}
  <2>0. S \subseteq Tasks
    BY <1>0 DEF RestOK
  <2>1. PICK T \in SUBSET S : CancelTasks(S, T)
    BY <1>13 DEF DeletionCancels
  <2>2. TasksOK' /\ LateOK' /\ registered' \subseteq Tasks
    BY <1>0, <2>0, <2>1, CancelType DEF RestOK
  <2>3. CallersOK'
    <3>1. caller' = [caller EXCEPT ![u].pc = "gather", ![u].waits = S]
      BY <1>13 DEF DeletionCancels
    <3> DEFINE row == [caller[u] EXCEPT !.pc = "gather", !.waits = S]
    <3>a. S \in SUBSET Tasks /\ "gather" \in CallerPcs
      BY <2>0 DEF CallerPcs
    <3> HIDE DEF S
    <3>b. caller \in [Callers -> CallerState] /\ caller[u] \in CallerState
      BY <1>0 DEF CallersOK
    <3>c. row \in CallerState
      BY <3>a, <3>b DEF CallerState
    <3>d. caller' = [caller EXCEPT ![u] = row]
      BY <3>1, <3>b, Zenon
    <3>2. caller' \in [Callers -> CallerState]
      <4> HIDE DEF row
      <4> QED BY <3>b, <3>c, <3>d
    <3>3. CallerShape'
      BY <1>0, <3>1 DEF CallersOK, CallerState, CallerShape, RunPcs, ResumingPcs
    <3> QED BY <3>2, <3>3 DEF CallersOK
  <2> QED BY <1>0, <1>13, <1>b, <2>2, <2>3, TypeSplit DEF DeletionCancels, RestOK
<1>14. CASE DeletionGathers(u)
  <2>1. CallersOK'
    BY <1>0, <1>14 DEF DeletionGathers, CallerGoto, At, CallersOK, CallerState, CallerPcs,
       CallerShape, RunPcs, ResumingPcs
  <2> QED BY <1>0, <1>14, <1>b, <2>1, TypeSplit DEF DeletionGathers
<1>15. CASE DeletionForgets(u)
  <2>1. StoresOK'
    BY <1>0, <1>15 DEF DeletionForgets, StoresOK
  <2>2. CallersOK'
    <3>1. CASE Leave(u)
      BY <1>0, <3>1, LeaveType
    <3>2. CASE CallerGoto(u, "delete_events")
      BY <1>0, <3>2 DEF CallerGoto, CallersOK, CallerState, CallerPcs, CallerShape,
         RunPcs, ResumingPcs
    <3> QED BY <1>15, <3>1, <3>2 DEF DeletionForgets
  <2> QED BY <1>0, <1>15, <1>b, <2>1, <2>2, TypeSplit DEF DeletionForgets
<1> QED BY <1>1, <1>2, <1>3, <1>4, <1>5, <1>6, <1>7, <1>8, <1>9, <1>10, <1>11,
           <1>12, <1>13, <1>14, <1>15 DEF CallerStep

\* Every other step: new calls, cancelled calls, late operations, memory
\* consolidation, shutdown and crash.
LEMMA OtherStepType ==
  ASSUME TypeInv, Next,
         \A t \in Tasks : ~TaskStep(t), \A u \in Callers : ~CallerStep(u)
  PROVE  TypeInv'
<1>0. StoresOK /\ ProcessOK /\ TasksOK /\ CallersOK /\ LateOK /\ RestOK
  BY TypeSplit DEF ProcessOK
<1>b. /\ TasksOK /\ UNCHANGED task => TasksOK'
      /\ CallersOK /\ UNCHANGED caller => CallersOK'
      /\ LateOK /\ UNCHANGED late => LateOK'
      /\ StoresOK /\ UNCHANGED stores => StoresOK'
      /\ RestOK /\ UNCHANGED <<registered, consolidating, phase>> => RestOK'
  BY DEF TasksOK, OutcomeShape, CallersOK, CallerShape, LateOK, LateShape, StoresOK, RestOK,
     stores
<1> USE DEF ProcessOK
<1>1. ASSUME NEW u \in Callers, NEW r \in Runs, StartRun(u, r)
      PROVE  TypeInv'
  <2>1. CallersOK'
    BY <1>0, <1>1 DEF StartRun, Begin, CallersOK, CallerState, CallerPcs, CallerShape,
       RunPcs, ResumingPcs
  <2> QED BY <1>0, <1>1, <1>b, <2>1, TypeSplit DEF StartRun, Begin
<1>2. ASSUME NEW u \in Callers, NEW r \in Runs, NEW a \in Actions, ResumeRun(u, r, a)
      PROVE  TypeInv'
  <2>1. CallersOK'
    BY <1>0, <1>2 DEF ResumeRun, Begin, CallersOK, CallerState, CallerPcs, CallerShape,
       RunPcs, ResumingPcs
  <2> QED BY <1>0, <1>2, <1>b, <2>1, TypeSplit DEF ResumeRun, Begin
<1>3. ASSUME NEW u \in Callers, NEW c \in Conversations, DeleteRun(u, c)
      PROVE  TypeInv'
  <2>1. CallersOK'
    BY <1>0, <1>3 DEF DeleteRun, Begin, CallersOK, CallerState, CallerPcs, CallerShape,
       RunPcs, ResumingPcs
  <2> QED BY <1>0, <1>3, <1>b, <2>1, TypeSplit DEF DeleteRun, Begin
<1>4. ASSUME NEW u \in Callers, CallerCancelled(u)
      PROVE  TypeInv'
  <2>1. CallersOK' /\ UNCHANGED <<stores, consolidating, phase>>
    BY <1>0, <1>4, LeaveType DEF CallerCancelled
  <2>2. CASE At(u, "gather")
    <3>1. PICK T \in SUBSET caller[u].waits : CancelTasks(caller[u].waits, T)
      BY <1>4, <2>2 DEF CallerCancelled
    <3>2. caller[u].waits \in SUBSET Tasks
      BY <1>0 DEF CallersOK, CallerState
    <3>3. TasksOK' /\ LateOK' /\ registered' \subseteq Tasks
      BY <1>0, <3>1, <3>2, CancelType DEF RestOK
    <3> QED BY <1>0, <1>b, <2>1, <3>3, TypeSplit DEF RestOK
  <2>3. CASE ~At(u, "gather")
    <3>1. /\ UNCHANGED <<task, registered>>
          /\ \/ late' = late
             \/ caller[u].pc \in StoreCall /\ late' = late \cup {CallerOp(u)}
      BY <1>4, <2>3 DEF CallerCancelled
    <3>2. LateOK'
      BY <1>0, <3>1, CallerOpType DEF LateOK, LateShape
    <3> QED BY <1>0, <1>b, <2>1, <3>1, <3>2, TypeSplit
  <2> QED BY <2>2, <2>3
<1>5. ASSUME NEW o \in late, LateCommit(o)
      PROVE  TypeInv'
  <2>1. o \in Ops /\ OpShape(o)
    BY <1>0 DEF LateOK, LateShape
  <2>2. StoresOK'
    BY <1>0, <1>5, <1>b, <2>1, CommitType DEF LateCommit, Raises
  <2>3. LateOK'
    BY <1>0, <1>5 DEF LateCommit, LateOK, LateShape
  <2> QED BY <1>0, <1>5, <1>b, <2>2, <2>3, TypeSplit DEF LateCommit
<1>6. ASSUME NEW c \in Conversations, Consolidate(c)
      PROVE  TypeInv'
  <2>1. StoresOK' /\ RestOK'
    BY <1>0, <1>6 DEF Consolidate, StoresOK, RestOK
  <2> QED BY <1>0, <1>6, <1>b, <2>1, TypeSplit DEF Consolidate
<1>7. CASE StopServer
  <2>1. RestOK'
    BY <1>0, <1>7 DEF StopServer, RestOK
  <2> QED BY <1>0, <1>7, <1>b, <2>1, TypeSplit DEF StopServer
<1>8. CASE Shutdown
  <2>1. PICK T \in SUBSET registered : CancelTasks(registered, T)
    BY <1>8 DEF Shutdown
  <2>2. TasksOK' /\ LateOK' /\ registered' \subseteq Tasks
    BY <1>0, <2>1, CancelType DEF RestOK
  <2> QED BY <1>0, <1>8, <1>b, <2>2, TypeSplit DEF Shutdown, RestOK
<1>9. ASSUME Restart PROVE TypeInv'
  <2>1. TasksOK'
    BY <1>0, <1>9 DEF Restart, TasksOK, TaskState, TaskPcs, OutcomeShape
  <2>2. CallersOK'
    BY <1>0, <1>9 DEF Restart, Idle, CallersOK, CallerState, CallerPcs, CallerShape, RunPcs,
       ResumingPcs
  <2>3. LateOK' /\ RestOK'
    BY <1>9 DEF Restart, LateOK, LateShape, RestOK
  <2> QED BY <1>0, <1>9, <1>b, <2>1, <2>2, <2>3, TypeSplit DEF Restart
<1> QED BY <1>1, <1>2, <1>3, <1>4, <1>5, <1>6, <1>7, <1>8, <1>9 DEF Next, Exit, Crash

\* Every step, stuttering included, keeps the state well formed.
LEMMA TypeStep == TypeInv /\ [Next]_vars => TypeInv'
<1> SUFFICES ASSUME TypeInv, [Next]_vars PROVE TypeInv'
  OBVIOUS
<1>1. CASE Next
  BY <1>1, TaskStepType, CallerStepType, OtherStepType
<1>2. CASE UNCHANGED vars
  BY <1>2 DEF vars, stores, process, TypeInv, TypeOK, CallerShape, OutcomeShape, LateShape
<1> QED BY <1>1, <1>2

\* Under every adversity each variable keeps its shape: the rows of chat_log stay
\* rows, and only well formed operations are ever handed to a worker thread.
THEOREM TypeCorrect == Spec => []TypeOK
<1>1. TypeInv => TypeOK
  BY DEF TypeInv
<1> QED BY TypeInit, TypeStep, <1>1, PTL DEF Spec

-----------------------------------------------------------------------------
(* Deleted conversations.                                                  *)

\* Whatever a step is, it changes the MySQL rows by one transaction at most.
LEMMA OneTransaction ==
  ASSUME TypeInv, [Next]_vars
  PROVE  \/ UNCHANGED <<conversation, run>>
         \/ \E o \in Ops : OpShape(o) /\ MySqlTransaction(o)
<1> DEFINE Unchanged == UNCHANGED <<conversation, run>>
           Changes == \E o \in Ops : OpShape(o) /\ MySqlTransaction(o)
<1>0. TasksOK /\ CallersOK /\ LateOK
  BY TypeSplit DEF ProcessOK
<1>1. ASSUME NEW o \in Ops, OpShape(o), Commit(o) \/ Raises(o)
      PROVE  Unchanged \/ Changes
  BY <1>1 DEF Commit, Raises, stores
<1> HIDE DEF Changes
<1>2. ASSUME NEW t \in Tasks, TaskStep(t)
      PROVE  Unchanged \/ Changes
  <2>1. TaskOp(t) \in Ops /\ OpShape(TaskOp(t))
    BY <1>0, TaskOpType
  <2>2. \/ UNCHANGED <<conversation, run>>
        \/ Commit(TaskOp(t)) \/ Raises(TaskOp(t))
    BY <1>2 DEF TaskStep, TaskBegin, TaskPublish, TaskWork, TaskStops, TaskCompletes,
       TaskAppends, TaskRecords, TaskReturns, TaskFails, TaskInterrupted, stores
  <2> QED BY <1>1, <2>1, <2>2
<1>3. ASSUME NEW u \in Callers, CallerStep(u)
      PROVE  Unchanged \/ Changes
  <2>1. \/ UNCHANGED <<conversation, run>>
        \/ /\ caller[u].pc \in StoreCall
           /\ Commit(CallerOp(u)) \/ Raises(CallerOp(u))
    BY <1>3 DEF CallerStep, CallerCommits, CallerFails, StartSetup, StartSetupFails,
       ResumeReads, ResumeSetup, DeletionCancels, DeletionGathers, DeletionForgets,
       At, StoreCall, stores
  <2> QED BY <1>0, <1>1, <2>1, CallerOpType
<1>4. ASSUME NEW o \in late, LateCommit(o)
      PROVE  Unchanged \/ Changes
  BY <1>0, <1>1, <1>4 DEF LateCommit, LateOK, LateShape
<1>5. CASE Next
  <2>1. \/ Unchanged
        \/ \E t \in Tasks : TaskStep(t)
        \/ \E u \in Callers : CallerStep(u)
        \/ \E o \in late : LateCommit(o)
    BY <1>5 DEF Next, StartRun, ResumeRun, DeleteRun, Begin, CallerCancelled, Consolidate,
       StopServer, Shutdown, Exit, Crash, Restart, stores
  <2> QED BY <1>2, <1>3, <1>4, <2>1 DEF Changes
<1>6. CASE UNCHANGED vars
  BY <1>6 DEF vars, stores
<1> QED BY <1>5, <1>6 DEF Changes

\* No transaction revives a run of a conversation whose row is gone.
LEMMA TransactionGone ==
  ASSUME TypeInv, GoneStaysGone, NEW o \in Ops, OpShape(o), MySqlTransaction(o)
  PROVE  GoneStaysGone'
<1>0. /\ conversation \in [Conversations -> ConversationStatus]
      /\ run \in [Runs -> RunRow]
      /\ o.conv \in Conversations
      /\ o.op \in {"start_turn", "claim", "mark", "complete", "record"} => o.run \in Runs
      /\ NoRow.status = "ABSENT"
      /\ ConvOf \in [Runs -> Conversations]
  BY TypeSplit DEF StoresOK, Ops, OpShape, NoRow
<1> USE <1>0 DEF GoneStaysGone, Exists
<1>1. CASE o.op = "start_turn" /\ StartTurn(o.run)
  BY <1>1 DEF StartTurn, StartTurnAllowed
<1>2. CASE o.op = "claim" /\ ClaimPendingAction(o.run, o.action)
  BY <1>2 DEF ClaimPendingAction, ClaimAllowed
<1>3. CASE o.op = "mark" /\ MarkInterrupted(o.run)
  BY <1>3 DEF MarkInterrupted
<1>4. CASE o.op = "complete" /\ CompleteRun(o.run, o.outcome, o.action)
  BY <1>4 DEF CompleteRun
<1>5. CASE o.op = "record" /\ RecordTerminalEventSequence(o.run, o.seq)
  BY <1>5 DEF RecordTerminalEventSequence
<1>6. CASE o.op = "begin_deletion" /\ BeginConversationDeletion(o.conv)
  BY <1>6 DEF BeginConversationDeletion
<1>7. CASE o.op = "delete_history" /\ DeleteConversation(o.conv)
  BY <1>7 DEF DeleteConversation
<1> QED BY <1>1, <1>2, <1>3, <1>4, <1>5, <1>6, <1>7 DEF MySqlTransaction

\* Under every adversity, late commits and crashes included: once a conversation's
\* row is deleted, none of its runs has a row again.
THEOREM GoneIsForGood == Spec => []GoneStaysGone
<1>1. Init => GoneStaysGone
  BY DEF Init, GoneStaysGone
<1>2. TypeInv /\ GoneStaysGone /\ [Next]_vars => GoneStaysGone'
  <2> SUFFICES ASSUME TypeInv, GoneStaysGone, [Next]_vars PROVE GoneStaysGone'
    OBVIOUS
  <2>1. CASE UNCHANGED <<conversation, run>>
    BY <2>1 DEF GoneStaysGone, Exists
  <2>2. CASE \E o \in Ops : OpShape(o) /\ MySqlTransaction(o)
    BY <2>2, TransactionGone
  <2> QED BY <2>1, <2>2, OneTransaction
<1> QED BY TypeInit, TypeStep, <1>1, <1>2, PTL DEF Spec

-----------------------------------------------------------------------------
(* One run in the making.                                                  *)

\* The part of the invariant about runs, and the part about the process.
RunInv ==
  /\ AbsentIsUnused
  /\ LiveIsLast
  /\ WorkingIsRunning
  /\ WaitingAsksNext
  /\ SetupIsExclusive
  /\ ResumingIsCurrent
  /\ OneInTheMaking

ProcessInv ==
  /\ DeletionIsAnnounced
  /\ LateMarks
  /\ DrainingIsQuiet
  /\ LiveIsRegistered

\* A calm step, as conversations, rows, tasks and handlers see it.
CalmConversations ==
  \A c \in Conversations :
    /\ conversation'[c] = "ACTIVE" => conversation[c] = "ACTIVE"
    /\ conversation[c] = "GONE" => conversation'[c] = "GONE"

CalmRow(r) ==
  /\ run'[r].pending = run[r].pending
  /\ run'[r].approvals = run[r].approvals
  /\ run[r].status # "ABSENT" => run'[r].status # "ABSENT"
  /\ run'[r].status \in ActiveRunStatuses => run[r].status \in ActiveRunStatuses
  /\ run'[r].status = "WAITING_INPUT" => run[r].status = "WAITING_INPUT"
  /\ \/ run'[r].status = run[r].status
     \/ conversation'[ConvOf[r]] # "ACTIVE"
     \/ /\ \A g \in Gens : task'[<<r, g>>].pc \notin WorkingPcs
        /\ \A u \in Callers : caller'[u].run = r => caller'[u].pc \notin SetupPcs

CalmRows ==
  \A r \in Runs :
    CalmRow(r) \/ (run'[r] = NoRow /\ conversation'[ConvOf[r]] = "GONE")

CalmTasks ==
  \A r \in Runs : \A g \in Gens :
    /\ task'[<<r, g>>].pc # "none" <=> task[<<r, g>>].pc # "none"
    /\ task'[<<r, g>>].pc \in LivePcs => task[<<r, g>>].pc \in LivePcs
    /\ task'[<<r, g>>].pc \in WorkingPcs => task[<<r, g>>].pc \in WorkingPcs

CalmCallers ==
  \A u \in Callers :
    /\ caller'[u].pc \in SetupPcs =>
         /\ caller[u].pc \in SetupPcs
         /\ caller'[u].run = caller[u].run /\ caller'[u].action = caller[u].action
    /\ caller'[u].pc \in ResumingPcs =>
         /\ caller[u].pc \in ResumingPcs
         /\ caller'[u].run = caller[u].run /\ caller'[u].action = caller[u].action

Calm == CalmConversations /\ CalmRows /\ CalmTasks /\ CalmCallers

\* What SetupIsExclusive says of one handler and its run.
SetupOf(u, r) ==
  /\ \A v \in Callers : InSetup(v, r) => v = u
  /\ \A g \in Gens : Known(<<r, g>>) => g < caller[u].action /\ ~Live(<<r, g>>)
  /\ run[r].status # "WAITING_INPUT"
  /\ conversation[ConvOf[r]] = "ACTIVE" => run[r].status = "RUNNING"
  /\ run[r].pending = 0
  /\ \A a \in run[r].approvals : a <= caller[u].action

\* A calm step keeps what IInv says of runs.
LEMMA CalmStep ==
  ASSUME RunInv, TypeInv, TypeInv', Calm
  PROVE  RunInv'
<1>0. /\ CalmConversations /\ CalmRows /\ CalmTasks /\ CalmCallers
      /\ ConvOf \in [Runs -> Conversations]
      /\ NoRow.status = "ABSENT" /\ NoRow.pending = 0 /\ NoRow.approvals = {}
  BY DEF Calm, NoRow
<1>1. AbsentIsUnused'
  BY <1>0 DEF RunInv, AbsentIsUnused, Known, InSetup, Resuming, Exists, CalmConversations,
     CalmRows, CalmRow, CalmTasks, CalmCallers
<1>2. LiveIsLast'
  BY <1>0 DEF RunInv, LiveIsLast, Live, Known, CalmTasks
<1>3. WorkingIsRunning'
  <2> SUFFICES ASSUME NEW r \in Runs, NEW g \in Gens, Working(<<r, g>>)'
               PROVE  /\ \A a \in run'[r].approvals : a <= g
                      /\ conversation'[ConvOf[r]] = "ACTIVE" => run'[r].status = "RUNNING"
    BY DEF WorkingIsRunning
  <2>1. Working(<<r, g>>)
    BY <1>0 DEF Working, CalmTasks
  <2>2. /\ \A a \in run[r].approvals : a <= g
        /\ conversation[ConvOf[r]] = "ACTIVE" => run[r].status = "RUNNING"
    BY <2>1 DEF RunInv, WorkingIsRunning
  <2> QED BY <1>0, <2>2 DEF CalmRows, CalmRow, CalmConversations, Working
<1>4. WaitingAsksNext'
  BY <1>0 DEF RunInv, WaitingAsksNext, Known, CalmTasks, CalmRows, CalmRow
<1>5. SetupIsExclusive'
  <2> SUFFICES ASSUME NEW u \in Callers, NEW r \in Runs, InSetup(u, r)'
               PROVE  SetupOf(u, r)'
    BY DEF SetupIsExclusive, SetupOf
  <2>1. InSetup(u, r) /\ caller'[u].action = caller[u].action
    BY <1>0 DEF InSetup, CalmCallers
  <2>2. SetupOf(u, r)
    BY <2>1 DEF RunInv, SetupIsExclusive, SetupOf
  <2>3. \A v \in Callers : InSetup(v, r)' => v = u
    BY <1>0, <2>2 DEF SetupOf, InSetup, CalmCallers
  <2>4. \A g \in Gens : Known(<<r, g>>)' => g < caller'[u].action /\ ~Live(<<r, g>>)'
    BY <1>0, <2>1, <2>2 DEF SetupOf, Known, Live, CalmTasks
  <2>5. /\ run'[r].status # "WAITING_INPUT"
        /\ conversation'[ConvOf[r]] = "ACTIVE" => run'[r].status = "RUNNING"
        /\ run'[r].pending = 0
        /\ \A a \in run'[r].approvals : a <= caller'[u].action
    BY <1>0, <2>1, <2>2 DEF SetupOf, InSetup, CalmRows, CalmRow, CalmConversations
  <2> QED BY <2>3, <2>4, <2>5 DEF SetupOf
<1>6. ResumingIsCurrent'
  BY <1>0 DEF RunInv, ResumingIsCurrent, Resuming, InSetup, Live, CalmTasks, CalmRows, CalmRow,
     CalmCallers
<1>7. OneInTheMaking'
  <2>1. \A r \in Runs : InTheMaking(r)' => InTheMaking(r)
    BY <1>0 DEF InTheMaking, Active, Working, InSetup, CalmTasks, CalmRows, CalmRow, CalmCallers,
       ActiveRunStatuses
  <2> QED BY <2>1 DEF RunInv, OneInTheMaking
<1> QED BY <1>1, <1>2, <1>3, <1>4, <1>5, <1>6, <1>7 DEF RunInv

-----------------------------------------------------------------------------
(* The steps that are not calm.                                            *)

\* The shapes of rows, tasks and handlers that the lemmas below rely on.
Shapes ==
  /\ conversation \in [Conversations -> ConversationStatus]
  /\ run \in [Runs -> RunRow]
  /\ task \in [Tasks -> TaskState]
  /\ caller \in [Callers -> CallerState]
  /\ CallerShape

LEMMA TypeShapes == TypeInv => Shapes
BY DEF TypeInv, TypeOK, Shapes

\* The same of ResumingIsCurrent.
ResumingOf(u, r) ==
  /\ \A g \in Gens : g < caller[u].action => ~Live(<<r, g>>)
  /\ \A v \in Callers : InSetup(v, r) => caller[u].action <= caller[v].action
  /\ run[r].status = "WAITING_INPUT" => caller[u].action <= run[r].pending

\* A working task is alive, and a task that is alive has been created.
LEMMA WorkingLiveKnown ==
  \A r \in Runs : \A g \in Gens :
    /\ Working(<<r, g>>) => Live(<<r, g>>)
    /\ Live(<<r, g>>) => Known(<<r, g>>)
BY DEF Working, Live, Known, WorkingPcs, LivePcs, TaskPcs

\* start_turn commits: the run was unused and nothing else is in the making.
LEMMA StartTurnStep ==
  ASSUME RunInv, TypeInv, NEW u \in Callers, At(u, "start_turn"),
         StartTurn(caller[u].run), CallerGoto(u, "start_setup"), UNCHANGED task
  PROVE  RunInv'
<1> DEFINE r == caller[u].run
<1>0. /\ Shapes
      /\ r \in Runs /\ caller[u].action = 0
      /\ StartTurnAllowed(r) /\ ConvOf[r] \in Conversations
  BY TypeShapes DEF Shapes, CallerShape, At, RunPcs, StartTurn
<1>1. /\ \A g \in Gens : ~Known(<<r, g>>)
      /\ \A v \in Callers : ~InSetup(v, r) /\ ~Resuming(v, r)
      /\ run[r].pending = 0 /\ run[r].approvals = {}
  BY <1>0 DEF RunInv, AbsentIsUnused, StartTurnAllowed
<1>2. /\ run'[r].status = "RUNNING" /\ run'[r].pending = 0 /\ run'[r].approvals = {}
      /\ \A s \in Runs : s # r => run'[s] = run[s]
      /\ conversation' = conversation /\ task' = task
  BY <1>0 DEF StartTurn, Shapes, NoRow
<1>3. /\ caller'[u].pc = "start_setup" /\ caller'[u].run = r /\ caller'[u].action = 0
      /\ \A v \in Callers : v # u => caller'[v] = caller[v]
  BY <1>0 DEF Shapes, CallerState, CallerGoto
<1>4. \A v \in Callers : \A s \in Runs :
        /\ InSetup(v, s)' => (InSetup(v, s) /\ v # u) \/ (v = u /\ s = r)
        /\ Resuming(v, s)' => Resuming(v, s) /\ v # u
  BY <1>3, Zenon DEF InSetup, Resuming, SetupPcs, ResumingPcs
<1>5. \A s \in Runs : \A g \in Gens :
        /\ Known(<<s, g>>)' <=> Known(<<s, g>>)
        /\ Live(<<s, g>>)' <=> Live(<<s, g>>)
        /\ Working(<<s, g>>)' <=> Working(<<s, g>>)
  BY <1>2 DEF Known, Live, Working
<1> HIDE DEF r
<1>6. AbsentIsUnused'
  BY <1>2, <1>4, <1>5 DEF RunInv, AbsentIsUnused, Exists
<1>7. LiveIsLast'
  BY <1>5 DEF RunInv, LiveIsLast
<1>8. WorkingIsRunning'
  BY <1>1, <1>2, <1>5, WorkingLiveKnown DEF RunInv, WorkingIsRunning
<1>9. WaitingAsksNext'
  BY <1>2, <1>5 DEF RunInv, WaitingAsksNext
<1>10. SetupIsExclusive'
  <2> SUFFICES ASSUME NEW v \in Callers, NEW s \in Runs, InSetup(v, s)'
               PROVE  SetupOf(v, s)'
    BY DEF SetupIsExclusive, SetupOf
  <2>1. CASE s = r
    BY <1>1, <1>2, <1>3, <1>4, <1>5, <2>1 DEF SetupOf
  <2>2. CASE s # r
    <3>1. InSetup(v, s) /\ v # u /\ SetupOf(v, s)
      BY <1>4, <2>2, Zenon DEF RunInv, SetupIsExclusive, SetupOf
    <3> QED BY <1>2, <1>3, <1>4, <1>5, <2>2, <3>1 DEF SetupOf
  <2> QED BY <2>1, <2>2
<1>11. ResumingIsCurrent'
  <2> SUFFICES ASSUME NEW v \in Callers, NEW s \in Runs, Resuming(v, s)'
               PROVE  ResumingOf(v, s)'
    BY DEF ResumingIsCurrent, ResumingOf
  <2>1. Resuming(v, s) /\ v # u /\ s # r /\ ResumingOf(v, s)
    BY <1>1, <1>4 DEF RunInv, ResumingIsCurrent, ResumingOf
  <2> QED BY <1>2, <1>3, <1>4, <1>5, <2>1 DEF ResumingOf
<1>12. OneInTheMaking'
  <2>1. \A s \in Runs : s # r /\ InTheMaking(s)' => InTheMaking(s)
    BY <1>2, <1>4, <1>5 DEF InTheMaking, Active
  <2>2. \A s \in Runs : ConvOf[s] = ConvOf[r] => ~InTheMaking(s)
    BY <1>0, <1>1, WorkingLiveKnown DEF RunInv, InTheMaking, StartTurnAllowed, Siblings, Active,
       ActiveRunStatuses, WorkingIsRunning, SetupIsExclusive
  <2> QED BY <1>0, <2>1, <2>2 DEF RunInv, OneInTheMaking
<1> QED BY <1>6, <1>7, <1>8, <1>9, <1>10, <1>11, <1>12 DEF RunInv

\* claim_pending_action commits: the run waited, so that nobody else has it.
LEMMA ClaimStep ==
  ASSUME RunInv, TypeInv, NEW u \in Callers, At(u, "claim"),
         ClaimPendingAction(caller[u].run, caller[u].action),
         CallerGoto(u, "resume_setup"), UNCHANGED task
  PROVE  RunInv'
<1> DEFINE r == caller[u].run
<1> DEFINE a == caller[u].action
<1>0. /\ Shapes
      /\ r \in Runs /\ a \in Nat
      /\ run[r].status = "WAITING_INPUT" /\ run[r].pending = a
      /\ Resuming(u, r)
  BY TypeShapes DEF Shapes, CallerShape, CallerState, At, RunPcs, ClaimPendingAction, ClaimAllowed,
     Resuming, ResumingPcs
<1>1. /\ \A g \in Gens : Known(<<r, g>>) => g < a /\ ~Live(<<r, g>>)
      /\ \A b \in run[r].approvals : b <= a
      /\ \A v \in Callers : ~InSetup(v, r)
      /\ \A v \in Callers : Resuming(v, r) => caller[v].action <= a
  BY <1>0 DEF RunInv, WaitingAsksNext, ResumingIsCurrent, SetupIsExclusive
<1>2. /\ run'[r].status = "RUNNING" /\ run'[r].pending = 0
      /\ run'[r].approvals = run[r].approvals \cup {a}
      /\ \A s \in Runs : s # r => run'[s] = run[s]
      /\ conversation' = conversation /\ task' = task
  BY <1>0 DEF ClaimPendingAction, Shapes, RunRow
<1>3. /\ caller'[u].pc = "resume_setup" /\ caller'[u].run = r /\ caller'[u].action = a
      /\ \A v \in Callers : v # u => caller'[v] = caller[v]
  BY <1>0 DEF Shapes, CallerState, CallerGoto
<1>4. \A v \in Callers : \A s \in Runs :
        /\ InSetup(v, s)' => (InSetup(v, s) /\ v # u) \/ (v = u /\ s = r)
        /\ Resuming(v, s)' => Resuming(v, s) /\ v # u
  BY <1>3, Zenon DEF InSetup, Resuming, SetupPcs, ResumingPcs
<1>5. \A s \in Runs : \A g \in Gens :
        /\ Known(<<s, g>>)' <=> Known(<<s, g>>)
        /\ Live(<<s, g>>)' <=> Live(<<s, g>>)
        /\ Working(<<s, g>>)' <=> Working(<<s, g>>)
  BY <1>2 DEF Known, Live, Working
<1> HIDE DEF r, a
<1>6. AbsentIsUnused'
  BY <1>0, <1>2, <1>4, <1>5 DEF RunInv, AbsentIsUnused, Exists
<1>7. LiveIsLast'
  BY <1>5 DEF RunInv, LiveIsLast
<1>8. WorkingIsRunning'
  BY <1>1, <1>2, <1>5, WorkingLiveKnown DEF RunInv, WorkingIsRunning
<1>9. WaitingAsksNext'
  BY <1>2, <1>5 DEF RunInv, WaitingAsksNext
<1>10. SetupIsExclusive'
  <2> SUFFICES ASSUME NEW v \in Callers, NEW s \in Runs, InSetup(v, s)'
               PROVE  SetupOf(v, s)'
    BY DEF SetupIsExclusive, SetupOf
  <2>1. CASE s = r
    BY <1>0, <1>1, <1>2, <1>3, <1>4, <1>5, <2>1 DEF SetupOf
  <2>2. CASE s # r
    <3>1. InSetup(v, s) /\ v # u /\ SetupOf(v, s)
      BY <1>4, <2>2, Zenon DEF RunInv, SetupIsExclusive, SetupOf
    <3> QED BY <1>2, <1>3, <1>4, <1>5, <2>2, <3>1 DEF SetupOf
  <2> QED BY <2>1, <2>2
<1>11. ResumingIsCurrent'
  <2> SUFFICES ASSUME NEW v \in Callers, NEW s \in Runs, Resuming(v, s)'
               PROVE  ResumingOf(v, s)'
    BY DEF ResumingIsCurrent, ResumingOf
  <2>1. Resuming(v, s) /\ v # u /\ ResumingOf(v, s)
    BY <1>4 DEF RunInv, ResumingIsCurrent, ResumingOf
  <2>2. CASE s = r
    BY <1>1, <1>2, <1>3, <1>4, <1>5, <2>1, <2>2 DEF ResumingOf
  <2>3. CASE s # r
    BY <1>2, <1>3, <1>4, <1>5, <2>1, <2>3 DEF ResumingOf
  <2> QED BY <2>2, <2>3
<1>12. OneInTheMaking'
  <2>1. \A s \in Runs : InTheMaking(s)' => InTheMaking(s)
    BY <1>0, <1>2, <1>4, <1>5 DEF InTheMaking, Active, ActiveRunStatuses
  <2> QED BY <2>1 DEF RunInv, OneInTheMaking
<1> QED BY <1>6, <1>7, <1>8, <1>9, <1>10, <1>11, <1>12 DEF RunInv

\* A run's terminal event is committed by its last task, which works no longer.
LEMMA CompleteStep ==
  ASSUME RunInv, TypeInv, NEW r \in Runs, NEW g \in Gens, task[<<r, g>>].pc = "complete",
         NEW outcome, CompleteRun(r, outcome, g + 1),
         Goto(<<r, g>>, "append"), UNCHANGED caller
  PROVE  RunInv'
<1>0. Shapes /\ g \in Nat /\ run[r].status # "ABSENT"
  BY TypeShapes DEF CompleteRun, Exists
<1>1. Working(<<r, g>>) /\ Live(<<r, g>>) /\ Known(<<r, g>>)
  BY WorkingLiveKnown DEF Working, WorkingPcs
<1>2. /\ run'[r].status # "ABSENT" /\ run'[r].status # "RUNNING"
      /\ run'[r].status = "WAITING_INPUT" => run'[r].pending = g + 1
      /\ run'[r].approvals = run[r].approvals
      /\ \A s \in Runs : s # r => run'[s] = run[s]
      /\ conversation' = conversation /\ caller' = caller
  <2>1. CASE outcome = "confirmation_required"
    BY <1>0, <2>1 DEF CompleteRun, Shapes, RunRow
  <2>2. CASE outcome # "confirmation_required"
    BY <1>0, <2>2 DEF CompleteRun, Shapes, RunRow, StatusOf
  <2> QED BY <2>1, <2>2
<1>3. /\ \A s \in Runs : \A h \in Gens :
           /\ Known(<<s, h>>)' <=> Known(<<s, h>>)
           /\ Live(<<s, h>>)' <=> Live(<<s, h>>)
           /\ Working(<<s, h>>)' => Working(<<s, h>>)
      /\ ~Working(<<r, g>>)'
  <2>1. \A s \in Runs : \A h \in Gens :
          task'[<<s, h>>].pc = IF s = r /\ h = g THEN "append" ELSE task[<<s, h>>].pc
    BY <1>0 DEF Goto, Shapes, Tasks, TaskState
  <2> QED BY <1>1, <2>1 DEF Known, Live, Working, LivePcs, WorkingPcs, TaskPcs
<1>4. \A v \in Callers : \A s \in Runs :
        /\ InSetup(v, s)' <=> InSetup(v, s)
        /\ Resuming(v, s)' <=> Resuming(v, s)
  BY <1>2 DEF InSetup, Resuming
<1>5. \A v \in Callers : ~InSetup(v, r)
  BY <1>1 DEF RunInv, SetupIsExclusive
<1>6. AbsentIsUnused'
  BY <1>0, <1>2, <1>3, <1>4 DEF RunInv, AbsentIsUnused, Exists
<1>7. LiveIsLast'
  BY <1>3 DEF RunInv, LiveIsLast
<1>8. WorkingIsRunning'
  <2>1. \A h \in Gens : ~Working(<<r, h>>)'
    BY <1>0, <1>1, <1>3, WorkingLiveKnown DEF RunInv, LiveIsLast
  <2> QED BY <1>2, <1>3, <2>1 DEF RunInv, WorkingIsRunning
<1>9. WaitingAsksNext'
  <2>1. \A h \in Gens : Known(<<r, h>>) => h <= g
    BY <1>1 DEF RunInv, LiveIsLast
  <2>2. \A a \in run[r].approvals : a <= g /\ a \in Nat
    BY <1>0, <1>1 DEF RunInv, WorkingIsRunning, Shapes, RunRow
  <2> QED BY <1>0, <1>2, <1>3, <2>1, <2>2 DEF RunInv, WaitingAsksNext
<1>10. SetupIsExclusive'
  <2> SUFFICES ASSUME NEW v \in Callers, NEW s \in Runs, InSetup(v, s)'
               PROVE  SetupOf(v, s)'
    BY DEF SetupIsExclusive, SetupOf
  <2>1. InSetup(v, s) /\ s # r /\ SetupOf(v, s)
    BY <1>4, <1>5, Zenon DEF RunInv, SetupIsExclusive, SetupOf
  <2> QED BY <1>2, <1>3, <1>4, <2>1 DEF SetupOf
<1>11. ResumingIsCurrent'
  <2> SUFFICES ASSUME NEW v \in Callers, NEW s \in Runs, Resuming(v, s)'
               PROVE  ResumingOf(v, s)'
    BY DEF ResumingIsCurrent, ResumingOf
  <2>1. Resuming(v, s) /\ ResumingOf(v, s) /\ caller[v].action \in Nat
    BY <1>0, <1>4 DEF RunInv, ResumingIsCurrent, ResumingOf, Shapes, CallerState
  <2>2. CASE s = r
    BY <1>0, <1>1, <1>2, <1>3, <1>4, <2>1, <2>2 DEF ResumingOf
  <2>3. CASE s # r
    BY <1>2, <1>3, <1>4, <2>1, <2>3 DEF ResumingOf
  <2> QED BY <2>2, <2>3
<1>12. OneInTheMaking'
  <2>1. \A s \in Runs : InTheMaking(s)' => InTheMaking(s)
    BY <1>1, <1>2, <1>3, <1>4 DEF InTheMaking, Active
  <2> QED BY <2>1 DEF RunInv, OneInTheMaking
<1> QED BY <1>6, <1>7, <1>8, <1>9, <1>10, <1>11, <1>12 DEF RunInv

\* The handler that took a run over creates its next task.
LEMMA CreateTaskStep ==
  ASSUME RunInv, TypeInv, NEW u \in Callers, caller[u].pc \in {"start_setup", "resume_setup"},
         NEW r \in Runs, NEW a \in Gens, caller[u].run = r, caller[u].action = a,
         StartStreamTask(<<r, a>>), Leave(u),
         UNCHANGED <<conversation, run>>
  PROVE  RunInv'
<1>0. Shapes /\ a \in Nat /\ InSetup(u, r)
  BY TypeShapes DEF InSetup, SetupPcs
<1>1. SetupOf(u, r)
  BY <1>0 DEF RunInv, SetupIsExclusive, SetupOf
<1>2. /\ caller'[u].pc = "idle"
      /\ \A v \in Callers : v # u => caller'[v] = caller[v]
      /\ conversation' = conversation /\ run' = run
  BY <1>0 DEF Shapes, CallerState, Leave, Idle
<1>3. /\ \A s \in Runs : \A h \in Gens : ~(s = r /\ h = a) =>
           /\ Known(<<s, h>>)' <=> Known(<<s, h>>)
           /\ Live(<<s, h>>)' <=> Live(<<s, h>>)
           /\ Working(<<s, h>>)' <=> Working(<<s, h>>)
      /\ Known(<<r, a>>)'
  <2>1. \A s \in Runs : \A h \in Gens :
          task'[<<s, h>>].pc = IF s = r /\ h = a THEN "created" ELSE task[<<s, h>>].pc
    BY <1>0 DEF StartStreamTask, Shapes, Tasks, TaskState, NoTask
  <2> QED BY <1>0, <2>1 DEF Known, Live, Working
<1>4. \A v \in Callers : \A s \in Runs :
        /\ InSetup(v, s)' => InSetup(v, s) /\ v # u
        /\ Resuming(v, s)' => Resuming(v, s) /\ v # u
  BY <1>2, Zenon DEF InSetup, Resuming, SetupPcs, ResumingPcs
<1>5. \A v \in Callers : ~InSetup(v, r)'
  BY <1>1, <1>4 DEF SetupOf
<1>6. AbsentIsUnused'
  BY <1>0, <1>2, <1>3, <1>4 DEF RunInv, AbsentIsUnused, Exists
<1>7. LiveIsLast'
  <2> SUFFICES ASSUME NEW s \in Runs, NEW g \in Gens, NEW h \in Gens,
                      Live(<<s, g>>)', Known(<<s, h>>)'
               PROVE  h <= g
    BY DEF LiveIsLast
  <2>1. CASE s = r
    <3>1. \A x \in Gens : Known(<<r, x>>)' => x = a \/ (x < a /\ ~Live(<<r, x>>)')
      BY <1>0, <1>1, <1>3 DEF SetupOf
    <3>2. g = a
      BY <2>1, <3>1, WorkingLiveKnown DEF Live, Known, LivePcs
    <3> QED BY <1>0, <2>1, <3>1, <3>2
  <2>2. CASE s # r
    BY <1>3, <2>2 DEF RunInv, LiveIsLast
  <2> QED BY <2>1, <2>2
<1>8. WorkingIsRunning'
  <2> SUFFICES ASSUME NEW s \in Runs, NEW g \in Gens, Working(<<s, g>>)'
               PROVE  /\ \A b \in run[s].approvals : b <= g
                      /\ conversation[ConvOf[s]] = "ACTIVE" => run[s].status = "RUNNING"
    BY <1>2 DEF WorkingIsRunning
  <2>1. CASE s = r /\ g = a
    BY <1>1, <2>1 DEF SetupOf
  <2>2. CASE ~(s = r /\ g = a)
    BY <1>3, <2>2 DEF RunInv, WorkingIsRunning
  <2> QED BY <2>1, <2>2
<1>9. WaitingAsksNext'
  <2>1. run[r].status # "WAITING_INPUT"
    BY <1>1 DEF SetupOf
  <2> QED BY <1>2, <1>3, <2>1 DEF RunInv, WaitingAsksNext
<1>10. SetupIsExclusive'
  <2> SUFFICES ASSUME NEW v \in Callers, NEW s \in Runs, InSetup(v, s)'
               PROVE  SetupOf(v, s)'
    BY DEF SetupIsExclusive, SetupOf
  <2>1. InSetup(v, s) /\ v # u /\ SetupOf(v, s)
    BY <1>4, Zenon DEF RunInv, SetupIsExclusive, SetupOf
  <2>2. s # r
    BY <1>1, <2>1 DEF SetupOf
  <2> QED BY <1>2, <1>3, <1>4, <2>1, <2>2 DEF SetupOf
<1>11. ResumingIsCurrent'
  <2> SUFFICES ASSUME NEW v \in Callers, NEW s \in Runs, Resuming(v, s)'
               PROVE  ResumingOf(v, s)'
    BY DEF ResumingIsCurrent, ResumingOf
  <2>1. Resuming(v, s) /\ v # u /\ ResumingOf(v, s) /\ caller[v].action \in Nat
    BY <1>0, <1>4 DEF RunInv, ResumingIsCurrent, ResumingOf, Shapes, CallerState
  <2>2. s = r => caller[v].action <= a
    BY <1>0, <2>1 DEF ResumingOf
  <2>3. \A g \in Gens : g < caller[v].action => ~Live(<<s, g>>)'
    BY <1>0, <1>3, <2>1, <2>2 DEF ResumingOf
  <2>4. /\ \A w \in Callers : InSetup(w, s)' => caller'[v].action <= caller'[w].action
        /\ run'[s].status = "WAITING_INPUT" => caller'[v].action <= run'[s].pending
        /\ caller'[v].action = caller[v].action
    BY <1>2, <1>4, <2>1 DEF ResumingOf
  <2> QED BY <2>3, <2>4 DEF ResumingOf
<1>12. OneInTheMaking'
  <2>1. \A s \in Runs : InTheMaking(s)' => InTheMaking(s)
    BY <1>0, <1>2, <1>3, <1>4 DEF InTheMaking, Active
  <2> QED BY <2>1 DEF RunInv, OneInTheMaking
<1> QED BY <1>6, <1>7, <1>8, <1>9, <1>10, <1>11, <1>12 DEF RunInv

\* A client approves an action of a run that has no task at work.
LEMMA ResumeRunStep ==
  ASSUME AssumedAdversity, RunInv, TypeInv, NEW u \in Callers, NEW r \in Runs,
         NEW a \in Actions, ResumeRun(u, r, a)
  PROVE  RunInv'
<1>0. /\ Shapes /\ a \in Nat /\ LiveTasks(r) = {}
      /\ a \in run[r].approvals \/ (a = run[r].pending /\ a # 0)
      /\ conversation' = conversation /\ run' = run /\ task' = task
  BY TypeShapes DEF ResumeRun, AssumedAdversity, Begin, stores
<1>1. /\ caller'[u].pc = "resume_read" /\ caller'[u].run = r /\ caller'[u].action = a
      /\ \A v \in Callers : v # u => caller'[v] = caller[v]
      /\ caller[u].pc = "idle"
  BY <1>0 DEF Shapes, ResumeRun, Begin, At
<1>2. \A v \in Callers : \A s \in Runs :
        /\ InSetup(v, s)' => InSetup(v, s) /\ v # u
        /\ Resuming(v, s)' => (Resuming(v, s) /\ v # u) \/ (v = u /\ s = r)
  BY <1>1, Zenon DEF InSetup, Resuming, SetupPcs, ResumingPcs
<1>3. \A s \in Runs : \A h \in Gens :
        /\ Known(<<s, h>>)' <=> Known(<<s, h>>)
        /\ Live(<<s, h>>)' <=> Live(<<s, h>>)
        /\ Working(<<s, h>>)' <=> Working(<<s, h>>)
  BY <1>0 DEF Known, Live, Working
<1>4. \A g \in Gens : ~Live(<<r, g>>)
  BY <1>0 DEF LiveTasks, Live, Tasks
<1>5. AbsentIsUnused'
  BY <1>0, <1>2, <1>3 DEF RunInv, AbsentIsUnused, Exists
<1>6. LiveIsLast'
  BY <1>3 DEF RunInv, LiveIsLast
<1>7. WorkingIsRunning'
  BY <1>0, <1>3 DEF RunInv, WorkingIsRunning
<1>8. WaitingAsksNext'
  BY <1>0, <1>3 DEF RunInv, WaitingAsksNext
<1>9. SetupIsExclusive'
  <2> SUFFICES ASSUME NEW v \in Callers, NEW s \in Runs, InSetup(v, s)'
               PROVE  SetupOf(v, s)'
    BY DEF SetupIsExclusive, SetupOf
  <2>1. InSetup(v, s) /\ v # u /\ SetupOf(v, s)
    BY <1>2, Zenon DEF RunInv, SetupIsExclusive, SetupOf
  <2> QED BY <1>0, <1>1, <1>2, <1>3, <2>1 DEF SetupOf
<1>10. ResumingIsCurrent'
  <2> SUFFICES ASSUME NEW v \in Callers, NEW s \in Runs, Resuming(v, s)'
               PROVE  ResumingOf(v, s)'
    BY DEF ResumingIsCurrent, ResumingOf
  <2>1. CASE v = u /\ s = r
    <3>1. \A w \in Callers : InSetup(w, r) => a <= caller[w].action
      BY <1>0 DEF RunInv, SetupIsExclusive
    <3>2. run[r].status = "WAITING_INPUT" => a <= run[r].pending
      BY <1>0 DEF RunInv, WaitingAsksNext, Shapes, RunRow
    <3> QED BY <1>0, <1>1, <1>2, <1>3, <1>4, <2>1, <3>1, <3>2 DEF ResumingOf
  <2>2. CASE ~(v = u /\ s = r)
    <3>1. Resuming(v, s) /\ v # u /\ ResumingOf(v, s)
      BY <1>2, <2>2 DEF RunInv, ResumingIsCurrent, ResumingOf
    <3> QED BY <1>0, <1>1, <1>2, <1>3, <3>1 DEF ResumingOf
  <2> QED BY <2>1, <2>2
<1>11. OneInTheMaking'
  <2>1. \A s \in Runs : InTheMaking(s)' => InTheMaking(s)
    BY <1>0, <1>2, <1>3 DEF InTheMaking, Active
  <2> QED BY <2>1 DEF RunInv, OneInTheMaking
<1> QED BY <1>5, <1>6, <1>7, <1>8, <1>9, <1>10, <1>11 DEF RunInv

-----------------------------------------------------------------------------
(* What makes a step calm.                                                 *)

\* Rows, tasks and handlers that do not change are calm.
LEMMA SameIsCalm ==
  /\ UNCHANGED <<conversation, run>> => CalmConversations /\ CalmRows
  /\ UNCHANGED task => CalmTasks
  /\ UNCHANGED caller => CalmCallers
BY DEF CalmConversations, CalmRows, CalmRow, CalmTasks, CalmCallers

\* A task is the pair of a run and an action.
LEMMA TaskPairs ==
  \A t \in Tasks : /\ t = <<t[1], t[2]>> /\ t[1] \in Runs /\ t[2] \in Gens
                  /\ ConvOf[t[1]] \in Conversations
BY DEF Tasks

\* One task moves on, none of its moves being back to work.
LEMMA OneTaskCalm ==
  ASSUME NEW t \in Tasks, Live(t), task'[t].pc # "none",
         task'[t].pc \in WorkingPcs => Working(t),
         \A v \in Tasks : v # t => task'[v] = task[v]
  PROVE  CalmTasks
<1> SUFFICES ASSUME NEW r \in Runs, NEW g \in Gens
             PROVE  /\ task'[<<r, g>>].pc # "none" <=> task[<<r, g>>].pc # "none"
                    /\ task'[<<r, g>>].pc \in LivePcs => task[<<r, g>>].pc \in LivePcs
                    /\ task'[<<r, g>>].pc \in WorkingPcs => task[<<r, g>>].pc \in WorkingPcs
  BY DEF CalmTasks
<1>1. <<r, g>> \in Tasks
  BY DEF Tasks
<1>2. CASE <<r, g>> = t
  BY <1>2 DEF Live, Working, LivePcs, TaskPcs
<1>3. CASE <<r, g>> # t
  BY <1>1, <1>3
<1> QED BY <1>2, <1>3

\* Of the transactions, only those that start, claim, complete or mark a run
\* are not calm by themselves.
LEMMA CommitCalm ==
  ASSUME Shapes, NEW o \in Ops, OpShape(o), Commit(o),
         o.op \notin {"start_turn", "claim", "complete", "mark"}
  PROVE  CalmConversations /\ CalmRows
<1>1. CASE UNCHANGED <<conversation, run>>
  BY <1>1, SameIsCalm
<1>2. CASE o.op = "record" /\ RecordTerminalEventSequence(o.run, o.seq)
  <2>1. /\ UNCHANGED conversation
        /\ \A r \in Runs : /\ run'[r].status = run[r].status
                           /\ run'[r].pending = run[r].pending
                           /\ run'[r].approvals = run[r].approvals
    BY <1>2 DEF RecordTerminalEventSequence, Shapes, OpShape, RunRow
  <2> QED BY <2>1 DEF CalmConversations, CalmRows, CalmRow
<1>3. CASE o.op = "begin_deletion" /\ BeginConversationDeletion(o.conv)
  BY <1>3 DEF BeginConversationDeletion, Shapes, CalmConversations, CalmRows, CalmRow
<1>4. CASE o.op = "delete_history" /\ DeleteConversation(o.conv)
  <2>1. /\ o.conv \in Conversations
        /\ \A c \in Conversations :
             conversation'[c] = IF c = o.conv THEN "GONE" ELSE conversation[c]
        /\ \A r \in Runs : run'[r] = IF ConvOf[r] = o.conv THEN NoRow ELSE run[r]
    BY <1>4 DEF DeleteConversation, Shapes, Ops
  <2> QED BY <2>1 DEF CalmConversations, CalmRows, CalmRow
<1> QED BY <1>1, <1>2, <1>3, <1>4 DEF Commit, MySqlTransaction

\* mark_interrupted is calm when nobody works on the run, or it will not matter.
LEMMA MarkCalm ==
  ASSUME Shapes, NEW r \in Runs, MarkInterrupted(r),
         \/ conversation[ConvOf[r]] # "ACTIVE"
         \/ /\ \A g \in Gens : task'[<<r, g>>].pc \notin WorkingPcs
            /\ \A u \in Callers : caller'[u].run = r => caller'[u].pc \notin SetupPcs
  PROVE  CalmConversations /\ CalmRows
<1>1. /\ UNCHANGED conversation
      /\ \A s \in Runs : /\ s # r => run'[s] = run[s]
                         /\ run'[s].pending = run[s].pending
                         /\ run'[s].approvals = run[s].approvals
      /\ run[r].status # "ABSENT"
      /\ run'[r].status = IF run[r].status \in TerminalRunStatuses THEN run[r].status ELSE "FAILED"
  BY DEF MarkInterrupted, Shapes, RunRow, Exists
<1> QED BY <1>1 DEF CalmConversations, CalmRows, CalmRow, ActiveRunStatuses, TerminalRunStatuses

\* What the process is promised holds as long as tasks only wind down.
LEMMA CalmProcess ==
  ASSUME ProcessInv, TypeInv, CalmTasks, CalmConversations,
         UNCHANGED <<late, caller, phase>>, LiveIsRegistered'
  PROVE  ProcessInv'
<1>0. Shapes /\ \A o \in late : o.conv \in Conversations
  BY TypeShapes DEF TypeInv, TypeOK, Ops
<1>1. DeletionIsAnnounced'
  BY <1>0 DEF ProcessInv, DeletionIsAnnounced, CalmConversations, Shapes, CallerState
<1>2. LateMarks'
  BY <1>0 DEF ProcessInv, LateMarks, CalmConversations
<1>3. DrainingIsQuiet'
  BY TaskPairs DEF ProcessInv, DrainingIsQuiet, CalmTasks, Working
<1> QED BY <1>1, <1>2, <1>3 DEF ProcessInv

\* Dropping the entry of a run whose last task ends loses no live task.
LEMMA UnregisterStep ==
  ASSUME RunInv, ProcessInv, NEW t \in Tasks, Live(t), CalmTasks,
         task'[t].pc = "ended", Unregister({t})
  PROVE  LiveIsRegistered'
<1> SUFFICES ASSUME NEW v \in Tasks, Live(v)'
             PROVE  v \in registered'
  BY DEF LiveIsRegistered
<1>1. Live(v) /\ v # t
  BY TaskPairs DEF CalmTasks, Live, LivePcs
<1>2. v \in registered
  BY <1>1 DEF ProcessInv, LiveIsRegistered
<1>3. v[1] # t[1]
  <2> SUFFICES ASSUME v[1] = t[1] PROVE FALSE
    OBVIOUS
  <2>1. /\ Live(<<t[1], t[2]>>) /\ Live(<<t[1], v[2]>>)
        /\ t[1] \in Runs /\ t[2] \in Gens /\ v[2] \in Gens
    BY <1>1, TaskPairs
  <2>2. t[2] = v[2]
    BY <2>1, WorkingLiveKnown DEF RunInv, LiveIsLast
  <2> QED BY <1>1, <2>2, TaskPairs
<1> QED BY <1>2, <1>3 DEF Unregister

\* Nor does a step that leaves the registry alone.
LEMMA StillRegistered ==
  ASSUME ProcessInv, CalmTasks, UNCHANGED registered
  PROVE  LiveIsRegistered'
BY TaskPairs DEF ProcessInv, LiveIsRegistered, CalmTasks, Live

-----------------------------------------------------------------------------
(* The steps of a stream task.                                             *)

\* Every step of a stream task keeps both parts of the invariant.
LEMMA TaskStepInv ==
  ASSUME RunInv, ProcessInv, TypeInv, TypeInv', NEW t \in Tasks, TaskStep(t)
  PROVE  RunInv' /\ ProcessInv'
<1>0. Shapes /\ TaskOp(t) \in Ops /\ OpShape(TaskOp(t))
  BY TypeShapes, TypeSplit, TaskOpType DEF ProcessOK
<1>1. /\ UNCHANGED <<late, caller, phase>> /\ CalmCallers
      /\ UNCHANGED registered \/ (task'[t].pc = "ended" /\ Unregister({t}))
  BY <1>0, SameIsCalm DEF TaskStep, TaskBegin, TaskPublish, TaskWork, TaskStops, TaskCompletes,
     TaskAppends, TaskRecords, TaskReturns, TaskFails, TaskInterrupted, Goto, Shapes, TaskState
<1>2. Live(t) /\ CalmTasks
  <2>1. \A v \in Tasks : v # t => task'[v] = task[v]
    BY <1>0 DEF TaskStep, TaskBegin, TaskPublish, TaskWork, TaskStops, TaskCompletes,
       TaskAppends, TaskRecords, TaskReturns, TaskFails, TaskInterrupted, Goto, Shapes
  <2>2. /\ Live(t) /\ task'[t].pc # "none"
        /\ task'[t].pc \in WorkingPcs => Working(t)
    BY <1>0 DEF TaskStep, TaskBegin, TaskPublish, TaskWork, TaskStops, TaskCompletes,
       TaskAppends, TaskRecords, TaskReturns, TaskFails, TaskInterrupted, Goto, Shapes,
       TaskState, Live, Working, LivePcs, WorkingPcs, TaskPcs
  <2> QED BY <2>1, <2>2, OneTaskCalm
<1>3. LiveIsRegistered'
  BY <1>1, <1>2, StillRegistered, UnregisterStep
<1>4. CASE TaskCompletes(t)
  <2>1. PICK r \in Runs, g \in Gens : t = <<r, g>>
    BY DEF Tasks
  <2>2. PICK outcome : outcome = task[t].outcome
    OBVIOUS
  <2>3. task[t].pc = "complete" /\ Goto(t, "append") /\ MySqlTransaction(TaskOp(t))
    BY <1>4 DEF TaskCompletes, Commit, TaskOp, RunOp
  <2>4. CompleteRun(r, outcome, g + 1)
    BY <2>1, <2>2, <2>3 DEF MySqlTransaction, TaskOp, RunOp
  <2>5. RunInv'
    BY <1>1, <2>1, <2>2, <2>3, <2>4, CompleteStep
  <2>6. CalmConversations
    BY <2>4, SameIsCalm DEF CompleteRun, CalmConversations
  <2> QED BY <1>1, <1>2, <1>3, <2>5, <2>6, CalmProcess
<1>5. CASE ~TaskCompletes(t)
  <2>1. CASE UNCHANGED <<conversation, run>>
    BY <1>1, <1>2, <1>3, <2>1, SameIsCalm, CalmStep, CalmProcess DEF Calm
  <2>2. CASE TaskRecords(t) /\ Commit(TaskOp(t))
    <3>1. CalmConversations /\ CalmRows
      BY <1>0, <2>2, CommitCalm DEF TaskRecords, TaskOp, RunOp
    <3> QED BY <1>1, <1>2, <1>3, <3>1, CalmStep, CalmProcess DEF Calm
  <2>3. CASE TaskInterrupted(t) /\ MarkInterrupted(t[1])
    <3>1. \A g \in Gens : task'[<<t[1], g>>].pc \notin WorkingPcs
      <4> SUFFICES ASSUME NEW g \in Gens, task'[<<t[1], g>>].pc \in WorkingPcs PROVE FALSE
        OBVIOUS
      <4>1. /\ Live(<<t[1], t[2]>>) /\ Live(<<t[1], g>>) /\ Working(<<t[1], g>>)
            /\ t[1] \in Runs /\ t[2] \in Gens
        BY <1>2, TaskPairs, WorkingLiveKnown DEF CalmTasks, Working
      <4>2. g = t[2]
        BY <4>1, WorkingLiveKnown DEF RunInv, LiveIsLast
      <4> QED BY <2>3, <4>1, <4>2, TaskPairs DEF TaskInterrupted, Working, WorkingPcs
    <3>2. \A u \in Callers : caller'[u].run = t[1] => caller'[u].pc \notin SetupPcs
      BY <1>1, <1>2, TaskPairs, WorkingLiveKnown DEF RunInv, SetupIsExclusive, InSetup
    <3>3. CalmConversations /\ CalmRows
      BY <1>0, <2>3, <3>1, <3>2, TaskPairs, MarkCalm
    <3> QED BY <1>1, <1>2, <1>3, <3>3, CalmStep, CalmProcess DEF Calm
  <2>4. CASE TaskPublish(t) \/ TaskAppends(t)
    <3>1. TaskOp(t).op = "append" /\ Commit(TaskOp(t))
      BY <2>4 DEF TaskPublish, TaskAppends, TaskOp, RunOp
    <3> QED BY <2>1, <3>1 DEF Commit, MySqlTransaction
  <2>5. CASE TaskInterrupted(t)
    <3>1. TaskOp(t).op = "mark" /\ TaskOp(t).run = t[1]
      BY <2>5 DEF TaskInterrupted, TaskOp, RunOp
    <3>2. UNCHANGED <<conversation, run>> \/ MarkInterrupted(t[1])
      BY <2>5, <3>1 DEF TaskInterrupted, Commit, MySqlTransaction, Raises, stores
    <3> QED BY <2>1, <2>3, <2>5, <3>2
  <2>6. CASE TaskFails(t)
    BY <2>1, <2>6 DEF TaskFails, Raises, stores
  <2>7. CASE TaskBegin(t) \/ TaskWork(t) \/ TaskStops(t) \/ TaskReturns(t)
    BY <2>1, <2>7 DEF TaskBegin, TaskWork, TaskStops, TaskReturns, stores
  <2>8. TaskRecords(t) => Commit(TaskOp(t))
    BY DEF TaskRecords
  <2> QED BY <1>5, <2>2, <2>4, <2>5, <2>6, <2>7, <2>8 DEF TaskStep
<1> QED BY <1>4, <1>5

-----------------------------------------------------------------------------
(* The steps of a handler.                                                 *)

\* How a handler goes on, or leaves.
LEMMA CallerMoves ==
  ASSUME Shapes, NEW u \in Callers
  PROVE  /\ \A pc : CallerGoto(u, pc) =>
              /\ caller'[u].pc = pc /\ caller'[u].run = caller[u].run
              /\ caller'[u].action = caller[u].action /\ caller'[u].conv = caller[u].conv
              /\ caller'[u].waits = caller[u].waits
              /\ \A v \in Callers : v # u => caller'[v] = caller[v]
         /\ Leave(u) =>
              /\ caller'[u].pc = "idle"
              /\ \A v \in Callers : v # u => caller'[v] = caller[v]
BY DEF Shapes, CallerState, CallerGoto, Leave, Idle

\* Unawaited operations stay harmless while no conversation is revived.
LEMMA LateStays ==
  ASSUME ProcessInv, TypeInv, CalmConversations, UNCHANGED <<late, phase>>
  PROVE  LateMarks'
<1>1. \A o \in late : o.conv \in Conversations
  BY DEF TypeInv, TypeOK, Ops
<1> QED BY <1>1 DEF ProcessInv, LateMarks, CalmConversations

\* A handler's step and what the process is promised.
LEMMA CallerProcess ==
  ASSUME ProcessInv, TypeInv, NEW u \in Callers, caller[u].pc # "idle",
         UNCHANGED phase, CalmConversations, LateMarks', LiveIsRegistered',
         \A v \in Callers : v # u => caller'[v] = caller[v],
         caller'[u].pc \in DeletionPcs => conversation'[caller'[u].conv] # "ACTIVE",
         caller'[u].pc = "gather" => \A t \in caller'[u].waits : ConvOf[t[1]] = caller'[u].conv
  PROVE  ProcessInv'
<1>0. Shapes
  BY TypeShapes
<1>1. DeletionIsAnnounced'
  BY <1>0 DEF ProcessInv, DeletionIsAnnounced, CalmConversations, Shapes, CallerState
<1>2. DrainingIsQuiet'
  BY DEF ProcessInv, DrainingIsQuiet
<1> QED BY <1>1, <1>2 DEF ProcessInv

\* Cancellation: no task goes back to work, none of those cancelled goes on, and
\* what is left in worker threads marks their runs.
LEMMA CancelStep ==
  ASSUME AssumedAdversity, RunInv, ProcessInv, TypeInv,
         NEW S \in SUBSET Tasks, NEW T \in SUBSET S, CancelTasks(S, T)
  PROVE  /\ CalmTasks
         /\ LiveIsRegistered'
         /\ \A t \in S : ~Working(t)'
         /\ \A o \in late' :
              o \in late \/ \E t \in S : o.op = "mark" /\ o.conv = ConvOf[t[1]]
<1>0. Shapes /\ T = {}
  BY TypeShapes DEF CancelTasks, AssumedAdversity
<1>1. \A t \in Tasks :
        task'[t].pc = IF t \notin S \/ task[t].pc \notin LivePcs THEN task[t].pc
                      ELSE IF task[t].pc \in {"created", "interrupt"} THEN "ended"
                      ELSE "interrupt"
  BY <1>0 DEF CancelTasks, Shapes, TaskState
<1>2. \A t \in Tasks :
        /\ task'[t].pc # "none" <=> task[t].pc # "none"
        /\ task'[t].pc \in LivePcs => task[t].pc \in LivePcs
        /\ task'[t].pc \in WorkingPcs => task[t].pc \in WorkingPcs
        /\ t \in S => task'[t].pc \notin WorkingPcs
  BY <1>1 DEF LivePcs, WorkingPcs, TaskPcs
<1>3. CalmTasks
  <2>1. \A r \in Runs : \A g \in Gens : <<r, g>> \in Tasks
    BY DEF Tasks
  <2> QED BY <1>2, <2>1, Zenon DEF CalmTasks
<1>4. \A t \in S : ~Working(t)'
  <2>1. \A t \in S : t \in Tasks
    OBVIOUS
  <2> QED BY <1>2, <2>1, Zenon DEF Working
<1> DEFINE Marking == {t \in S : task[t].pc = "interrupt"}
<1>5. LiveIsRegistered'
  <2> SUFFICES ASSUME NEW v \in Tasks, Live(v)' PROVE v \in registered'
    BY DEF LiveIsRegistered
  <2>1. Live(v) /\ v \in registered
    BY <1>2, Zenon DEF Live, ProcessInv, LiveIsRegistered
  <2>2. \A t \in Marking : v[1] # t[1]
    <3> SUFFICES ASSUME NEW t \in Marking, v[1] = t[1] PROVE FALSE
      OBVIOUS
    <3>1. t \in Tasks /\ t \in S /\ Live(t) /\ task'[t].pc = "ended"
      BY <1>1 DEF Live, LivePcs, TaskPcs
    <3>2. /\ Live(<<t[1], t[2]>>) /\ Live(<<t[1], v[2]>>)
          /\ t[1] \in Runs /\ t[2] \in Gens /\ v[2] \in Gens
      BY <2>1, <3>1, TaskPairs
    <3>3. v[2] = t[2]
      BY <3>2, WorkingLiveKnown DEF RunInv, LiveIsLast
    <3>4. v = t
      BY <3>1, <3>3, TaskPairs
    <3> QED BY <3>1, <3>4 DEF Live, LivePcs
  <2> QED BY <2>1, <2>2 DEF CancelTasks, Unregister
<1>6. \A o \in late' : o \in late \/ \E t \in S : o.op = "mark" /\ o.conv = ConvOf[t[1]]
  <2>1. late' = late \cup {TaskOp(t) : t \in Marking}
    BY <1>0 DEF CancelTasks
  <2>2. \A t \in Marking : TaskOp(t).op = "mark" /\ TaskOp(t).conv = ConvOf[t[1]]
    BY DEF TaskOp, RunOp
  <2> QED BY <2>1, <2>2
<1> QED BY <1>3, <1>4, <1>5, <1>6

\* A handler's transaction commits.
LEMMA CallerCommitsInv ==
  ASSUME RunInv, ProcessInv, TypeInv, TypeInv', NEW u \in Callers, NEW pc \in StoreCall, NEW next,
         CallerCommits(u, pc, next),
         <<pc, next>> \in {<<"start_turn", "start_setup">>, <<"claim", "resume_setup">>,
                          <<"abort", "idle">>, <<"begin_deletion", "cancel_tasks">>,
                          <<"delete_thread", "delete_memory">>,
                          <<"delete_events", "delete_history">>, <<"delete_history", "idle">>}
  PROVE  RunInv' /\ ProcessInv'
<1> DEFINE h == caller[u]
<1>0. /\ Shapes /\ h.pc = pc /\ pc # "idle" /\ h.conv \in Conversations
      /\ CallerOp(u) \in Ops /\ OpShape(CallerOp(u)) /\ Commit(CallerOp(u))
      /\ h.pc \in RunPcs => h.run \in Runs /\ h.conv = ConvOf[h.run]
      /\ IF next = "idle" THEN Leave(u) ELSE CallerGoto(u, next)
      /\ UNCHANGED <<task, registered, late, consolidating, phase>>
  BY TypeShapes, TypeSplit, CallerOpType
     DEF CallerCommits, At, StoreCall, Shapes, CallerShape, CallerState, ProcessOK
<1>1. CalmTasks /\ LiveIsRegistered'
  BY <1>0, SameIsCalm, StillRegistered
<1>2. /\ \A v \in Callers : v # u => caller'[v] = caller[v]
      /\ caller'[u].pc = next
      /\ next # "idle" => /\ caller'[u].run = h.run /\ caller'[u].action = h.action
                          /\ caller'[u].conv = h.conv
  BY <1>0, CallerMoves
<1>3. ASSUME CalmConversations,
             next \in DeletionPcs => conversation'[h.conv] # "ACTIVE"
      PROVE  ProcessInv'
  <2>1. LateMarks'
    BY <1>0, <1>3, LateStays
  <2>2. caller'[u].pc \in DeletionPcs => conversation'[caller'[u].conv] # "ACTIVE"
    BY <1>2, <1>3 DEF DeletionPcs
  <2>3. caller'[u].pc # "gather"
    BY <1>2
  <2>4. caller[u].pc # "idle" /\ UNCHANGED phase
    BY <1>0
  <2> HIDE DEF h
  <2> QED BY <1>1, <1>2, <1>3, <2>1, <2>2, <2>3, <2>4, CallerProcess
<1>4. CASE pc = "start_turn"
  <2>1. StartTurn(h.run) /\ next = "start_setup"
    BY <1>0, <1>4 DEF CallerOp, RunOp, Commit, MySqlTransaction
  <2>2. RunInv'
    BY <1>0, <1>4, <2>1, StartTurnStep DEF At
  <2>3. CalmConversations
    BY <2>1 DEF StartTurn, CalmConversations
  <2> QED BY <1>3, <2>1, <2>2, <2>3 DEF DeletionPcs
<1>5. CASE pc = "claim"
  <2>1. ClaimPendingAction(h.run, h.action) /\ next = "resume_setup"
    BY <1>0, <1>5 DEF CallerOp, RunOp, Commit, MySqlTransaction
  <2>2. RunInv'
    BY <1>0, <1>5, <2>1, ClaimStep DEF At
  <2>3. CalmConversations
    BY <2>1 DEF ClaimPendingAction, CalmConversations
  <2> QED BY <1>3, <2>1, <2>2, <2>3 DEF DeletionPcs
<1>6. CASE pc = "abort"
  <2>1. MarkInterrupted(h.run) /\ next = "idle" /\ h.run \in Runs /\ InSetup(u, h.run)
    BY <1>0, <1>6 DEF CallerOp, RunOp, Commit, MySqlTransaction, InSetup, SetupPcs, RunPcs
  <2>2. SetupOf(u, h.run)
    BY <2>1 DEF RunInv, SetupIsExclusive, SetupOf
  <2>3. \A g \in Gens : task'[<<h.run, g>>].pc \notin WorkingPcs
    BY <1>0, <2>1, <2>2, WorkingLiveKnown DEF SetupOf, Working
  <2>4. \A v \in Callers : caller'[v].run = h.run => caller'[v].pc \notin SetupPcs
    BY <1>2, <2>1, <2>2 DEF SetupOf, InSetup, SetupPcs
  <2>5. CalmConversations /\ CalmRows
    BY <1>0, <2>1, <2>3, <2>4, MarkCalm
  <2>6. CalmCallers
    BY <1>2, <2>1 DEF CalmCallers, SetupPcs, ResumingPcs
  <2>7. RunInv'
    BY <1>1, <2>5, <2>6, CalmStep DEF Calm
  <2> QED BY <1>3, <2>1, <2>5, <2>7 DEF DeletionPcs
<1>7. CASE pc \in {"begin_deletion", "delete_thread", "delete_events", "delete_history"}
  <2>1. CallerOp(u).op = pc /\ CallerOp(u).conv = h.conv
    BY <1>0, <1>7 DEF CallerOp, ConversationOp
  <2>2. CalmConversations /\ CalmRows
    BY <1>0, <1>7, <2>1, CommitCalm
  <2>3. CalmCallers
    BY <1>2, <1>7 DEF CalmCallers, SetupPcs, ResumingPcs
  <2>4. RunInv'
    BY <1>1, <2>2, <2>3, CalmStep DEF Calm
  <2>5. conversation'[h.conv] # "ACTIVE"
    <3>1. CASE pc = "begin_deletion"
      BY <1>0, <2>1, <3>1
         DEF Commit, MySqlTransaction, BeginConversationDeletion, Shapes
    <3>2. CASE pc # "begin_deletion"
      BY <1>0, <1>7, <2>2, <3>2
         DEF ProcessInv, DeletionIsAnnounced, DeletionPcs, CalmConversations
    <3> QED BY <3>1, <3>2
  <2> QED BY <1>3, <2>2, <2>4, <2>5
<1> QED BY <1>0, <1>4, <1>5, <1>6, <1>7 DEF StoreCall

\* Every other step of a handler, but the cancellation of tasks: no row changes.
LEMMA CallerQuietInv ==
  ASSUME RunInv, ProcessInv, TypeInv, TypeInv', NEW u \in Callers,
         \/ CallerFails(u) \/ StartSetupFails(u) \/ ResumeReads(u)
         \/ DeletionGathers(u) \/ DeletionForgets(u)
  PROVE  RunInv' /\ ProcessInv'
<1>0. /\ Shapes /\ caller[u].pc # "idle"
      /\ UNCHANGED <<conversation, run, task, registered, late, consolidating, phase>>
  BY TypeShapes DEF CallerFails, StartSetupFails, ResumeReads, DeletionGathers, DeletionForgets,
     Raises, stores, At, StoreCall
<1>1. CalmConversations /\ CalmRows /\ CalmTasks /\ LiveIsRegistered' /\ LateMarks'
  BY <1>0, SameIsCalm, StillRegistered, LateStays
<1>2. \/ Leave(u)
      \/ At(u, "start_setup") /\ CallerGoto(u, "abort")
      \/ At(u, "resume_read") /\ CallerGoto(u, "claim")
      \/ At(u, "gather") /\ CallerGoto(u, "delete_thread")
      \/ At(u, "delete_memory") /\ CallerGoto(u, "delete_events")
  BY DEF CallerFails, StartSetupFails, ResumeReads, DeletionGathers, DeletionForgets
<1>3. /\ \A v \in Callers : v # u => caller'[v] = caller[v]
      /\ caller'[u].pc # "gather"
      /\ caller'[u].pc \in SetupPcs \cup ResumingPcs \cup DeletionPcs =>
           /\ caller'[u].run = caller[u].run /\ caller'[u].action = caller[u].action
           /\ caller'[u].conv = caller[u].conv
      /\ caller'[u].pc \in SetupPcs => caller[u].pc \in SetupPcs
      /\ caller'[u].pc \in ResumingPcs => caller[u].pc \in ResumingPcs
      /\ caller'[u].pc \in DeletionPcs => caller[u].pc \in DeletionPcs
  BY <1>0, <1>2, CallerMoves DEF At, SetupPcs, ResumingPcs, DeletionPcs
<1>4. CalmCallers
  BY <1>3 DEF CalmCallers
<1>5. RunInv'
  BY <1>1, <1>4, CalmStep DEF Calm
<1>6. caller'[u].pc \in DeletionPcs => conversation'[caller'[u].conv] # "ACTIVE"
  BY <1>0, <1>3 DEF ProcessInv, DeletionIsAnnounced
<1> QED BY <1>0, <1>1, <1>3, <1>5, <1>6, CallerProcess

\* A handler creates its task.
LEMMA CallerCreatesInv ==
  ASSUME RunInv, ProcessInv, TypeInv, NEW u \in Callers, StartSetup(u) \/ ResumeSetup(u)
  PROVE  RunInv' /\ ProcessInv'
<1>1. PICK r \in Runs, a \in Gens : caller[u].run = r /\ caller[u].action = a
  BY TypeShapes DEF Shapes, CallerShape, CallerState, StartSetup, ResumeSetup, At, RunPcs
<1>2. /\ Shapes /\ caller[u].pc \in {"start_setup", "resume_setup"}
      /\ StartStreamTask(<<r, a>>) /\ Leave(u)
      /\ UNCHANGED <<conversation, run, late, phase>>
  BY <1>1, TypeShapes DEF StartSetup, ResumeSetup, At, Shapes, CallerShape, stores
<1>3. RunInv'
  BY <1>1, <1>2, CreateTaskStep
<1>4. CalmConversations /\ LateMarks'
  BY <1>2, SameIsCalm, LateStays
<1>5. LiveIsRegistered'
  <2> SUFFICES ASSUME NEW v \in Tasks, Live(v)' PROVE v \in registered'
    BY DEF LiveIsRegistered
  <2>1. CASE v = <<r, a>>
    BY <1>2, <2>1 DEF StartStreamTask
  <2>2. CASE v # <<r, a>>
    <3>1. Live(v) /\ v \in registered
      BY <1>2, <2>2 DEF StartStreamTask, Shapes, Live, ProcessInv, LiveIsRegistered
    <3>2. v[1] # r
      <4> SUFFICES ASSUME v[1] = r PROVE FALSE
        OBVIOUS
      <4>1. /\ Live(<<r, v[2]>>) /\ v[2] \in Gens
        BY <3>1, TaskPairs
      <4>2. InSetup(u, r)
        BY <1>1, <1>2 DEF InSetup, SetupPcs
      <4> QED BY <4>1, <4>2, WorkingLiveKnown DEF RunInv, SetupIsExclusive
    <3> QED BY <1>2, <3>1, <3>2 DEF StartStreamTask
  <2> QED BY <2>1, <2>2
<1>6. /\ caller'[u].pc = "idle" /\ caller[u].pc # "idle"
      /\ \A v \in Callers : v # u => caller'[v] = caller[v]
  BY <1>2, CallerMoves
<1> QED BY <1>2, <1>3, <1>4, <1>5, <1>6, CallerProcess DEF DeletionPcs

\* Deletion cancels the conversation's tasks; or gRPC cancels a handler, and with
\* it the tasks it waits for.
LEMMA CallerCancelsInv ==
  ASSUME AssumedAdversity, RunInv, ProcessInv, TypeInv, TypeInv', NEW u \in Callers,
         DeletionCancels(u) \/ CallerCancelled(u)
  PROVE  RunInv' /\ ProcessInv'
<1>0. /\ Shapes /\ caller[u].pc # "idle"
      /\ UNCHANGED <<conversation, run, consolidating, phase>>
      /\ CalmConversations /\ CalmRows
  BY TypeShapes, SameIsCalm DEF DeletionCancels, CallerCancelled, stores, At
<1>1. /\ \A v \in Callers : v # u => caller'[v] = caller[v]
      /\ \/ caller'[u].pc = "idle"
         \/ /\ caller'[u].pc = "gather" /\ caller'[u].conv = caller[u].conv
            /\ caller[u].pc = "cancel_tasks"
            /\ caller'[u].waits = {t \in registered : ConvOf[t[1]] = caller[u].conv}
  BY <1>0, CallerMoves DEF DeletionCancels, CallerCancelled, Shapes, CallerState, At
<1>2. CalmCallers
  BY <1>1 DEF CalmCallers, SetupPcs, ResumingPcs
<1>3. CASE UNCHANGED <<task, registered>> /\ late' = late
  <2>1. CalmTasks /\ LiveIsRegistered' /\ LateMarks'
    BY <1>0, <1>3, SameIsCalm, StillRegistered, LateStays
  <2>2. RunInv'
    BY <1>0, <1>2, <2>1, CalmStep DEF Calm
  <2> QED BY <1>0, <1>1, <2>1, <2>2, CallerProcess DEF DeletionPcs, ProcessInv, DeletionIsAnnounced
<1>4. ASSUME NEW S \in SUBSET Tasks, NEW T \in SUBSET S, CancelTasks(S, T),
             \A t \in S : ConvOf[t[1]] = caller[u].conv,
             conversation[caller[u].conv] # "ACTIVE"
      PROVE  RunInv' /\ ProcessInv'
  <2>1. /\ CalmTasks /\ LiveIsRegistered'
        /\ \A o \in late' :
             o \in late \/ \E t \in S : o.op = "mark" /\ o.conv = ConvOf[t[1]]
    BY <1>4, CancelStep
  <2>2. LateMarks'
    BY <1>0, <1>4, <2>1 DEF ProcessInv, LateMarks
  <2>3. RunInv'
    BY <1>0, <1>2, <2>1, CalmStep DEF Calm
  <2> QED BY <1>0, <1>1, <1>4, <2>1, <2>2, <2>3, CallerProcess DEF DeletionPcs
<1>5. CASE DeletionCancels(u)
  <2> DEFINE S == {t \in registered : ConvOf[t[1]] = caller[u].conv}
  <2>1. S \subseteq Tasks
    BY DEF TypeInv, TypeOK
  <2>2. PICK T \in SUBSET S : CancelTasks(S, T)
    BY <1>5 DEF DeletionCancels
  <2>3. conversation[caller[u].conv] # "ACTIVE"
    BY <1>5 DEF DeletionCancels, At, ProcessInv, DeletionIsAnnounced, DeletionPcs
  <2>4. \A t \in S : ConvOf[t[1]] = caller[u].conv
    OBVIOUS
  <2> HIDE DEF S
  <2> QED BY <1>4, <2>1, <2>2, <2>3, <2>4
<1>6. CASE CallerCancelled(u) /\ At(u, "gather")
  <2>1. caller[u].waits \in SUBSET Tasks
    BY <1>0 DEF Shapes, CallerState
  <2>2. PICK T \in SUBSET caller[u].waits : CancelTasks(caller[u].waits, T)
    BY <1>6 DEF CallerCancelled
  <2>3. /\ conversation[caller[u].conv] # "ACTIVE"
        /\ \A t \in caller[u].waits : ConvOf[t[1]] = caller[u].conv
    BY <1>6 DEF At, ProcessInv, DeletionIsAnnounced, DeletionPcs
  <2> QED BY <1>4, <2>1, <2>2, <2>3
<1>7. CASE CallerCancelled(u) /\ ~At(u, "gather")
  BY <1>3, <1>7 DEF CallerCancelled, AssumedAdversity
<1> QED BY <1>5, <1>6, <1>7

\* Every step of a handler keeps both parts of the invariant.
LEMMA CallerStepInv ==
  ASSUME AssumedAdversity, RunInv, ProcessInv, TypeInv, TypeInv', NEW u \in Callers,
         CallerStep(u) \/ CallerCancelled(u)
  PROVE  RunInv' /\ ProcessInv'
BY CallerCommitsInv, CallerQuietInv, CallerCreatesInv, CallerCancelsInv DEF CallerStep, StoreCall

-----------------------------------------------------------------------------
(* The rest of the process, and the theorem.                               *)

\* A call arrives.
LEMMA CallArrivesInv ==
  ASSUME AssumedAdversity, RunInv, ProcessInv, TypeInv, TypeInv', NEW u \in Callers,
         \/ \E r \in Runs : StartRun(u, r)
         \/ \E r \in Runs, a \in Actions : ResumeRun(u, r, a)
         \/ \E c \in Conversations : DeleteRun(u, c)
  PROVE  RunInv' /\ ProcessInv'
<1>1. /\ Shapes /\ phase = "up"
      /\ UNCHANGED <<conversation, run, task, registered, late, consolidating, phase>>
      /\ \A v \in Callers : v # u => caller'[v] = caller[v]
      /\ caller'[u].pc \in {"start_turn", "resume_read", "begin_deletion"}
  BY TypeShapes DEF StartRun, ResumeRun, DeleteRun, Begin, stores, Shapes
<1>2. CalmConversations /\ CalmRows /\ CalmTasks /\ LiveIsRegistered' /\ LateMarks'
  BY <1>1, SameIsCalm, StillRegistered, LateStays
<1>3. DeletionIsAnnounced'
  BY <1>1 DEF ProcessInv, DeletionIsAnnounced, DeletionPcs
<1>4. DrainingIsQuiet'
  BY <1>1 DEF DrainingIsQuiet
<1>5. ProcessInv'
  BY <1>2, <1>3, <1>4 DEF ProcessInv
<1>6. CASE \E r \in Runs, a \in Actions : ResumeRun(u, r, a)
  BY <1>5, <1>6, ResumeRunStep
<1>7. CASE ~ \E r \in Runs, a \in Actions : ResumeRun(u, r, a)
  <2>1. caller'[u].pc \in {"start_turn", "begin_deletion"}
    BY <1>1, <1>7 DEF StartRun, DeleteRun, Begin, Shapes
  <2>2. CalmCallers
    BY <1>1, <2>1 DEF CalmCallers, SetupPcs, ResumingPcs
  <2> QED BY <1>2, <1>5, <2>2, CalmStep DEF Calm
<1> QED BY <1>6, <1>7

\* An operation nobody awaits runs: it marks a run nobody works on.
LEMMA LateCommitInv ==
  ASSUME RunInv, ProcessInv, TypeInv, TypeInv', NEW o \in late, LateCommit(o)
  PROVE  RunInv' /\ ProcessInv'
<1>0. /\ Shapes /\ o.op = "mark" /\ o.run \in Runs /\ o.conv = ConvOf[o.run]
      /\ conversation[o.conv] # "ACTIVE" \/ phase = "draining"
      /\ UNCHANGED <<task, registered, consolidating, caller, phase>>
      /\ late' \subseteq late
  BY TypeShapes DEF LateCommit, ProcessInv, LateMarks, TypeInv, LateShape, OpShape
<1>1. UNCHANGED <<conversation, run>> \/ MarkInterrupted(o.run)
  BY <1>0 DEF LateCommit, Commit, MySqlTransaction, Raises, stores
<1>2. phase = "draining" =>
        /\ \A g \in Gens : task'[<<o.run, g>>].pc \notin WorkingPcs
        /\ \A u \in Callers : caller'[u].pc \notin SetupPcs
  BY <1>0 DEF ProcessInv, DrainingIsQuiet, Working, Tasks, SetupPcs
<1>3. CalmConversations /\ CalmRows /\ CalmTasks /\ CalmCallers
  BY <1>0, <1>1, <1>2, SameIsCalm, MarkCalm
<1>4. RunInv'
  BY <1>3, CalmStep DEF Calm
<1>5. LiveIsRegistered'
  BY <1>0, <1>3, StillRegistered
<1>6. UNCHANGED conversation
  BY <1>1 DEF MarkInterrupted
<1>7. ProcessInv'
  BY <1>0, <1>5, <1>6 DEF ProcessInv, DeletionIsAnnounced, LateMarks, DrainingIsQuiet, Working
<1> QED BY <1>4, <1>7

\* Shutdown cancels whatever is registered, which is whatever is alive.
LEMMA ShutdownInv ==
  ASSUME AssumedAdversity, RunInv, ProcessInv, TypeInv, TypeInv', Shutdown
  PROVE  RunInv' /\ ProcessInv'
<1>1. /\ registered \in SUBSET Tasks
      /\ UNCHANGED <<conversation, run, caller>> /\ phase' = "draining"
      /\ \A u \in Callers : caller[u].pc = "idle"
  BY DEF TypeInv, TypeOK, Shutdown, stores, At
<1>2. PICK T \in SUBSET registered : CancelTasks(registered, T)
  BY DEF Shutdown
<1>3. /\ CalmTasks /\ LiveIsRegistered'
      /\ \A t \in registered : ~Working(t)'
      /\ \A o \in late' :
           o \in late \/ \E t \in registered : o.op = "mark" /\ o.conv = ConvOf[t[1]]
  BY <1>1, <1>2, CancelStep
<1>4. RunInv'
  BY <1>1, <1>3, SameIsCalm, CalmStep DEF Calm
<1>5. \A t \in Tasks : ~Working(t)'
  <2> SUFFICES ASSUME NEW t \in Tasks, Working(t)' PROVE FALSE
    OBVIOUS
  <2>1. Working(t)
    BY <1>3, TaskPairs DEF CalmTasks, Working
  <2>2. t \in registered
    BY <2>1, TaskPairs, WorkingLiveKnown DEF ProcessInv, LiveIsRegistered
  <2> QED BY <1>3, <2>2
<1>6. DrainingIsQuiet' /\ LateMarks' /\ DeletionIsAnnounced'
  BY <1>1, <1>3, <1>5 DEF ProcessInv, DrainingIsQuiet, LateMarks, DeletionIsAnnounced, DeletionPcs
<1> QED BY <1>3, <1>4, <1>6 DEF ProcessInv

\* A new process starts with nothing alive.
LEMMA RestartInv ==
  ASSUME RunInv, ProcessInv, TypeInv, TypeInv', Restart
  PROVE  RunInv' /\ ProcessInv'
<1>1. /\ UNCHANGED <<conversation, run>> /\ late' = {} /\ phase' = "up"
      /\ \A u \in Callers : caller'[u].pc = "idle"
      /\ \A t \in Tasks : task'[t].pc = IF task[t].pc = "none" THEN "none" ELSE "ended"
  BY TypeShapes DEF Restart, stores, Idle, Shapes, TaskState
<1>2. CalmTasks
  <2>1. \A r \in Runs : \A g \in Gens : <<r, g>> \in Tasks
    BY DEF Tasks
  <2> QED BY <1>1, <2>1 DEF CalmTasks, LivePcs, WorkingPcs
<1>3. CalmCallers
  BY <1>1 DEF CalmCallers, SetupPcs, ResumingPcs
<1>4. RunInv'
  BY <1>1, <1>2, <1>3, SameIsCalm, CalmStep DEF Calm
<1>5. ProcessInv'
  BY <1>1 DEF ProcessInv, DeletionIsAnnounced, LateMarks, DrainingIsQuiet, LiveIsRegistered,
     DeletionPcs, Live, LivePcs
<1> QED BY <1>4, <1>5

\* A step that touches no row, task, handler or late operation.
LEMMA IdleInv ==
  ASSUME RunInv, ProcessInv, TypeInv, TypeInv',
         UNCHANGED <<conversation, run, task, registered, late, caller>>,
         UNCHANGED phase \/ StopServer
  PROVE  RunInv' /\ ProcessInv'
<1>1. CalmConversations /\ CalmRows /\ CalmTasks /\ CalmCallers /\ LiveIsRegistered'
  BY SameIsCalm, StillRegistered
<1>2. RunInv'
  BY <1>1, CalmStep DEF Calm
<1>3. ProcessInv'
  <2>1. CASE UNCHANGED phase
    BY <1>1, <2>1, CalmProcess
  <2>2. CASE StopServer
    BY <1>1, <2>2 DEF StopServer, ProcessInv, DeletionIsAnnounced, LateMarks, DrainingIsQuiet
  <2> QED BY <2>1, <2>2
<1> QED BY <1>2, <1>3

\* The invariant holds at the start, and every step keeps it.
LEMMA IInvInit == Init => IInv
<1> SUFFICES ASSUME Init PROVE IInv
  OBVIOUS
<1>1. /\ \A t \in Tasks : task[t].pc = "none"
      /\ \A u \in Callers : caller[u].pc = "idle"
      /\ \A r \in Runs : run[r] = NoRow
      /\ late = {} /\ phase = "up"
      /\ \A r \in Runs : \A g \in Gens : task[<<r, g>>].pc = "none"
  BY DEF Init, NoTask, Idle, Tasks
<1>2. \A r \in Runs : \A u \in Callers : ~InSetup(u, r) /\ ~Resuming(u, r)
  BY <1>1 DEF InSetup, Resuming, SetupPcs, ResumingPcs
<1>3. ProcessInv
  BY <1>1 DEF ProcessInv, DeletionIsAnnounced, LateMarks, DrainingIsQuiet, LiveIsRegistered,
     DeletionPcs, Live, LivePcs
<1>4. \A r \in Runs : \A g \in Gens : ~Known(<<r, g>>) /\ ~Live(<<r, g>>) /\ ~Working(<<r, g>>)
  BY <1>1 DEF Known, Live, Working, LivePcs, WorkingPcs
<1>5. \A r \in Runs : ~InTheMaking(r)
  <2>1. \A r \in Runs : ~Active(r)
    BY <1>1 DEF Active, NoRow, ActiveRunStatuses
  <2> QED BY <1>2, <1>4, <2>1 DEF InTheMaking
<1>6. RunInv
  BY <1>1, <1>2, <1>4, <1>5 DEF RunInv, AbsentIsUnused, LiveIsLast, WorkingIsRunning,
     WaitingAsksNext, SetupIsExclusive, ResumingIsCurrent, OneInTheMaking, NoRow
<1> QED BY <1>3, <1>6, TypeInit DEF IInv, RunInv, ProcessInv

LEMMA IInvStep == AssumedAdversity /\ IInv /\ [Next]_vars => IInv'
<1> SUFFICES ASSUME AssumedAdversity, IInv, [Next]_vars PROVE IInv'
  OBVIOUS
<1>0. RunInv /\ ProcessInv /\ TypeInv /\ TypeInv'
  BY TypeStep DEF IInv, RunInv, ProcessInv
<1>1. RunInv' /\ ProcessInv'
  <2>1. CASE \E u \in Callers :
               \/ \E r \in Runs : StartRun(u, r)
               \/ \E r \in Runs, a \in Actions : ResumeRun(u, r, a)
               \/ \E c \in Conversations : DeleteRun(u, c)
    BY <1>0, <2>1, CallArrivesInv
  <2>2. CASE \E u \in Callers : CallerStep(u) \/ CallerCancelled(u)
    BY <1>0, <2>2, CallerStepInv
  <2>3. CASE \E t \in Tasks : TaskStep(t)
    BY <1>0, <2>3, TaskStepInv
  <2>4. CASE \E o \in late : LateCommit(o)
    BY <1>0, <2>4, LateCommitInv
  <2>5. CASE Shutdown
    BY <1>0, <2>5, ShutdownInv
  <2>6. CASE Exit \/ Crash
    BY <1>0, <2>6, RestartInv DEF Exit, Crash
  <2>7. CASE StopServer \/ UNCHANGED vars \/ \E c \in Conversations : Consolidate(c)
    BY <1>0, <2>7, IdleInv DEF StopServer, Consolidate, vars, stores, process
  <2> QED BY <2>1, <2>2, <2>3, <2>4, <2>5, <2>6, <2>7 DEF Next
<1> QED BY <1>0, <1>1 DEF IInv, RunInv, ProcessInv

\* As long as approvals wait for the end of the task that asked and cancelled
\* operations do not commit late, the invariant holds: through store failures,
\* cancelled calls, deletions that race, shutdowns and crashes.
THEOREM InvariantHolds == AssumedAdversity => (Spec => []IInv)
<1> SUFFICES ASSUME AssumedAdversity PROVE Spec => []IInv
  OBVIOUS
<1>1. IInv /\ [Next]_vars => IInv'
  BY IInvStep
<1> QED BY IInvInit, <1>1, PTL DEF Spec

\* start_turn, claim_pending_action and complete_run never give a conversation two
\* unfinished runs.
THEOREM OneRunAtATime == AssumedAdversity => (Spec => []AtMostOneActiveRun)
<1>1. IInv => AtMostOneActiveRun
  BY DEF IInv, OneInTheMaking, InTheMaking, AtMostOneActiveRun
<1> QED BY InvariantHolds, <1>1, PTL

\* Two stream tasks never run their graphs on one conversation's thread.
THEOREM OneWriterAtATime == AssumedAdversity => (Spec => []ThreadHasOneWriter)
<1>1. IInv => ThreadHasOneWriter
  <2> SUFFICES ASSUME IInv, NEW t \in Tasks, NEW v \in Tasks, ConvOf[t[1]] = ConvOf[v[1]],
                      task[t].pc \in {"publish", "work"}, task[v].pc \in {"publish", "work"}
               PROVE  t = v
    BY DEF ThreadHasOneWriter
  <2>1. /\ Working(<<t[1], t[2]>>) /\ Working(<<v[1], v[2]>>)
        /\ t[1] \in Runs /\ v[1] \in Runs /\ t[2] \in Gens /\ v[2] \in Gens
    BY TaskPairs DEF Working, WorkingPcs
  <2>2. t[1] = v[1]
    BY <2>1 DEF IInv, OneInTheMaking, InTheMaking
  <2>3. t[2] = v[2]
    BY <2>1, <2>2, WorkingLiveKnown DEF IInv, LiveIsLast
  <2> QED BY <2>2, <2>3, TaskPairs
<1> QED BY InvariantHolds, <1>1, PTL

\* An approval that is sent again, by any number of handlers, starts no second task.
THEOREM OneTaskPerApproval == AssumedAdversity => (Spec => ApprovalStartsOneTask)
<1> SUFFICES ASSUME AssumedAdversity PROVE Spec => ApprovalStartsOneTask
  OBVIOUS
<1>1. IInv /\ [Next]_vars =>
        [\A t \in Tasks : task[t].pc # "none" /\ task[t].pc # "created"
                              => task'[t].pc # "created"]_vars
  <2> SUFFICES ASSUME IInv, [Next]_vars, NEW t \in Tasks,
                      task[t].pc # "none", task[t].pc # "created", task'[t].pc = "created"
               PROVE  FALSE
    OBVIOUS
  <2>0. Shapes /\ RunInv
    BY TypeShapes DEF IInv, RunInv
  <2>1. PICK u \in Callers : StartSetup(u) \/ ResumeSetup(u)
    <3>1. CASE \E v \in Tasks : TaskStep(v)
      BY <2>0, <3>1 DEF TaskStep, TaskBegin, TaskPublish, TaskWork, TaskStops, TaskCompletes,
         TaskAppends, TaskRecords, TaskReturns, TaskFails, TaskInterrupted, Goto, Shapes, TaskState
    <3>2. CASE \E S \in SUBSET Tasks : \E T \in SUBSET S : CancelTasks(S, T)
      BY <2>0, <3>2 DEF CancelTasks, Shapes, TaskState
    <3>3. CASE Restart
      BY <2>0, <3>3 DEF Restart, Shapes, TaskState
    <3>4. CASE UNCHANGED task
      BY <3>4
    <3>5. (\E u \in Callers : CallerCancelled(u) \/ DeletionCancels(u)) \/ Shutdown =>
            UNCHANGED task \/ \E S \in SUBSET Tasks : \E T \in SUBSET S : CancelTasks(S, T)
      <4>1. \A u \in Callers : DeletionCancels(u) =>
              \E S \in SUBSET registered : \E T \in SUBSET S : CancelTasks(S, T)
        BY DEF DeletionCancels
      <4>2. \A u \in Callers : caller[u].waits \in SUBSET Tasks
        BY <2>0 DEF Shapes, CallerState
      <4>3. registered \in SUBSET Tasks
        BY DEF IInv, TypeInv, TypeOK
      <4> QED BY <4>1, <4>2, <4>3 DEF CallerCancelled, Shutdown
    <3>6. CASE \E u \in Callers : CallerStep(u)
      BY <3>2, <3>4, <3>5, <3>6 DEF CallerStep, CallerCommits, CallerFails, StartSetupFails,
         ResumeReads, DeletionGathers, DeletionForgets
    <3>7. Next => \/ \E v \in Tasks : TaskStep(v)
                  \/ \E u \in Callers : CallerStep(u) \/ CallerCancelled(u)
                  \/ Shutdown \/ Restart \/ UNCHANGED task
      BY DEF Next, StartRun, ResumeRun, DeleteRun, Begin, LateCommit, Consolidate, StopServer,
         Exit, Crash
    <3> QED BY <3>1, <3>2, <3>3, <3>4, <3>5, <3>6, <3>7 DEF vars, process
  <2>2. PICK r \in Runs, a \in Gens : caller[u].run = r /\ caller[u].action = a
    BY <2>0, <2>1 DEF Shapes, CallerShape, CallerState, StartSetup, ResumeSetup, At, RunPcs
  <2>3. InSetup(u, r) /\ StartStreamTask(<<r, a>>)
    BY <2>0, <2>1, <2>2 DEF InSetup, SetupPcs, StartSetup, ResumeSetup, At, Shapes, CallerShape
  <2>4. t = <<r, a>>
    BY <2>0, <2>3 DEF StartStreamTask, Shapes
  <2>5. ~Known(<<r, a>>)
    BY <2>0, <2>2, <2>3 DEF RunInv, SetupIsExclusive
  <2> QED BY <2>4, <2>5 DEF Known
<1> QED BY InvariantHolds, <1>1, PTL DEF Spec, ApprovalStartsOneTask

=============================================================================
