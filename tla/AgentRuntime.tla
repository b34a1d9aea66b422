---------------------------- MODULE AgentRuntime ----------------------------
(***************************************************************************)
(* The life of agent runs in one server process                            *)
(* (app/runtime/agent_runtime.py): the RPC handlers that start, resume and *)
(* delete, the background task that streams a run, shutdown and crash,     *)
(* over the stores they share: MySQL rows (ChatLog), the SQLite event log, *)
(* the LangGraph checkpoint of the conversation's thread and the memory    *)
(* rows derived from it.                                                   *)
(*                                                                         *)
(* A program counter names the store operation a coroutine is awaiting, or *)
(* the synchronous code it runs next.  Store operations run in worker      *)
(* threads (asyncio.to_thread): a coroutine cancelled while it awaits one  *)
(* goes on at once, and the operation may still commit later.  `late` is   *)
(* the set of operations nobody awaits any more.                           *)
(*                                                                         *)
(* The task of a run is identified by the run and the action whose         *)
(* approval started it, 0 for the task StartRun started.                   *)
(***************************************************************************)
EXTENDS ChatLog, Sequences, FiniteSets

CONSTANTS
  Callers,      \* concurrent RPC handlers
  NoRun,        \* no run
  MaxEvents,    \* bound: non-terminal events a task publishes
  Adversity     \* what the environment may do, a subset of Adversities

Adversities == {
  "storeFault",   \* a store operation raises and rolls back
  "rpcCancel",    \* a client gives up: gRPC cancels the handler
  "lateWrite",    \* a cancelled operation commits after its caller went on
  "earlyResume",  \* a client resumes before the task that asked has ended
  "deleteRace",   \* a client deletes while another call on the conversation,
                  \* or its memory consolidation, is in progress
  "shutdown",     \* the server stops in order
  "crash" }       \* the process dies and is restarted

ASSUME RuntimeAssumption ==
  /\ NoRun \notin Runs
  /\ MaxEvents \in Nat \ {0}
  /\ Adversity \subseteq Adversities

VARIABLES
  log,            \* agent_stream_events: the event names of each run
  thread,         \* LangGraph checkpoint: whose state, which action it awaits
  memory,         \* conversations with memory facts, episodes or a cursor
  task,           \* the stream tasks
  registered,     \* _active_stream_tasks, at most one task per run
  late,           \* operations still running in a worker thread, unawaited
  consolidating,  \* _active_consolidation_scopes
  caller,         \* the RPC handlers
  phase           \* "up", "stopping" (no new RPC), "draining" (tasks cancelled)

stores  == <<conversation, run, log, thread, memory>>
process == <<task, registered, late, consolidating, caller, phase>>
vars    == <<stores, process>>

Gens  == 0..MaxAction
Tasks == Runs \X Gens
Outcomes == {"confirmation_required", "completed", "failed"}
TerminalEvents == {"confirmation_required", "run_completed", "run_failed"}
Events == {"progress"} \cup TerminalEvents

\* The event that ends a segment of the stream.
EventOf(outcome) ==
  CASE outcome = "completed" -> "run_completed"
    [] outcome = "failed"    -> "run_failed"
    [] OTHER                 -> "confirmation_required"

-----------------------------------------------------------------------------
(* Store operations as they sit in a worker thread.                        *)

OpNames == {"start_turn", "claim", "mark", "complete", "append", "record",
            "begin_deletion", "delete_thread", "delete_events",
            "delete_history"}

Ops == [ op : OpNames, conv : Conversations, run : Runs \cup {NoRun},
         action : 0..(MaxAction + 1), outcome : Outcomes \cup {"none"},
         event : Events, seq : Nat ]

RunOp(name, r) ==
  [ op |-> name, conv |-> ConvOf[r], run |-> r, action |-> 0,
    outcome |-> "none", event |-> "progress", seq |-> 0 ]

ConversationOp(name, c) ==
  [ op |-> name, conv |-> c, run |-> NoRun, action |-> 0,
    outcome |-> "none", event |-> "progress", seq |-> 0 ]

NoThread == [run |-> NoRun, action |-> 0]

\* stream_events.append: the next sequence number, whatever MySQL says.
AppendEvent(r, event) == log' = [log EXCEPT ![r] = Append(@, event)]

\* stream_events.delete_conversation
DeleteEvents(c) ==
  log' = [r \in Runs |-> IF ConvOf[r] = c THEN <<>> ELSE log[r]]

MySqlTransaction(o) ==
  \/ o.op = "start_turn" /\ StartTurn(o.run)
  \/ o.op = "claim"      /\ ClaimPendingAction(o.run, o.action)
  \/ o.op = "mark"       /\ MarkInterrupted(o.run)
  \/ o.op = "complete"   /\ CompleteRun(o.run, o.outcome, o.action)
  \/ o.op = "record"     /\ RecordTerminalEventSequence(o.run, o.seq)
  \/ o.op = "begin_deletion" /\ BeginConversationDeletion(o.conv)
  \/ o.op = "delete_history" /\ DeleteConversation(o.conv)

\* Operation o commits.
Commit(o) ==
  \/ MySqlTransaction(o) /\ UNCHANGED <<log, thread, memory>>
  \/ /\ o.op = "append" /\ AppendEvent(o.run, o.event)
     /\ UNCHANGED <<conversation, run, thread, memory>>
  \/ /\ o.op = "delete_events" /\ DeleteEvents(o.conv)
     /\ UNCHANGED <<conversation, run, thread, memory>>
  \/ /\ o.op = "delete_thread"
     /\ thread' = [thread EXCEPT ![o.conv] = NoThread]
     /\ UNCHANGED <<conversation, run, log, memory>>

\* Operation o raises because of the rows it finds.
Refused(o) ==
  \/ o.op = "start_turn" /\ ~StartTurnAllowed(o.run)
  \/ o.op = "claim"      /\ ~ClaimAllowed(o.run, o.action)
  \/ o.op \in {"mark", "complete", "record"} /\ ~Exists(o.run)
  \/ /\ o.op \in {"begin_deletion", "delete_history"}
     /\ conversation[o.conv] = "GONE"

\* Operation o raises and changes nothing: refused, or the store failed.
Raises(o) ==
  /\ Refused(o) \/ "storeFault" \in Adversity
  /\ UNCHANGED stores

-----------------------------------------------------------------------------
(* The stream task.                                                        *)

TaskPcs == {"none", "created", "publish", "work", "complete", "append",
            "record", "recorded", "interrupt", "ended"}
LivePcs == TaskPcs \ {"none", "ended"}

TaskState == [pc : TaskPcs, outcome : Outcomes \cup {"none"}, seq : Nat,
              published : Nat]
NoTask == [pc |-> "none", outcome |-> "none", seq |-> 0, published |-> 0]

LiveTasks(r) == {t \in Tasks : t[1] = r /\ task[t].pc \in LivePcs}

\* The store operation the task awaits.
TaskOp(t) ==
  LET o == RunOp("append", t[1]) IN
  CASE task[t].pc = "publish"   -> o
    [] task[t].pc = "append"    -> [o EXCEPT !.event = EventOf(task[t].outcome)]
    [] task[t].pc = "complete"  -> [o EXCEPT !.op = "complete",
                                             !.outcome = task[t].outcome,
                                             !.action = t[2] + 1]
    [] task[t].pc = "record"    -> [o EXCEPT !.op = "record",
                                             !.seq = task[t].seq]
    [] OTHER                    -> [o EXCEPT !.op = "mark"]

Storing == {"publish", "complete", "append", "record", "interrupt"}

Goto(t, pc) == task' = [task EXCEPT ![t].pc = pc]

\* The finally block pops the run's entry, whichever task it names by now.
Unregister(S) == registered' = {u \in registered : \A t \in S : u[1] # t[1]}

\* _start_stream_task: the entry of the run now names the new task.
StartStreamTask(t) ==
  /\ task' = [task EXCEPT ![t] = [NoTask EXCEPT !.pc = "created"]]
  /\ registered' = {u \in registered : u[1] # t[1]} \cup {t}

\* First step: the session is built and run_started is published.  When the
\* session cannot be built, run_failed is published instead.
TaskBegin(t) ==
  /\ task[t].pc = "created"
  /\ \/ Goto(t, "publish")
     \/ task' = [task EXCEPT ![t].pc = "complete", ![t].outcome = "failed"]
  /\ UNCHANGED <<stores, registered, late, consolidating, caller, phase>>

\* PersistenceHandler appends a non-terminal event.
TaskPublish(t) ==
  /\ task[t].pc = "publish"
  /\ Commit(TaskOp(t))
  /\ task' = [task EXCEPT ![t].pc = "work", ![t].published = @ + 1]
  /\ UNCHANGED <<registered, late, consolidating, caller, phase>>

\* The graph checkpoints a step on the conversation's thread.
Checkpoint(t, action) ==
  thread' = [thread EXCEPT ![ConvOf[t[1]]] = [run |-> t[1], action |-> action]]

\* The graph goes on and has another event to publish.
TaskWork(t) ==
  /\ task[t].pc = "work"
  /\ task[t].published < MaxEvents
  /\ Checkpoint(t, 0)
  /\ Goto(t, "publish")
  /\ UNCHANGED <<conversation, run, log, memory,
                 registered, late, consolidating, caller, phase>>

\* The graph stops: at a confirmation interrupt, at its end, or by an error.
TaskStops(t) ==
  /\ task[t].pc = "work"
  /\ \E outcome \in Outcomes :
       /\ outcome = "confirmation_required" => t[2] < MaxAction
       /\ Checkpoint(t, IF outcome = "confirmation_required" THEN t[2] + 1 ELSE 0)
       /\ task' = [task EXCEPT ![t].pc = "complete", ![t].outcome = outcome]
  /\ UNCHANGED <<conversation, run, log, memory,
                 registered, late, consolidating, caller, phase>>

\* The terminal event: (a) complete_run in MySQL, (b) the event in SQLite,
\* (c) its sequence number in MySQL.
TaskCompletes(t) ==
  /\ task[t].pc = "complete"
  /\ Commit(TaskOp(t))
  /\ Goto(t, "append")
  /\ UNCHANGED <<registered, late, consolidating, caller, phase>>

TaskAppends(t) ==
  /\ task[t].pc = "append"
  /\ Commit(TaskOp(t))
  /\ task' = [task EXCEPT ![t].pc = "record", ![t].seq = Len(log'[t[1]])]
  /\ UNCHANGED <<registered, late, consolidating, caller, phase>>

TaskRecords(t) ==
  /\ task[t].pc = "record"
  /\ Commit(TaskOp(t))
  /\ Goto(t, "recorded")
  /\ UNCHANGED <<registered, late, consolidating, caller, phase>>

\* service.stream has returned: consolidation is scheduled, the finally block
\* drops the registry entry.  No await lies between.
TaskReturns(t) ==
  /\ task[t].pc = "recorded"
  /\ Goto(t, "ended")
  /\ Unregister({t})
  /\ consolidating' = IF task[t].outcome = "completed"
                      THEN consolidating \cup {ConvOf[t[1]]}
                      ELSE consolidating
  /\ UNCHANGED <<stores, late, caller, phase>>

\* A publication fails: EventPublicationError leads to the finally block.  An
\* event with a message also needs the run's row.
TaskFails(t) ==
  /\ task[t].pc \in {"publish", "complete", "append", "record"}
  /\ \/ Raises(TaskOp(t))
     \/ task[t].pc = "publish" /\ ~Exists(t[1]) /\ UNCHANGED stores
  /\ Goto(t, "interrupt")
  /\ UNCHANGED <<registered, late, consolidating, caller, phase>>

\* Mutant of TaskInterrupted: the finally block only drops the registry entry.
TaskInterrupted_NoMark(t) ==
  /\ task[t].pc = "interrupt"
  /\ Goto(t, "ended")
  /\ Unregister({t})
  /\ UNCHANGED <<stores, late, consolidating, caller, phase>>

\* The finally block of a task whose terminal event was not persisted.
TaskInterrupted(t) ==
  /\ task[t].pc = "interrupt"
  /\ Commit(TaskOp(t)) \/ Raises(TaskOp(t))
  /\ Goto(t, "ended")
  /\ Unregister({t})
  /\ UNCHANGED <<late, consolidating, caller, phase>>

TaskStep(t) ==
  \/ TaskBegin(t) \/ TaskPublish(t) \/ TaskWork(t) \/ TaskStops(t)
  \/ TaskCompletes(t) \/ TaskAppends(t) \/ TaskRecords(t) \/ TaskReturns(t)
  \/ TaskFails(t) \/ TaskInterrupted(t)

(***************************************************************************)
(* Task.cancel() on the tasks of S.  One that has not begun never enters   *)
(* its try block: it ends at once and its registry entry stays.  One that  *)
(* awaits the shielded mark_interrupted leaves it to the worker thread and *)
(* ends; any other goes to its finally block.  T of them leave a store     *)
(* operation behind that still commits.                                    *)
(***************************************************************************)
CancelTasks(S, T) ==
  LET pc(t) == task[t].pc
      Marking == {t \in S : pc(t) = "interrupt"} IN
  /\ T \subseteq {t \in S : pc(t) \in Storing \ {"interrupt"}}
  /\ T # {} => "lateWrite" \in Adversity
  /\ task' = [t \in Tasks |->
       IF t \notin S \/ pc(t) \notin LivePcs THEN task[t]
       ELSE [task[t] EXCEPT
              !.pc = IF @ \in {"created", "interrupt"} THEN "ended" ELSE "interrupt"]]
  /\ Unregister(Marking)
  /\ late' = late \cup {TaskOp(t) : t \in T \cup Marking}

-----------------------------------------------------------------------------
(* The RPC handlers.                                                       *)

CallerPcs == {"idle", "start_turn", "start_setup", "resume_read", "claim",
              "resume_setup", "abort", "begin_deletion", "cancel_tasks",
              "gather", "delete_thread", "delete_memory", "delete_events",
              "delete_history"}

CallerState == [ pc : CallerPcs, conv : Conversations, run : Runs \cup {NoRun},
                 action : 0..MaxAction, waits : SUBSET Tasks ]

\* The store operation a handler awaits.
StoreCall == {"start_turn", "claim", "abort", "begin_deletion",
              "delete_thread", "delete_events", "delete_history"}

CallerOp(u) ==
  LET h == caller[u] IN
  CASE h.pc = "start_turn" -> RunOp("start_turn", h.run)
    [] h.pc = "claim"      -> [RunOp("claim", h.run) EXCEPT !.action = h.action]
    [] h.pc = "abort"      -> RunOp("mark", h.run)
    [] OTHER               -> ConversationOp(h.pc, h.conv)

At(u, pc) == caller[u].pc = pc
CallerGoto(u, pc) == caller' = [caller EXCEPT ![u].pc = pc]

\* The handler has returned or raised: nothing of it is left.
Idle(c) == [pc |-> "idle", conv |-> c, run |-> NoRun, action |-> 0, waits |-> {}]
Leave(u) == caller' = [caller EXCEPT ![u] = Idle(caller[u].conv)]

Busy(c) == {u \in Callers : ~At(u, "idle") /\ caller[u].conv = c}

Begin(u, pc, c, r, action) ==
  /\ phase = "up"
  /\ At(u, "idle")
  /\ "deleteRace" \in Adversity
       \/ \A v \in Busy(c) : caller[v].pc \notin {"begin_deletion",
            "cancel_tasks", "gather", "delete_thread", "delete_memory",
            "delete_events", "delete_history"}
  /\ caller' = [caller EXCEPT ![u] = [pc |-> pc, conv |-> c, run |-> r,
                                      action |-> action, waits |-> {}]]
  /\ UNCHANGED <<stores, task, registered, late, consolidating, phase>>

\* StartRun, for a new run id or as a repeated request.
StartRun(u, r) == Begin(u, "start_turn", ConvOf[r], r, 0)

\* ResumeRun for an action the client has seen the run ask for.
ResumeRun(u, r, action) ==
  /\ action \in run[r].approvals \cup ({run[r].pending} \ {0})
  /\ "earlyResume" \in Adversity \/ LiveTasks(r) = {}
  /\ Begin(u, "resume_read", ConvOf[r], r, action)

DeleteRun(u, c) ==
  /\ "deleteRace" \in Adversity \/ (Busy(c) = {} /\ c \notin consolidating)
  /\ Begin(u, "begin_deletion", c, NoRun, 0)

\* A handler's store operation commits and the handler goes on at next.
CallerCommits(u, pc, next) ==
  /\ At(u, pc)
  /\ Commit(CallerOp(u))
  /\ IF next = "idle" THEN Leave(u) ELSE CallerGoto(u, next)
  /\ UNCHANGED <<task, registered, late, consolidating, phase>>

\* Its store operation raises, and so does the handler (after an abort, the
\* failure of mark_interrupted is only logged and the first error raised).
CallerFails(u) ==
  /\ caller[u].pc \in StoreCall
  /\ Raises(CallerOp(u))
  /\ Leave(u)
  /\ UNCHANGED <<task, registered, late, consolidating, phase>>

\* chat_stream after start_turn: settings are resolved and the task created.
StartSetup(u) ==
  /\ At(u, "start_setup")
  /\ StartStreamTask(<<caller[u].run, 0>>)
  /\ Leave(u)
  /\ UNCHANGED <<stores, late, consolidating, phase>>

\* Mutant of StartSetupFails: the handler raises without the abort.
StartSetupFails_NoAbort(u) ==
  /\ At(u, "start_setup")
  /\ Leave(u)
  /\ UNCHANGED <<stores, task, registered, late, consolidating, phase>>

\* The settings cannot be resolved: _abort_stream_setup.
StartSetupFails(u) ==
  /\ At(u, "start_setup")
  /\ CallerGoto(u, "abort")
  /\ UNCHANGED <<stores, task, registered, late, consolidating, phase>>

\* _resume_session: the thread must stand at the requested action of the run.
ResumeReads(u) ==
  LET h == caller[u] IN
  /\ At(u, "resume_read")
  /\ IF /\ conversation[h.conv] = "ACTIVE"
        /\ Exists(h.run)
        /\ thread[h.conv] = [run |-> h.run, action |-> h.action]
     THEN CallerGoto(u, "claim")
     ELSE Leave(u)
  /\ UNCHANGED <<stores, task, registered, late, consolidating, phase>>

ResumeSetup(u) ==
  /\ At(u, "resume_setup")
  /\ StartStreamTask(<<caller[u].run, caller[u].action>>)
  /\ Leave(u)
  /\ UNCHANGED <<stores, late, consolidating, phase>>

\* _run_conversation_deletion: cancel the conversation's registered tasks...
DeletionCancels(u) ==
  LET S == {t \in registered : ConvOf[t[1]] = caller[u].conv} IN
  /\ At(u, "cancel_tasks")
  /\ \E T \in SUBSET S : CancelTasks(S, T)
  /\ caller' = [caller EXCEPT ![u].pc = "gather", ![u].waits = S]
  /\ UNCHANGED <<stores, consolidating, phase>>

\* Mutants of DeletionGathers: it does not wait, or waits for the registry
\* entries to go instead of the tasks.
DeletionGathers_NoWait(u) ==
  /\ At(u, "gather")
  /\ CallerGoto(u, "delete_thread")
  /\ UNCHANGED <<stores, task, registered, late, consolidating, phase>>

DeletionGathers_OnRegistry(u) ==
  /\ At(u, "gather")
  /\ caller[u].waits \cap registered = {}
  /\ CallerGoto(u, "delete_thread")
  /\ UNCHANGED <<stores, task, registered, late, consolidating, phase>>

\* ... and wait for them.
DeletionGathers(u) ==
  /\ At(u, "gather")
  /\ \A t \in caller[u].waits : task[t].pc = "ended"
  /\ CallerGoto(u, "delete_thread")
  /\ UNCHANGED <<stores, task, registered, late, consolidating, phase>>

\* The memory rows go in one commit; the index deletes after it may fail.
\* Nothing stops a consolidation that is still running.
DeletionForgets(u) ==
  /\ At(u, "delete_memory")
  /\ "deleteRace" \in Adversity \/ caller[u].conv \notin consolidating
  /\ \/ memory' = memory \ {caller[u].conv} /\ CallerGoto(u, "delete_events")
     \/ /\ "storeFault" \in Adversity
        /\ memory' \in {memory, memory \ {caller[u].conv}}
        /\ Leave(u)
  /\ UNCHANGED <<conversation, run, log, thread,
                 task, registered, late, consolidating, phase>>

\* gRPC cancels the handler at an await.  While it gathers, the cancellation
\* passes on to the tasks it waits for.
CallerCancelled(u) ==
  /\ "rpcCancel" \in Adversity
  /\ ~At(u, "idle") /\ ~At(u, "cancel_tasks")
  /\ IF At(u, "gather")
     THEN \E T \in SUBSET caller[u].waits : CancelTasks(caller[u].waits, T)
     ELSE /\ \/ late' = late
             \/ /\ caller[u].pc \in StoreCall
                /\ "lateWrite" \in Adversity
                /\ late' = late \cup {CallerOp(u)}
          /\ UNCHANGED <<task, registered>>
  /\ Leave(u)
  /\ UNCHANGED <<stores, consolidating, phase>>

CallerStep(u) ==
  \/ CallerCommits(u, "start_turn", "start_setup")
  \/ CallerCommits(u, "claim", "resume_setup")
  \/ CallerCommits(u, "abort", "idle")
  \/ CallerCommits(u, "begin_deletion", "cancel_tasks")
  \/ CallerCommits(u, "delete_thread", "delete_memory")
  \/ CallerCommits(u, "delete_events", "delete_history")
  \/ CallerCommits(u, "delete_history", "idle")
  \/ CallerFails(u) \/ StartSetup(u) \/ StartSetupFails(u)
  \/ ResumeReads(u) \/ ResumeSetup(u)
  \/ DeletionCancels(u) \/ DeletionGathers(u) \/ DeletionForgets(u)

-----------------------------------------------------------------------------
(* The rest of the process.                                                *)

\* An operation nobody awaits any more commits or raises.
LateCommit(o) ==
  /\ o \in late
  /\ Commit(o) \/ Raises(o)
  /\ late' = late \ {o}
  /\ UNCHANGED <<task, registered, consolidating, caller, phase>>

\* Memory consolidation ends; when it is due it commits facts and cursor.
Consolidate(c) ==
  /\ c \in consolidating
  /\ consolidating' = consolidating \ {c}
  /\ memory' \in {memory, memory \cup {c}}
  /\ UNCHANGED <<conversation, run, log, thread,
                 task, registered, late, caller, phase>>

\* The gRPC server takes no more calls and waits for those in progress.
StopServer ==
  /\ "shutdown" \in Adversity
  /\ phase = "up"
  /\ phase' = "stopping"
  /\ UNCHANGED <<stores, task, registered, late, consolidating, caller>>

\* AgentRuntime.shutdown cancels every registered task.  By the time the last
\* RPC has been answered the event loop has begun every task it created.
Shutdown ==
  /\ phase = "stopping"
  /\ \A u \in Callers : At(u, "idle")
  /\ \A t \in registered : task[t].pc # "created"
  /\ \E T \in SUBSET registered : CancelTasks(registered, T)
  /\ phase' = "draining"
  /\ UNCHANGED <<stores, consolidating, caller>>

\* What a new process starts from.  Ended tasks are remembered as such.
Restart ==
  /\ task' = [t \in Tasks |->
       IF task[t].pc = "none" THEN task[t] ELSE [task[t] EXCEPT !.pc = "ended"]]
  /\ registered' = {}
  /\ late' = {}
  /\ consolidating' = {}
  /\ caller' = [u \in Callers |-> Idle(caller[u].conv)]
  /\ phase' = "up"
  /\ UNCHANGED stores

\* The gathered tasks have ended and worker threads are joined.
Exit ==
  /\ phase = "draining"
  /\ \A t \in registered : task[t].pc = "ended"
  /\ late = {}
  /\ Restart

Crash ==
  /\ "crash" \in Adversity
  /\ Restart

-----------------------------------------------------------------------------
Init ==
  /\ conversation = [c \in Conversations |-> "ACTIVE"]
  /\ run = [r \in Runs |-> NoRow]
  /\ log = [r \in Runs |-> <<>>]
  /\ thread = [c \in Conversations |-> NoThread]
  /\ memory = {}
  /\ task = [t \in Tasks |-> NoTask]
  /\ registered = {}
  /\ late = {}
  /\ consolidating = {}
  /\ caller \in [Callers -> {Idle(c) : c \in Conversations}]
  /\ phase = "up"

Next ==
  \/ \E u \in Callers, r \in Runs : StartRun(u, r)
  \/ \E u \in Callers, r \in Runs, a \in Actions : ResumeRun(u, r, a)
  \/ \E u \in Callers, c \in Conversations : DeleteRun(u, c)
  \/ \E u \in Callers : CallerStep(u) \/ CallerCancelled(u)
  \/ \E t \in Tasks : TaskStep(t)
  \/ \E o \in late : LateCommit(o)
  \/ \E c \in Conversations : Consolidate(c)
  \/ StopServer \/ Shutdown \/ Exit \/ Crash

Spec == Init /\ [][Next]_vars

\* The event loop and the worker threads serve whoever is ready, and stores,
\* models and tools answer or time out.  Clients, shutdown and crashes owe
\* nothing.
Fairness ==
  /\ \A t \in Tasks : WF_vars(TaskStep(t))
  /\ \A u \in Callers : WF_vars(CallerStep(u))
  /\ \A c \in Conversations : WF_vars(Consolidate(c))
  /\ WF_vars(\E o \in late : LateCommit(o))

FairSpec == Spec /\ Fairness

-----------------------------------------------------------------------------
(* Properties.                                                             *)

\* The shape of every variable.
TypeOK ==
  /\ conversation \in [Conversations -> ConversationStatus]
  /\ run \in [Runs -> RunRow]
  /\ log \in [Runs -> Seq(Events)]
  /\ thread \in [Conversations -> [run : Runs \cup {NoRun}, action : 0..MaxAction]]
  /\ memory \subseteq Conversations
  /\ task \in [Tasks -> TaskState]
  /\ registered \subseteq Tasks
  /\ late \subseteq Ops
  /\ consolidating \subseteq Conversations
  /\ caller \in [Callers -> CallerState]
  /\ phase \in {"up", "stopping", "draining"}

\* A conversation never has two unfinished runs (chat_log.start_turn refuses a
\* second one): not even when a finished run's late writes are still to come.
AtMostOneActiveRun ==
  \A r, s \in Runs : ConvOf[r] = ConvOf[s] /\ Active(r) /\ Active(s) => r = s

\* In a live conversation a RUNNING row always has somebody who will end it: a
\* stream task, a handler about to create or abort one, or a mark_interrupted
\* in a worker thread.  Otherwise start_turn refuses the conversation forever.
RunningIsOwned ==
  \A r \in Runs :
    run[r].status = "RUNNING" /\ conversation[ConvOf[r]] = "ACTIVE" =>
      \/ LiveTasks(r) # {}
      \/ \E u \in Callers : /\ caller[u].run = r
                            /\ caller[u].pc \in {"start_setup", "resume_setup", "abort"}
      \/ RunOp("mark", r) \in late

\* The conversation's LangGraph thread never has two graphs running on it, each
\* checkpointing over the other's state.
ThreadHasOneWriter ==
  \A t, u \in Tasks :
    /\ ConvOf[t[1]] = ConvOf[u[1]]
    /\ task[t].pc \in {"publish", "work"} /\ task[u].pc \in {"publish", "work"}
    => t = u

\* A terminal event sequence number a subscriber trusts names the last event of
\* the run's log, and that event is a terminal one (IpcEventBroadcaster ends a
\* subscription at it).
RecordedSequenceEndsLog ==
  \A r \in Runs :
    run[r].sequence # 0 /\ conversation[ConvOf[r]] = "ACTIVE" =>
      /\ run[r].status # "RUNNING"
      /\ run[r].sequence = Len(log[r])
      /\ log[r][Len(log[r])] \in TerminalEvents

\* From the first deletion stage on, no task of the conversation is alive to
\* write to the stores being emptied.
DeletionIsQuiet ==
  \A u \in Callers :
    caller[u].pc \in {"delete_thread", "delete_memory", "delete_events", "delete_history"} =>
      \A t \in Tasks : ConvOf[t[1]] = caller[u].conv => task[t].pc \notin LivePcs

\* No task, handler or late operation brings back a row of a conversation that
\* has been deleted.
GoneStaysGone ==
  \A r \in Runs : conversation[ConvOf[r]] = "GONE" => ~Exists(r)

\* A deleted conversation leaves nothing in any store.
DeletionIsComplete ==
  \A c \in Conversations :
    conversation[c] = "GONE" =>
      /\ \A r \in Siblings(c) : ~Exists(r) /\ log[r] = <<>>
      /\ thread[c] = NoThread
      /\ c \notin memory

\* A deletion is quiet while it goes on and complete when it is over.
DeletionIsClean == DeletionIsQuiet /\ DeletionIsComplete

\* A finished run never changes its mind.
FinishedIsFinal ==
  [][\A r \in Runs : run[r].status \in TerminalRunStatuses =>
       run'[r].status \in {run[r].status, "ABSENT"}]_vars

\* Each approval starts one task, whatever the number of requests that carry it.
ApprovalStartsOneTask ==
  [][\A t \in Tasks : task[t].pc # "none" /\ task[t].pc # "created"
                         => task'[t].pc # "created"]_vars

\* A run does not stay RUNNING: it finishes or waits for its user.
RunSettles ==
  \A r \in Runs : run[r].status = "RUNNING" ~> run[r].status # "RUNNING"

\* A deletion that has begun is carried to its end.
DeletionEnds ==
  \A c \in Conversations :
    conversation[c] = "DELETED" ~> conversation[c] = "GONE"

\* The service keeps its contract with clients (module RunContract).
Contract == INSTANCE RunContract WITH
  open   <- {c \in Conversations : conversation[c] = "ACTIVE"},
  status <- [r \in Runs |-> run[r].status]
ContractSpec == Contract!Spec

=============================================================================
