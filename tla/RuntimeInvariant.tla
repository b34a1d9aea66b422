-------------------------- MODULE RuntimeInvariant --------------------------
(***************************************************************************)
(* The inductive invariants behind the safety properties of AgentRuntime.  *)
(*                                                                         *)
(* IInv is behind AtMostOneActiveRun.  It holds as long as clients resume  *)
(* a run only after the task that asked has ended, and nothing a cancelled *)
(* coroutine left in a worker thread commits but mark_interrupted          *)
(* (AssumedAdversity).  A conversation has at most one run in the making:  *)
(* a run whose row is unfinished, or that some task or handler may still   *)
(* turn into one.  While the conversation is ACTIVE these are the same, so *)
(* that what start_turn reads in the rows is all there is to know.         *)
(*                                                                         *)
(* On top of it: RowsInv is behind RecordedSequenceEndsLog,                *)
(* FinishedIsFinal and the refinement of RunContract, DeletionInv behind   *)
(* DeletionIsClean, and OwnedInv behind RunningIsOwned.                    *)
(***************************************************************************)
EXTENDS AgentRuntime

AssumedAdversity == Adversity \cap {"earlyResume", "lateWrite"} = {}

SetupPcs    == {"start_setup", "resume_setup", "abort"}
ResumingPcs == {"resume_read", "claim"}
DeletionPcs == {"cancel_tasks", "gather", "delete_thread", "delete_memory",
                "delete_events", "delete_history"}
WorkingPcs  == {"created", "publish", "work", "complete"}

\* Handler u holds run r between the transaction that made it RUNNING and the
\* creation of its task, or is about to take it, or deletes its conversation.
InSetup(u, r)  == caller[u].pc \in SetupPcs /\ caller[u].run = r
Resuming(u, r) == caller[u].pc \in ResumingPcs /\ caller[u].run = r

Known(t)   == task[t].pc # "none"
Live(t)    == task[t].pc \in LivePcs
Working(t) == task[t].pc \in WorkingPcs

\* What a handler's fields and the operations it or a task starts look like.
RunPcs == {"start_turn", "start_setup", "resume_read", "claim", "resume_setup", "abort"}

CallerShape ==
  \A u \in Callers :
    /\ caller[u].pc \in RunPcs =>
         caller[u].run \in Runs /\ caller[u].conv = ConvOf[caller[u].run]
    /\ caller[u].pc \in ResumingPcs \cup {"resume_setup"} => caller[u].action # 0
    /\ caller[u].pc \in {"start_turn", "start_setup"} => caller[u].action = 0

\* A task that stopped at a confirmation has an action number left for it.
OutcomeShape ==
  \A t \in Tasks :
    task[t].outcome = "confirmation_required" => t[2] < MaxAction

OpShape(o) ==
  /\ o.op \in {"start_turn", "claim", "mark", "complete", "append", "record"} =>
       o.run \in Runs /\ o.conv = ConvOf[o.run]
  /\ o.op = "claim" => o.action \in Actions
  /\ o.op = "complete" /\ o.outcome = "confirmation_required" => o.action \in Actions
LateShape == \A o \in late : OpShape(o)

TypeInv == TypeOK /\ CallerShape /\ OutcomeShape /\ LateShape

\* Deletion works on conversations that take no more runs.
DeletionIsAnnounced ==
  \A u \in Callers :
    /\ caller[u].pc \in DeletionPcs => conversation[caller[u].conv] # "ACTIVE"
    /\ caller[u].pc = "gather" =>
         \A t \in caller[u].waits : ConvOf[t[1]] = caller[u].conv

\* Unawaited operations only mark runs that no new run can compete with.
LateMarks ==
  \A o \in late : /\ o.op = "mark"
                  /\ conversation[o.conv] # "ACTIVE" \/ phase = "draining"

\* After shutdown has cancelled the tasks nobody starts or goes on with a run.
DrainingIsQuiet ==
  phase = "draining" => /\ \A u \in Callers : caller[u].pc = "idle"
                        /\ \A t \in Tasks : ~Working(t)

LiveIsRegistered == \A t \in Tasks : Live(t) => t \in registered

\* A run id that is still free has left no trace.
AbsentIsUnused ==
  \A r \in Runs :
    ~Exists(r) /\ conversation[ConvOf[r]] # "GONE" =>
      /\ \A g \in Gens : ~Known(<<r, g>>)
      /\ \A u \in Callers : ~InSetup(u, r) /\ ~Resuming(u, r)
      /\ run[r].pending = 0 /\ run[r].approvals = {}

\* The tasks of a run come one after the other, in the order of the actions, and
\* the live one is the last.
LiveIsLast ==
  \A r \in Runs : \A g, h \in Gens : Live(<<r, g>>) /\ Known(<<r, h>>) => h <= g

WorkingIsRunning ==
  \A r \in Runs : \A g \in Gens :
    Working(<<r, g>>) =>
      /\ \A a \in run[r].approvals : a <= g
      /\ conversation[ConvOf[r]] = "ACTIVE" => run[r].status = "RUNNING"

\* A waiting run asks for an action beyond all it was ever granted.
WaitingAsksNext ==
  \A r \in Runs :
    run[r].status = "WAITING_INPUT" =>
      /\ \A g \in Gens : Known(<<r, g>>) => g < run[r].pending
      /\ \A a \in run[r].approvals : a <= run[r].pending

\* A run in setup belongs to one handler, and has no task yet for its action.
SetupIsExclusive ==
  \A u \in Callers, r \in Runs :
    InSetup(u, r) =>
      /\ \A v \in Callers : InSetup(v, r) => v = u
      /\ \A g \in Gens : Known(<<r, g>>) => g < caller[u].action /\ ~Live(<<r, g>>)
      /\ run[r].status # "WAITING_INPUT"
      /\ conversation[ConvOf[r]] = "ACTIVE" => run[r].status = "RUNNING"
      /\ run[r].pending = 0
      /\ \A a \in run[r].approvals : a <= caller[u].action

\* What a handler wants to resume is not behind the run's back: neither a task
\* nor another handler is busy with an earlier action.
ResumingIsCurrent ==
  \A u \in Callers, r \in Runs :
    Resuming(u, r) =>
      /\ \A g \in Gens : g < caller[u].action => ~Live(<<r, g>>)
      /\ \A v \in Callers : InSetup(v, r) => caller[u].action <= caller[v].action
      /\ run[r].status = "WAITING_INPUT" => caller[u].action <= run[r].pending

InTheMaking(r) ==
  \/ Active(r)
  \/ \E g \in Gens : Working(<<r, g>>)
  \/ \E u \in Callers : InSetup(u, r)

OneInTheMaking ==
  \A r, s \in Runs :
    ConvOf[r] = ConvOf[s] /\ InTheMaking(r) /\ InTheMaking(s) => r = s

\* The inductive invariant: from chat_log's transactions and the order in which a
\* handler, its task and the registry take a run over, a conversation has one run
\* in the making at most.
IInv ==
  /\ TypeInv
  /\ DeletionIsAnnounced
  /\ LateMarks
  /\ DrainingIsQuiet
  /\ LiveIsRegistered
  /\ AbsentIsUnused
  /\ LiveIsLast
  /\ WorkingIsRunning
  /\ WaitingAsksNext
  /\ SetupIsExclusive
  /\ ResumingIsCurrent
  /\ OneInTheMaking

-----------------------------------------------------------------------------
(* What the rows tell clients: the run that is at work is RUNNING, what is  *)
(* finished stays so, and a recorded sequence number is the end of the log. *)

Ending(t) == task[t].pc \in {"append", "record"}

\* n names the last event of a log, and that event ends a segment.
EndsAt(events, n) ==
  n = Len(events) /\ n # 0 /\ events[n] \in TerminalEvents

\* The row of run r agrees with who works on it, and with its log.
RowOf(r) ==
  /\ run[r].status \in {"ABSENT", "RUNNING", "WAITING_INPUT", "SUCCEEDED", "FAILED"}
  /\ run[r].status = "RUNNING" => run[r].sequence = 0
  /\ Exists(r) =>
       /\ (\E g \in Gens : Working(<<r, g>>)) \/ (\E u \in Callers : InSetup(u, r))
            => run[r].status = "RUNNING"
       /\ \A g \in Gens : Ending(<<r, g>>) =>
            run[r].status # "RUNNING" /\ run[r].sequence = 0
  /\ conversation[ConvOf[r]] = "ACTIVE" =>
       /\ \A g \in Gens : task[<<r, g>>].pc = "record" =>
            EndsAt(log[r], task[<<r, g>>].seq)
       /\ run[r].sequence # 0 => EndsAt(log[r], run[r].sequence)

\* Run r has had its last task: none is alive, no handler sets one up, and a
\* claim still to come is of a past action.
HadItsLast(r) ==
  /\ \A g \in Gens : ~Live(<<r, g>>)
  /\ \A u \in Callers : ~InSetup(u, r)
  /\ \E g \in Gens :
       /\ Known(<<r, g>>)
       /\ \A u \in Callers : caller[u].pc = "claim" /\ caller[u].run = r
                                 => caller[u].action <= g

\* What unawaited operations will mark is over.
MarksAreLast == \A o \in late : HadItsLast(o.run)

RowsInv == MarksAreLast /\ \A r \in Runs : RowOf(r)

-----------------------------------------------------------------------------
(* Deletion, when it does not race with other calls on the conversation.    *)

EmptyingPcs == DeletionPcs \ {"cancel_tasks", "gather"}

\* No task is left to write to the stores of conversation c.
QuietConversation(c) ==
  \A t \in Tasks : ConvOf[t[1]] = c => ~Live(t)

\* What handler u has done so far of the deletion it carries out.
DeletionOf(u, c) ==
  /\ \A v \in Callers \ {u} : caller[v].conv = c => caller[v].pc = "idle"
  /\ caller[u].pc = "gather" =>
       \A t \in Tasks : ConvOf[t[1]] = c /\ Live(t) => t \in caller[u].waits
  /\ caller[u].pc \in EmptyingPcs => QuietConversation(c)
  /\ caller[u].pc \in {"delete_memory", "delete_events", "delete_history"} =>
       thread[c] = NoThread
  /\ caller[u].pc \in {"delete_events", "delete_history"} =>
       c \notin memory /\ c \notin consolidating
  /\ caller[u].pc = "delete_history" => \A r \in Siblings(c) : log[r] = <<>>

\* Nothing is left of a deleted conversation, and nobody will bring it back.
Emptied(c) ==
  /\ \A r \in Siblings(c) : log[r] = <<>>
  /\ thread[c] = NoThread
  /\ c \notin memory /\ c \notin consolidating
  /\ QuietConversation(c)
  /\ \A u \in Callers : caller[u].conv = c =>
       caller[u].pc \in {"idle", "start_turn", "resume_read", "begin_deletion"}

Deleting(u, c) ==
  caller[u].conv = c /\ caller[u].pc \in DeletionPcs \cup {"begin_deletion"}

DeletionInv ==
  /\ \A u \in Callers, c \in Conversations : Deleting(u, c) => DeletionOf(u, c)
  /\ \A c \in Conversations : conversation[c] = "GONE" => Emptied(c)

\* The invariants together: rows, logs, tasks, handlers and the stores of deleted
\* conversations agree in every state in which deletions do not race.
RuntimeInv == IInv /\ RowsInv /\ DeletionInv

-----------------------------------------------------------------------------
(* Who ends a run, when stores answer and nobody gives a call up.           *)

OrderlyAdversity == Adversity \subseteq {"deleteRace", "shutdown"}

\* A task that has its terminal event still to publish, or its run to mark.
OwnsRun(t) == task[t].pc \in WorkingPcs \cup {"interrupt"}

Owned(r) ==
  \/ \E g \in Gens : OwnsRun(<<r, g>>)
  \/ \E u \in Callers : InSetup(u, r)
  \/ RunOp("mark", r) \in late

OwnedInv ==
  \A r \in Runs :
    run[r].status = "RUNNING" /\ conversation[ConvOf[r]] = "ACTIVE" => Owned(r)

=============================================================================
