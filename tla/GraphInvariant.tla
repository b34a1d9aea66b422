--------------------------- MODULE GraphInvariant ---------------------------
(***************************************************************************)
(* The inductive invariant behind the theorems of GraphProofs.             *)
(*                                                                         *)
(* The properties of MainGraph look at the checkpointed thread.  They are  *)
(* not inductive: what the thread will be is decided earlier, by the       *)
(* update on its way (draft) and by the node the edges have chosen for it. *)
(* So the invariant says the same of the thread and of the draft, and of   *)
(* each node what must be so when it begins.                               *)
(*                                                                         *)
(* Three layers: the channels and what they report (GraphInv), the rows    *)
(* and the calls that may be open (RunsInv), and the history, which is     *)
(* ahead of the thread while an update is published (HistoryInv).          *)
(***************************************************************************)
EXTENDS MainGraph

\* Calls are taken from the queue in their order: those up to here have been.
Taken(t) == Len(t.asked) - Len(t.pending)

\* The pending calls are the last ones that were asked for.
PendingAreLast(t) ==
  /\ Len(t.asked) <= MaxCalls
  /\ Len(t.pending) <= Len(t.asked)
  /\ \A i \in DOMAIN t.pending : t.pending[i] = Taken(t) + i

ActiveIsTaken(t) == t.active.call <= Taken(t)

AnswersAreTaken(t) ==
  \A i \in DOMAIN t.answers :
    /\ t.answers[i].call <= Taken(t)
    /\ t.active.call # 0 => t.answers[i].call < t.active.call

AnswersIncrease(t) ==
  \A i, j \in DOMAIN t.answers :
    i < j => t.answers[i].call < t.answers[j].call

BatchesAreBounded(t) == \A c \in DOMAIN t.asked : t.asked[c].batch <= c

\* What can be said of the channels alone.
WellFormed(t) ==
  /\ t \in Thread
  /\ PendingAreLast(t)
  /\ ActiveIsTaken(t)
  /\ AnswersAreTaken(t)
  /\ AnswersIncrease(t)
  /\ BatchesAreBounded(t)

-----------------------------------------------------------------------------
IsTrue(result) ==
  /\ result.status \in {"success", "partial"} => ran[result.call] = 1
  /\ result.status = "rejected" => ran[result.call] = 0 /\ verdict[result.call] = "rejected"

AnswersAreTrue(t) == \A i \in DOMAIN t.answers : IsTrue(t.answers[i])

\* Only calls that were taken have been started.
StartedAreTaken(t) == \A c \in Calls : c > Taken(t) => ran[c] = 0

\* What the channels say agrees with what has happened.
Faithful(t) == AnswersAreTrue(t) /\ StartedAreTaken(t)

\* An update adds calls and changes none.
Extends(t, u) ==
  /\ Len(t.asked) <= Len(u.asked)
  /\ \A c \in DOMAIN t.asked : u.asked[c] = t.asked[c]

MayRun(t) == t.asked[t.active.call].name \in Guarded => verdict[t.active.call] = "approved"

\* What must be so when a node begins with these channels.
Ready(node, t) ==
  /\ node = "dispatch" => t.active.call = 0
  /\ node \in {"confirm", "waiting", "tool", "subagent"} =>
       t.active.call # 0 /\ ran[t.active.call] = 0
  /\ node \in {"confirm", "waiting"} => t.active.confirm
  /\ node = "confirm" /\ resume = "none" => latest = t.active.call
  /\ node \in {"tool", "subagent"} => MayRun(t)
  /\ node \in {"calling", "child"} => t.active.call # 0 /\ ran[t.active.call] = 1

\* A decision is the one its user made about the active call.
DecisionIsTheUsers ==
  resume = "none" \/ (pc = "confirm" /\ verdict[thread.active.call] = resume)

QueueIsAsked == \A i \in DOMAIN queue : queue[i].call <= Len(thread.asked)

GraphInv ==
  /\ TypeOK
  /\ WellFormed(thread) /\ Faithful(thread)
  /\ WellFormed(draft) /\ Faithful(draft)
  /\ Extends(thread, draft)
  /\ pc # "publish" => draft = thread
  /\ Ready(pc, thread)
  /\ pc = "publish" => Ready(next, draft)
  /\ DecisionIsTheUsers
  /\ QueueIsAsked
  /\ pc # "idle" => run # 0
  /\ NothingRunsUnapproved
  /\ AsksAboutTheActiveCall

-----------------------------------------------------------------------------
(* Runs: which calls may still be open, and whose they are. *)

\* A row is finished once its run is over, and only then.
RowsFit ==
  /\ \A r \in Runs :
       /\ r > run => row[r].status = "ABSENT"
       /\ r < run => row[r].status \in {"SUCCEEDED", "FAILED"}
  /\ run # 0 =>
       /\ pc = "idle" => row[run].status \in {"SUCCEEDED", "FAILED"}
       /\ pc = "waiting" => row[run].status = "WAITING_INPUT"
       /\ pc \notin {"idle", "waiting"} => row[run].status = "RUNNING"

\* Calls were asked for in past runs and this one, batch after batch.
AskedInOrder(t) ==
  /\ \A c \in DOMAIN t.asked : t.asked[c].run \in 1..run
  /\ \A c, d \in DOMAIN t.asked :
       c <= d => /\ t.asked[c].batch <= t.asked[d].batch
                 /\ t.asked[c].batch = t.asked[d].batch => t.asked[c].run = t.asked[d].run

HasAnswer(t, c) == \E i \in DOMAIN t.answers : t.answers[i].call = c

\* The active call and the pending ones.
Due(t, c) == c = t.active.call \/ c > Taken(t)

\* Only the current run has calls that are due, and a call that is neither due nor
\* answered is of a run that failed.
CallsFit(t) ==
  /\ AskedInOrder(t)
  /\ \A c \in DOMAIN t.asked : Due(t, c) => t.asked[c].run = run
  /\ \A c \in DOMAIN t.asked :
       Due(t, c) \/ HasAnswer(t, c) \/ row[t.asked[c].run].status = "FAILED"
  /\ t.completed => t.pending = <<>> /\ t.active.call = 0

\* Nothing is due when the model is asked, and only its reply completes a run.
Fits(node, t) ==
  /\ node \in {"memory", "solve"} => t.pending = <<>> /\ t.active.call = 0
  /\ node \in (Nodes \ {"final"}) \cup {"calling", "child", "waiting"} => ~t.completed

RunsInv ==
  /\ RowsFit
  /\ CallsFit(thread) /\ CallsFit(draft)
  /\ Fits(pc, thread)
  /\ pc = "publish" => Fits(next, draft)
  /\ pc = "idle" /\ run # 0 => (row[run].status = "SUCCEEDED" => thread.completed)

-----------------------------------------------------------------------------
(* The history, and how far it is behind the update on its way. *)

\* An update has one event at most: that its active call started, or the answer
\* that it adds.
QueueFits ==
  queue # <<>> =>
    /\ pc = "publish" /\ Len(queue) = 1 /\ draft.asked = thread.asked
    /\ LET e == Head(queue) IN
       IF e.type = "action_started"
       THEN e.call = draft.active.call /\ draft.answers = thread.answers
       ELSE /\ e.call = thread.active.call
            /\ draft.answers = Append(thread.answers, [call |-> e.call, status |-> e.status])

\* What a stream announced was taken, and what it answered has its tool message.
SeenFits ==
  /\ \A c \in seen.started : c <= Taken(draft)
  /\ \A c \in seen.answered : HasAnswer(draft, c)

Queued == IF queue # <<>> /\ Head(queue).type = "action_started"
          THEN {Head(queue).call} ELSE {}

\* The calls of the current run that were taken, but for these, have their assistant
\* message.
Announced(t, except) ==
  \A c \in (DOMAIN t.asked) \ except :
    t.asked[c].run = run /\ c <= Taken(t) => t.asked[c].batch \in callRows

AnswersOf(t, c) == {t.answers[i] : i \in {j \in DOMAIN t.answers : t.answers[j].call = c}}

\* An update concerns the current run.
OnlyCurrent ==
  \A c \in DOMAIN draft.asked :
    draft.asked[c].run # run =>
      c \in DOMAIN thread.asked /\ AnswersOf(draft, c) = AnswersOf(thread, c)

AnswersIn(t, b) ==
  {t.answers[i] : i \in {j \in DOMAIN t.answers : t.asked[t.answers[j].call].batch = b}}

BatchIn(t, b) == {c \in DOMAIN t.asked : t.asked[c].batch = b}

\* The row of batch b holds the answers of these channels.
RowHolds(t, b) ==
  resultRows[b] =
    [ status  |-> IF AnswersIn(t, b) = {} THEN "ABSENT"
                  ELSE IF CallsIn(AnswersIn(t, b)) = BatchIn(t, b) THEN "COMPLETED"
                  ELSE "STREAMING",
      results |-> AnswersIn(t, b) ]

\* The channels whose answers have been published.
Published == IF queue = <<>> THEN draft ELSE thread

\* Until a stream breaks, the rows of its run's batches hold what was published.
RowsHold ==
  pc \notin {"idle", "broken"} =>
    \A c \in DOMAIN Published.asked :
      Published.asked[c].run = run => RowHolds(Published, Published.asked[c].batch)

\* A number that no batch has yet has no result, and open results are of this run.
RowsAreOfBatches ==
  \A b \in Batches :
    /\ BatchIn(thread, b) = {} => resultRows[b] = [status |-> "ABSENT", results |-> {}]
    /\ resultRows[b].status = "STREAMING" =>
         run # 0 /\ b \in BatchesOf(run) /\ row[run].status \in {"RUNNING", "WAITING_INPUT"}

HistoryInv ==
  /\ QueueFits /\ SeenFits /\ OnlyCurrent
  /\ Announced(thread, {}) /\ Announced(draft, Queued)
  /\ RowsHold /\ RowsAreOfBatches
  /\ HistoryIsTrue

MainGraphInv == GraphInv /\ RunsInv /\ HistoryInv

=============================================================================
