----------------------------- MODULE MainGraph -----------------------------
(***************************************************************************)
(* The main agent's graph (app/llm/graph/main) on one conversation's       *)
(* LangGraph thread, driven by AgentService.stream (app/llm/agent.py) and  *)
(* published through AgentStreamAdapter into ToolHistory.                  *)
(*                                                                         *)
(* A superstep runs one node; its update is published event by event while *)
(* the graph waits, and only then is it part of the checkpoint (Commit).   *)
(* The stream can break between any two steps: a publication fails, the    *)
(* model or a node raises, the task is cancelled.  What was not committed  *)
(* is then lost, what was published is not.  A crash of the process is a   *)
(* behaviour that stops there: AgentRuntime shows that the row then stays. *)
(*                                                                         *)
(* A name stands for a tool or subagent together with its arguments, since *)
(* a confirmation policy may look at them.  Texts, memory and artifacts    *)
(* are left out; so is LangGraph's delay in writing a checkpoint.          *)
(***************************************************************************)
EXTENDS ToolHistory, Sequences, FiniteSets

CONSTANTS
  Tools,           \* registered tools, with arguments
  Subagents,       \* registered subagents
  Unknown,         \* names that no registry knows
  Guarded,         \* those that need the user's confirmation
  MaxBatch,        \* bound: calls in one answer of the model
  MaxRuns,         \* bound: turns of the conversation
  RecursionLimit   \* supersteps one stream may take (50 in the code)

ASSUME MainGraphAssumption ==
  /\ Guarded \subseteq Tools \cup Subagents
  /\ Unknown \cap (Tools \cup Subagents) = {}
  /\ Tools \cap Subagents = {}
  /\ MaxBatch \in Nat /\ MaxRuns \in Nat /\ RecursionLimit \in Nat

VARIABLES
  thread,    \* the checkpointed channels of the conversation's thread
  pc,        \* the node to run next, or what the stream is doing
  draft,     \* the channels after the update that is being published
  next,      \* where the edges lead after that update
  queue,     \* events of the update that are not published yet
  steps,     \* supersteps taken by this stream
  resume,    \* the decision this stream was resumed with, until confirm takes it
  seen,      \* the adapter's announced and answered calls of this stream
  latest,    \* active_tool_call in latest_root_state, 0: none
  run,       \* turns so far: the last one is the current run
  row,       \* [1..MaxRuns -> RunRow], the AgentRun rows
  ran,       \* [Calls -> Nat], how often a tool or subagent was started for a call
  verdict    \* [Calls -> Decisions], what the user was asked and answered

streamVars == <<pc, draft, next, queue, steps, resume, seen, latest>>
factVars   == <<ran, verdict>>
vars == <<thread, streamVars, run, row, factVars, historyVars>>

-----------------------------------------------------------------------------
Names == Tools \cup Subagents \cup Unknown
Runs == 1..MaxRuns
Decisions == {"none", "approved", "rejected"}

Asked   == [name : Names, batch : Batches, run : Runs]
Active  == [call : 0..MaxCalls, confirm : BOOLEAN]
NoCall  == [call |-> 0, confirm |-> FALSE]

Thread == [ asked     : Seq(Asked),        \* tool_calls of the assistant messages
            answers   : Seq(ToolResults),  \* the tool messages
            pending   : Seq(Calls),
            active    : Active,
            completed : BOOLEAN ]          \* run_status is completed

Event == [type : {"action_started"}, call : Calls]
         \cup [type : {"action_result"}, call : Calls, status : ActionStatus]

Nodes == {"memory", "solve", "dispatch", "confirm", "tool", "subagent", "final"}
StreamPcs == Nodes \cup {"calling", "child", "publish", "complete"}
Pcs == {"idle", "waiting", "broken"} \cup StreamPcs

RunRow == [ status  : {"ABSENT", "RUNNING", "WAITING_INPUT", "SUCCEEDED", "FAILED"},
            pending : 0..MaxCalls ]        \* action in pending_interrupt_payload

BatchOf(c) == thread.asked[c].batch
CallsOf(b) == {c \in DOMAIN thread.asked : BatchOf(c) = b}
BatchesOf(r) == {thread.asked[c].batch : c \in {d \in DOMAIN thread.asked : thread.asked[d].run = r}}

Init ==
  /\ HistoryInit
  /\ thread = [asked |-> <<>>, answers |-> <<>>, pending |-> <<>>,
               active |-> NoCall, completed |-> FALSE]
  /\ pc = "idle" /\ draft = thread /\ next = "memory" /\ queue = <<>>
  /\ steps = 0 /\ resume = "none" /\ latest = 0
  /\ seen = [started |-> {}, answered |-> {}]
  /\ run = 0
  /\ row = [r \in Runs |-> [status |-> "ABSENT", pending |-> 0]]
  /\ ran = [c \in Calls |-> 0]
  /\ verdict = [c \in Calls |-> "none"]

-----------------------------------------------------------------------------
\* Mutant of ActiveTarget: nobody is asked.
ActiveTarget_NeverAsks(active) ==
  IF thread.asked[active.call].name \in Subagents THEN "subagent" ELSE "tool"

\* _active_target: a name nobody knows goes to the tool node, which refuses it.
ActiveTarget(active) ==
  IF active.confirm THEN "confirm"
  ELSE IF thread.asked[active.call].name \in Subagents THEN "subagent" ELSE "tool"

\* after_solve, after_dispatch and after_confirm look at the updated channels.
AfterSolve(t)    == IF t.pending = <<>> THEN "final" ELSE "dispatch"
AfterDispatch(t) == IF t.active.call = 0 THEN "solve" ELSE ActiveTarget(t.active)
AfterConfirm(t)  == IF t.active.call = 0 THEN "dispatch" ELSE ActiveTarget(t.active)

\* handle_update: each call is announced once per stream, and so is its result.
Started(active) ==
  IF active.call \in {0} \cup seen.started
  THEN <<>> ELSE <<[type |-> "action_started", call |-> active.call]>>

\* Mutant of Answered: a call announced in this stream needs no second event.
Answered_OncePerCall(result) ==
  IF result.call \in seen.answered \cup seen.started
  THEN <<>>
  ELSE <<[type |-> "action_result", call |-> result.call, status |-> result.status]>>

Answered(result) ==
  IF result.call \in seen.answered
  THEN <<>>
  ELSE <<[type |-> "action_result", call |-> result.call, status |-> result.status]>>

CallsWith(type, events) ==
  {events[i].call : i \in {j \in DOMAIN events : events[j].type = type}}

\* One update of a node on its way: the channels it leads to, its events, and
\* the edge out of the node.
Update(channels, events, edge) ==
  /\ pc' = "publish"
  /\ draft' = channels
  /\ queue' = events
  /\ next' = edge
  /\ seen' = [ started  |-> seen.started \cup CallsWith("action_started", events),
               answered |-> seen.answered \cup CallsWith("action_result", events) ]

\* A node starts: LangGraph counts its superstep.
Begins(node) ==
  /\ pc = node
  /\ steps < RecursionLimit
  /\ steps' = steps + 1

\* Mutants of ActionResultUpdate: a rejected call gets no tool message; the call
\* stays active.
ActionResultUpdate_SilentReject(status) ==
  LET result == [call |-> thread.active.call, status |-> status]
  IN  /\ Update([thread EXCEPT !.answers = IF status = "rejected" THEN @ ELSE Append(@, result),
                               !.active = NoCall],
                Answered(result), "dispatch")
      /\ latest' = 0

ActionResultUpdate_StaysActive(status) ==
  LET result == [call |-> thread.active.call, status |-> status]
  IN  /\ Update([thread EXCEPT !.answers = Append(@, result)], Answered(result), "dispatch")
      /\ latest' = 0

\* build_action_result_update: the tool message, and the call is done with.
ActionResultUpdate(status) ==
  LET result == [call |-> thread.active.call, status |-> status]
  IN  /\ Update([thread EXCEPT !.answers = Append(@, result), !.active = NoCall],
                Answered(result), "dispatch")
      /\ latest' = 0

\* A stream is gone, and with it all that was not in the checkpoint.
StreamGone ==
  /\ draft' = thread /\ next' = "memory" /\ queue' = <<>>
  /\ steps' = 0 /\ resume' = "none" /\ latest' = 0
  /\ seen' = [started |-> {}, answered |-> {}]

Breaks ==
  /\ pc' = "broken"
  /\ StreamGone
  /\ UNCHANGED <<thread, run, row, factVars, historyVars>>

-----------------------------------------------------------------------------
(* A turn: Session.graph_input resets the channels of the run, not the messages. *)

StartTurn ==
  /\ pc = "idle"
  /\ run < MaxRuns
  /\ run' = run + 1
  /\ row' = [row EXCEPT ![run + 1].status = "RUNNING"]
  /\ thread' = [thread EXCEPT !.pending = <<>>, !.active = NoCall, !.completed = FALSE]
  /\ pc' = "memory"
  /\ draft' = thread'
  /\ UNCHANGED <<next, queue, steps, resume, seen, latest, factVars, historyVars>>

\* The memory node falls back on an empty context when retrieval fails.
Memory ==
  /\ Begins("memory")
  /\ Update(thread, <<>>, "solve")
  /\ UNCHANGED <<thread, resume, latest, run, row, factVars, historyVars>>

\* The model answers: no tool calls, so this is the reply.
Reply ==
  /\ Begins("solve")
  /\ LET t == [thread EXCEPT !.pending = <<>>, !.active = NoCall, !.completed = TRUE]
     IN  Update(t, <<>>, AfterSolve(t))
  /\ latest' = 0
  /\ UNCHANGED <<thread, resume, run, row, factVars, historyVars>>

NextBatch ==
  IF thread.asked = <<>> THEN 1 ELSE thread.asked[Len(thread.asked)].batch + 1

\* The model asks for a batch of calls.
AskFor(names) ==
  LET n     == Len(thread.asked)
      calls == [i \in DOMAIN names |-> [name |-> names[i], batch |-> NextBatch, run |-> run]]
      t     == [thread EXCEPT !.asked = @ \o calls,
                              !.pending = [i \in DOMAIN names |-> n + i],
                              !.active = NoCall]
  IN  /\ n + Len(names) <= MaxCalls
      /\ Update(t, <<>>, AfterSolve(t))

Ask ==
  /\ Begins("solve")
  /\ \E n \in 1..MaxBatch : \E names \in [1..n -> Names] : AskFor(names)
  /\ latest' = 0
  /\ UNCHANGED <<thread, resume, run, row, factVars, historyVars>>

\* dispatch_tool_call_node: the next pending call becomes the active one.
Dispatch ==
  /\ Begins("dispatch")
  /\ IF thread.active.call # 0 \/ thread.pending = <<>>
     THEN /\ Update(thread, <<>>, AfterDispatch(thread))
          /\ UNCHANGED latest
     ELSE LET call   == Head(thread.pending)
              active == [call |-> call, confirm |-> thread.asked[call].name \in Guarded]
              t      == [thread EXCEPT !.active = active, !.pending = Tail(@)]
          IN  /\ Update(t, Started(active), AfterDispatch(t))
              /\ latest' = call
  /\ UNCHANGED <<thread, resume, run, row, factVars, historyVars>>

\* _pending_action: the active call of the updates this stream has seen.
PendingAction == latest

\* confirm_node interrupts: the run waits, its row names the action to decide on.
\* Without a pending action complete_run raises.
Interrupt ==
  /\ pc = "confirm" /\ steps < RecursionLimit
  /\ resume = "none"
  /\ pc' = IF PendingAction = 0 THEN "broken" ELSE "waiting"
  /\ row' = IF PendingAction = 0 THEN row
            ELSE [row EXCEPT ![run] = [status |-> "WAITING_INPUT", pending |-> PendingAction]]
  /\ StreamGone
  /\ UNCHANGED <<thread, run, factVars, historyVars>>

\* resume_chat_stream: the claimed decision resumes the graph in a new stream.
Resume(decision) ==
  /\ pc = "waiting"
  /\ row[run].pending = thread.active.call
  /\ verdict' = [verdict EXCEPT ![row[run].pending] = decision]
  /\ row' = [row EXCEPT ![run] = [status |-> "RUNNING", pending |-> 0]]
  /\ resume' = decision
  /\ pc' = "confirm"
  /\ UNCHANGED <<thread, draft, next, queue, steps, seen, latest, run, ran, historyVars>>

\* confirm_node runs again and takes the decision.
Approve ==
  /\ Begins("confirm")
  /\ resume = "approved"
  /\ LET t == [thread EXCEPT !.active.confirm = FALSE]
     IN  /\ Update(t, Started(t.active), AfterConfirm(t))
         /\ latest' = t.active.call
  /\ resume' = "none"
  /\ UNCHANGED <<thread, run, row, factVars, historyVars>>

Reject ==
  /\ Begins("confirm")
  /\ resume = "rejected"
  /\ ActionResultUpdate("rejected")
  /\ resume' = "none"
  /\ UNCHANGED <<thread, run, row, factVars, historyVars>>

-----------------------------------------------------------------------------
(* The tool node: ToolRegistry.execute turns every failure into a result. *)

\* Mutant of RefuseTool: the refusal is reported as a success.
RefuseTool_Unmarked ==
  /\ Begins("tool")
  /\ ActionResultUpdate("success")
  /\ UNCHANGED <<thread, resume, run, row, factVars, historyVars>>

\* An unknown name, or arguments that do not validate.
RefuseTool ==
  /\ Begins("tool")
  /\ ActionResultUpdate("error")
  /\ UNCHANGED <<thread, resume, run, row, factVars, historyVars>>

CallTool ==
  /\ Begins("tool")
  /\ thread.asked[thread.active.call].name \in Tools
  /\ ran' = [ran EXCEPT ![thread.active.call] = @ + 1]
  /\ pc' = "calling"
  /\ UNCHANGED <<thread, draft, next, queue, resume, seen, latest, run, row, verdict, historyVars>>

ToolReturns ==
  /\ pc = "calling"
  /\ \E status \in {"success", "error"} : ActionResultUpdate(status)
  /\ UNCHANGED <<thread, steps, resume, run, row, factVars, historyVars>>

\* Mutant of ToolTimesOut: there is no timeout.
ToolTimesOut_Never == FALSE /\ UNCHANGED vars

\* Its time is up: the tool is cancelled, whatever it has done by then.
ToolTimesOut ==
  /\ pc = "calling"
  /\ ActionResultUpdate("error")
  /\ UNCHANGED <<thread, steps, resume, run, row, factVars, historyVars>>

-----------------------------------------------------------------------------
(* The subagent node. *)

CallSubagent ==
  /\ Begins("subagent")
  /\ ran' = [ran EXCEPT ![thread.active.call] = @ + 1]
  /\ pc' = "child"
  /\ UNCHANGED <<thread, draft, next, queue, resume, seen, latest, run, row, verdict, historyVars>>

\* The child graph returns its result; an exception, or a result that is missing,
\* counts as an error.
ChildReturns ==
  /\ pc = "child"
  /\ \E status \in {"success", "partial", "error"} : ActionResultUpdate(status)
  /\ UNCHANGED <<thread, steps, resume, run, row, factVars, historyVars>>

\* wait_for gives up and cancels the child.
ChildTimesOut ==
  /\ pc = "child"
  /\ ActionResultUpdate("error")
  /\ UNCHANGED <<thread, steps, resume, run, row, factVars, historyVars>>

\* The child itself raises a TimeoutError: it is raised again, the stream fails.
ChildRaisesTimeout ==
  /\ pc = "child"
  /\ Breaks

-----------------------------------------------------------------------------
(* Publication and the checkpoint. *)

\* The head of the queue reaches its handler, and with it the history.
Publish ==
  /\ pc = "publish"
  /\ queue # <<>>
  /\ LET e == Head(queue)
     IN  IF e.type = "action_started"
         THEN AppendToolBatch(BatchOf(e.call))
         ELSE AppendToolResult(BatchOf(e.call), CallsOf(BatchOf(e.call)),
                               [call |-> e.call, status |-> e.status])
  /\ queue' = Tail(queue)
  /\ UNCHANGED <<thread, pc, draft, next, steps, resume, seen, latest, run, row, factVars>>

\* The superstep ends: its update is in the checkpoint.
Commit ==
  /\ pc = "publish"
  /\ queue = <<>>
  /\ thread' = draft
  /\ pc' = next
  /\ UNCHANGED <<draft, next, queue, steps, resume, seen, latest, run, row,
                 factVars, historyVars>>

\* final_node; the stream ends and reads the state it publishes.
Final ==
  /\ Begins("final")
  /\ pc' = "complete"
  /\ UNCHANGED <<thread, draft, next, queue, resume, seen, latest, run, row,
                 factVars, historyVars>>

\* complete_run and mark_interrupted: a failure closes the open results.
EndRun(status) ==
  /\ row' = [row EXCEPT ![run] = [status |-> status, pending |-> 0]]
  /\ IF status = "FAILED"
     THEN FailIncompleteToolResults(BatchesOf(run))
     ELSE UNCHANGED historyVars
  /\ pc' = "idle"
  /\ StreamGone
  /\ UNCHANGED <<thread, run, factVars>>

Complete ==
  /\ pc = "complete"
  /\ EndRun(IF thread.completed THEN "SUCCEEDED" ELSE "FAILED")

\* A publication fails, the model or a node raises, or the task is cancelled: the
\* stream is gone, the row still says RUNNING.
Break ==
  /\ pc \in StreamPcs
  /\ Breaks

\* GraphRecursionError.
OutOfSteps ==
  /\ pc \in Nodes
  /\ steps = RecursionLimit
  /\ Breaks

\* run_failed is published, or the task's finally block marks the run.
Settle ==
  /\ pc = "broken"
  /\ EndRun("FAILED")

\* _abort_stream_setup: a resumption whose stream cannot be started.
AbortResume ==
  /\ pc = "waiting"
  /\ EndRun("FAILED")

\* What the stream's coroutine does on its own.
StreamStep ==
  \/ Memory \/ Reply \/ Ask \/ Dispatch \/ Interrupt \/ Approve \/ Reject
  \/ RefuseTool \/ CallTool \/ ToolTimesOut \/ CallSubagent \/ ChildTimesOut
  \/ Publish \/ Commit \/ Final \/ Complete \/ OutOfSteps \/ Settle

Next ==
  \/ StreamStep
  \/ StartTurn \/ Resume("approved") \/ Resume("rejected") \/ AbortResume
  \/ ToolReturns \/ ChildReturns \/ ChildRaisesTimeout \/ Break

Spec == Init /\ [][Next]_vars

\* The event loop runs the stream on, the stores answer, the model's client answers
\* or raises, a timer fires and the child it cancels gives up.  That a tool or a
\* child returns on its own, the user decides or a client sends another message is
\* not assumed.
FairSpec == Spec /\ WF_vars(StreamStep)

-----------------------------------------------------------------------------
TypeOK ==
  /\ thread \in Thread /\ draft \in Thread
  /\ pc \in Pcs /\ next \in Nodes
  /\ queue \in Seq(Event)
  /\ steps \in 0..RecursionLimit
  /\ resume \in Decisions
  /\ seen \in [started : SUBSET Calls, answered : SUBSET Calls]
  /\ latest \in 0..MaxCalls
  /\ run \in 0..MaxRuns
  /\ row \in [Runs -> RunRow]
  /\ ran \in [Calls -> Nat]
  /\ verdict \in [Calls -> Decisions]
  /\ callRows \in SUBSET Batches
  /\ resultRows \in [Batches -> ResultRow]

AnswersTo(c) == {thread.answers[i] : i \in {j \in DOMAIN thread.answers : thread.answers[j].call = c}}

\* Whenever the model is asked, every call made before has its tool message, but
\* for calls of runs that failed: a provider refuses a conversation with an open
\* call.  (Nothing repairs the thread of a run that broke off.)
OpenCallsAreOfFailedRuns ==
  pc = "solve" => \A c \in DOMAIN thread.asked :
                    AnswersTo(c) = {} => row[thread.asked[c].run].status = "FAILED"

\* Tool messages come in the order of the calls, at most one for each.
AnswersInOrder ==
  \A i, j \in DOMAIN thread.answers :
    i < j => thread.answers[i].call < thread.answers[j].call

\* A guarded tool or subagent is started for a call only after the user approved
\* that very call, and for no call twice, whatever breaks or is resumed.
NothingRunsUnapproved ==
  \A c \in Calls :
    /\ ran[c] <= 1
    /\ ran[c] = 1 /\ thread.asked[c].name \in Guarded => verdict[c] = "approved"

\* What the model is told of a call is so: success means it ran, rejected means
\* the user rejected it and it did not run.
ResultsAreTrue ==
  \A i \in DOMAIN thread.answers :
    LET a == thread.answers[i]
    IN  /\ a.status \in {"success", "partial"} => ran[a.call] = 1
        /\ a.status = "rejected" => ran[a.call] = 0 /\ verdict[a.call] = "rejected"

\* A run that waits asks about the call its graph will go on with.
AsksAboutTheActiveCall ==
  pc = "waiting" => /\ row[run] = [status |-> "WAITING_INPUT", pending |-> thread.active.call]
                    /\ thread.active.confirm

\* The history of a run that succeeded has all its batches, each with exactly the
\* results the model was given.
HistoryIsComplete ==
  \A r \in 1..run : row[r].status = "SUCCEEDED" =>
    \A b \in BatchesOf(r) :
      /\ b \in callRows
      /\ resultRows[b] = [ status  |-> "COMPLETED",
                           results |-> UNION {AnswersTo(c) : c \in CallsOf(b)} ]

\* A finished run leaves no result message open, and no result stands in the
\* history before the calls it belongs to.
NoOpenResults ==
  \A b \in Batches :
    /\ resultRows[b].status # "ABSENT" => b \in callRows
    /\ resultRows[b].status = "STREAMING" =>
         \E r \in 1..run : b \in BatchesOf(r) /\ row[r].status \in {"RUNNING", "WAITING_INPUT"}

\* The tool messages in the history, of finished and unfinished runs alike.
HistoryIsTrue == HistoryIsComplete /\ NoOpenResults

\* A run that is running gets an end or asks its user, even if a tool or a
\* subagent never returns.
RunsEnd == \A r \in Runs : row[r].status = "RUNNING" ~> row[r].status # "RUNNING"

=============================================================================
