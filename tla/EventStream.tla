---------------------------- MODULE EventStream ----------------------------
(***************************************************************************)
(* How the events of one agent run reach its clients.                      *)
(*                                                                         *)
(* A segment of the run is what one stream task executes: segment 0 after  *)
(* StartRun, segment n after the n-th approval.  Each task has its own     *)
(* RootEventDispatcher (app/events/bus.py), whose lock admits one          *)
(* publication at a time, first come first served.  Under the lock the     *)
(* PersistenceHandler commits the message to MySQL, then the event to      *)
(* SQLite; of a terminal event it then records the sequence number in      *)
(* MySQL.  Then the IpcEventBroadcaster wakes the subscriptions.           *)
(*                                                                         *)
(* Two kinds of coroutine publish into a segment: the loop of              *)
(* AgentService.stream over the graph's output, which also publishes the   *)
(* terminal event, and the graph's nodes.                                  *)
(*                                                                         *)
(* A subscription (iter_events) is a coroutine over the two stores: it     *)
(* reads the run's state, then a page of events, hands the page to its     *)
(* client, and ends or waits only when it found no event.  Time is         *)
(* abstracted: its 2 s poll may fire whenever it waits, and 10 s pass for  *)
(* a started timer only while no terminal event is being persisted.        *)
(***************************************************************************)
EXTENDS Naturals, Sequences, FiniteSets

CONSTANTS
  Nodes,         \* graph nodes that publish concurrently
  Subscribers,   \* clients that subscribe to the run
  MaxSegment,    \* bound: approvals of the run
  MaxEvents,     \* bound: non-terminal events per publisher and segment
  PageLimit,     \* limit of list_after: 100 in the code
  Adversity      \* what the environment may do, a subset of Adversities

Adversities == {
  "storeFault",   \* a store operation of a publication raises
  "disconnect",   \* clients drop their subscription, and come back
  "earlyResume" } \* a client resumes before the task that asked has ended

ASSUME EventStreamAssumption ==
  /\ MaxSegment \in Nat
  /\ MaxEvents \in Nat
  /\ PageLimit \in Nat \ {0}
  /\ Adversity \subseteq Adversities

Loop == "loop"
Publishers == {Loop} \cup Nodes
Segments   == 0..MaxSegment
TerminalNames == {"confirmation_required", "run_completed", "run_failed"}

VARIABLES
  status,     \* MySQL: the run's public status
  sequence,   \* MySQL: terminal_event_sequence, 0: none
  messages,   \* MySQL: the events whose message or run update is committed
  log,        \* SQLite: the run's events; an event's sequence is its index
  segment,    \* the segment started last
  task,       \* the stream task of each segment
  sub,        \* the subscriptions
  received,   \* the events each client has been given, over all connections
  notified    \* the last sequence number broadcast

vars == <<status, sequence, messages, log, segment, task, sub, received, notified>>

Event == [segment : Segments, by : Publishers, n : Nat,
          name : {"progress"} \cup TerminalNames]

\* The statuses with which iter_events may end.
ClosedStatus == {"confirmation_required", "completed", "failed"}

\* What complete_run and _public_run_status make of a terminal event.
StatusAfter(name) ==
  CASE name = "run_completed" -> "completed"
    [] name = "run_failed"    -> "failed"
    [] OTHER                  -> name

-----------------------------------------------------------------------------
(* Publication.  task[g].queue holds the publishers that own or await the  *)
(* lock of segment g; its head is in the step task[g].step.                *)

TaskPcs  == {"none", "running", "closing", "interrupt", "ended"}
ChainPcs == {"message", "append", "record", "notify"}

NoTask == [pc |-> "none", queue |-> <<>>, step |-> "message",
           terminal |-> "progress", sent |-> [p \in Publishers |-> 0]]

Waiting(g, p) == \E i \in DOMAIN task[g].queue : task[g].queue[i] = p

\* The event the lock's owner publishes.
Current(g) ==
  LET p == Head(task[g].queue) IN
  [segment |-> g, by |-> p, n |-> task[g].sent[p] + 1,
   name |-> IF p = Loop THEN task[g].terminal ELSE "progress"]

IsTerminal(e) == e.name # "progress"

InStep(g, step) == task[g].queue # <<>> /\ task[g].step = step
GotoStep(g, step) == task' = [task EXCEPT ![g].step = step]

\* A publisher calls bus.publish and waits for the lock.
Publish(g, p) ==
  /\ task[g].pc = "running"
  /\ ~Waiting(g, p)
  /\ task[g].sent[p] < MaxEvents
  /\ task' = [task EXCEPT ![g].queue = Append(@, p)]
  /\ UNCHANGED <<status, sequence, messages, log, segment, sub, received, notified>>

\* The graph's stream is exhausted, interrupted or broken: nodes have returned,
\* and the loop publishes the terminal event.
GraphStops(g) ==
  /\ task[g].pc = "running"
  /\ task[g].queue = <<>>
  /\ \E name \in TerminalNames :
       task' = [task EXCEPT ![g].pc = "closing", ![g].terminal = name,
                            ![g].queue = <<Loop>>]
  /\ UNCHANGED <<status, sequence, messages, log, segment, sub, received, notified>>

\* persist_message_event, or complete_assistant_message for a terminal event.
CommitMessage(g) ==
  /\ InStep(g, "message")
  /\ messages' = messages \cup {Current(g)}
  /\ status' = IF IsTerminal(Current(g)) THEN StatusAfter(Current(g).name) ELSE status
  /\ GotoStep(g, "append")
  /\ UNCHANGED <<sequence, log, segment, sub, received, notified>>

AppendEvent(g) ==
  /\ InStep(g, "append")
  /\ log' = Append(log, Current(g))
  /\ GotoStep(g, IF IsTerminal(Current(g)) THEN "record" ELSE "notify")
  /\ UNCHANGED <<status, sequence, messages, segment, sub, received, notified>>

\* The event's own sequence number, whatever was appended since.
RecordSequence(g) ==
  /\ InStep(g, "record")
  /\ \E i \in DOMAIN log : log[i] = Current(g) /\ sequence' = i
  /\ GotoStep(g, "notify")
  /\ UNCHANGED <<status, messages, log, segment, sub, received, notified>>

Attached == {s \in Subscribers : sub[s].pc \notin {"new", "off", "ended", "error"}}

\* The broadcast, and the release of the lock.  After the terminal event the
\* task returns.
Notify(g) ==
  LET e == Current(g) IN
  /\ InStep(g, "notify")
  /\ sub' = [s \in Subscribers |->
       IF s \in Attached THEN [sub[s] EXCEPT !.flag = TRUE] ELSE sub[s]]
  /\ \E i \in DOMAIN log : log[i] = e /\ notified' = IF i > notified THEN i ELSE notified
  /\ task' = [task EXCEPT ![g].queue = Tail(@), ![g].step = "message",
                          ![g].sent[e.by] = @ + 1,
                          ![g].pc = IF IsTerminal(e) THEN "ended" ELSE @]
  /\ UNCHANGED <<status, sequence, messages, log, segment, received>>

\* Mutant of PublicationFails: the failure is logged, and the chain or the
\* publisher goes on.
PublicationFails_Ignored(g) ==
  /\ "storeFault" \in Adversity
  /\ \/ InStep(g, "message") /\ GotoStep(g, "append")
     \/ /\ InStep(g, "append") /\ ~IsTerminal(Current(g))
        /\ task' = [task EXCEPT ![g].queue = Tail(@), ![g].step = "message",
                                ![g].sent[Current(g).by] = @ + 1]
  /\ UNCHANGED <<status, sequence, messages, log, segment, sub, received, notified>>

\* EventPublicationError: nothing is broadcast and the task goes to its finally
\* block.  Whoever waits for the lock publishes once more or is cancelled.
PublicationFails(g) ==
  /\ "storeFault" \in Adversity
  /\ InStep(g, "message") \/ InStep(g, "append") \/ InStep(g, "record")
  /\ \E rest \in {<<>>, Tail(task[g].queue)} :
       task' = [task EXCEPT ![g].queue = rest, ![g].step = "message",
                            ![g].pc = IF @ = "ended" THEN @ ELSE "interrupt"]
  /\ UNCHANGED <<status, sequence, messages, log, segment, sub, received, notified>>

\* mark_interrupted in the finally block; its own failure is only logged.
Interrupt(g) ==
  /\ task[g].pc = "interrupt"
  /\ \/ status' = IF status \in {"completed", "failed"} THEN status ELSE "failed"
     \/ "storeFault" \in Adversity /\ status' = status
  /\ task' = [task EXCEPT ![g].pc = "ended"]
  /\ UNCHANGED <<sequence, messages, log, segment, sub, received, notified>>

\* claim_pending_action succeeds and the next segment's task is created.
Resume ==
  /\ status = "confirmation_required"
  /\ segment < MaxSegment
  /\ "earlyResume" \in Adversity \/ task[segment].pc = "ended"
  /\ status' = "running"
  /\ sequence' = 0
  /\ segment' = segment + 1
  /\ task' = [task EXCEPT ![segment + 1].pc = "running"]
  /\ UNCHANGED <<messages, log, sub, received, notified>>

Segment(g) ==
  \/ GraphStops(g) \/ CommitMessage(g) \/ AppendEvent(g) \/ RecordSequence(g)
  \/ Notify(g) \/ PublicationFails(g) \/ Interrupt(g)
  \/ \E p \in Publishers : Publish(g, p)

-----------------------------------------------------------------------------
(* Subscription.                                                           *)

SubPcs == {"new", "state", "list", "listed", "yield", "wait", "off", "ended", "error"}

Subscription == [ pc : SubPcs, cursor : Nat, flag : BOOLEAN,
                  seen : [status : {"running"} \cup ClosedStatus, sequence : Nat],
                  page : Seq(Event), timer : {"none", "started", "expired"} ]

Fresh == [ pc |-> "new", cursor |-> 0, flag |-> FALSE,
           seen |-> [status |-> "running", sequence |-> 0],
           page |-> <<>>, timer |-> "none" ]

\* The top of the loop: the notification is cleared before anything is read.
LoopTop(x) == [x EXCEPT !.pc = "state", !.flag = FALSE]

\* SubscribeRunEvents, after the last sequence number the client has received.
\* subscribe_stream checks that the run has such an event.
Subscribe(s) ==
  /\ sub[s].pc = "new" \/ ("disconnect" \in Adversity /\ s \notin Attached)
  /\ sub' = [sub EXCEPT ![s] = LoopTop([Fresh EXCEPT !.cursor = Len(received[s])])]
  /\ UNCHANGED <<status, sequence, messages, log, segment, task, received, notified>>

\* get_run_event_state
ReadState(s) ==
  /\ sub[s].pc = "state"
  /\ sub' = [sub EXCEPT ![s].pc = "list",
                        ![s].seen = [status |-> status, sequence |-> sequence]]
  /\ UNCHANGED <<status, sequence, messages, log, segment, task, received, notified>>

\* Mutant of PageAfter: from the cursor on, not after it.
PageAfter_From(cursor) ==
  SubSeq(log, IF cursor = 0 THEN 1 ELSE cursor,
         IF Len(log) < cursor + PageLimit THEN Len(log) ELSE cursor + PageLimit)

\* list_after
PageAfter(cursor) ==
  SubSeq(log, cursor + 1,
         IF Len(log) < cursor + PageLimit THEN Len(log) ELSE cursor + PageLimit)

\* Mutant of AfterEmptyPage: the state alone ends a subscription.
AfterEmptyPage_OnState(x) ==
  IF x.seen.status \in ClosedStatus THEN [x EXCEPT !.pc = "ended"]
  ELSE [x EXCEPT !.pc = "wait"]

\* No event: the subscription ends, gives up, or waits.
AfterEmptyPage(x) ==
  IF x.seen.status \in ClosedStatus
  THEN IF x.seen.sequence # 0 /\ x.cursor # 0 /\ x.cursor >= x.seen.sequence
       THEN [x EXCEPT !.pc = "ended"]
       ELSE [x EXCEPT !.pc = IF x.timer = "expired" THEN "error" ELSE "wait",
                      !.timer = IF x.timer = "none" THEN "started" ELSE x.timer]
  ELSE [x EXCEPT !.pc = "wait"]

\* list_after reads the log in a worker thread; an event may be appended and
\* broadcast before the coroutine has the page.
ListEvents(s) ==
  /\ sub[s].pc = "list"
  /\ sub' = [sub EXCEPT ![s].pc = "listed", ![s].page = PageAfter(sub[s].cursor)]
  /\ UNCHANGED <<status, sequence, messages, log, segment, task, received, notified>>

\* Mutant of TakePage: the notification is cleared after the reads.
TakePage_ClearsAfter(s) ==
  /\ sub[s].pc = "listed"
  /\ sub' = [sub EXCEPT ![s] =
       IF @.page = <<>> THEN [AfterEmptyPage(@) EXCEPT !.flag = FALSE]
       ELSE [@ EXCEPT !.pc = "yield"]]
  /\ UNCHANGED <<status, sequence, messages, log, segment, task, received, notified>>

\* The coroutine goes on with the page it asked for.
TakePage(s) ==
  /\ sub[s].pc = "listed"
  /\ sub' = [sub EXCEPT ![s] = IF sub[s].page = <<>> THEN AfterEmptyPage(sub[s])
                               ELSE [sub[s] EXCEPT !.pc = "yield"]]
  /\ UNCHANGED <<status, sequence, messages, log, segment, task, received, notified>>

\* One event of the page goes to the client.
Deliver(s) ==
  LET x    == sub[s]
      next == [x EXCEPT !.cursor = x.cursor + 1, !.page = Tail(x.page)] IN
  /\ x.pc = "yield"
  /\ received' = [received EXCEPT ![s] = Append(@, Head(x.page))]
  /\ sub' = [sub EXCEPT ![s] = IF next.page = <<>> THEN LoopTop(next) ELSE next]
  /\ UNCHANGED <<status, sequence, messages, log, segment, task, notified>>

\* Mutant of Wake: only a notification ends the wait.
Wake_OnNotification(s) ==
  /\ sub[s].pc = "wait" /\ sub[s].flag
  /\ sub' = [sub EXCEPT ![s] = LoopTop(@)]
  /\ UNCHANGED <<status, sequence, messages, log, segment, task, received, notified>>

\* It was notified, or 2 s have passed.
Wake(s) ==
  /\ sub[s].pc = "wait"
  /\ sub' = [sub EXCEPT ![s] = LoopTop(sub[s])]
  /\ UNCHANGED <<status, sequence, messages, log, segment, task, received, notified>>

\* 10 s have passed since the timer was started, while the subscription slept or
\* its client was slow to take an event.
TimerExpires(s) ==
  /\ sub[s].pc = "yield" \/ (sub[s].pc = "wait" /\ ~sub[s].flag)
  /\ sub[s].timer = "started"
  /\ \A g \in Segments : task[g].pc \notin {"closing", "interrupt"}
  /\ sub' = [sub EXCEPT ![s].timer = "expired"]
  /\ UNCHANGED <<status, sequence, messages, log, segment, task, received, notified>>

\* The client cancels the call, or the connection is lost.
Disconnect(s) ==
  /\ "disconnect" \in Adversity
  /\ s \in Attached
  /\ sub' = [sub EXCEPT ![s] = [Fresh EXCEPT !.pc = "off"]]
  /\ UNCHANGED <<status, sequence, messages, log, segment, task, received, notified>>

Iterate(s) ==
  ReadState(s) \/ ListEvents(s) \/ TakePage(s) \/ Deliver(s) \/ Wake(s)

-----------------------------------------------------------------------------
Init ==
  /\ status = "running"
  /\ sequence = 0
  /\ messages = {}
  /\ log = <<>>
  /\ segment = 0
  /\ task = [g \in Segments |->
       IF g = 0 THEN [NoTask EXCEPT !.pc = "running"] ELSE NoTask]
  /\ sub = [s \in Subscribers |-> Fresh]
  /\ received = [s \in Subscribers |-> <<>>]
  /\ notified = 0

Next ==
  \/ \E g \in Segments : Segment(g)
  \/ Resume
  \/ \E s \in Subscribers : 
       Subscribe(s) \/ Iterate(s) \/ TimerExpires(s) \/ Disconnect(s)

Spec == Init /\ [][Next]_vars

\* The event loop runs every ready coroutine, and the graph ends, by its recursion
\* limit if not before; time passes for a subscription that waits again and
\* again.  Clients owe nothing.
Fairness ==
  /\ \A g \in Segments : WF_vars(Segment(g))
  /\ \A s \in Subscribers : WF_vars(Iterate(s)) /\ SF_vars(TimerExpires(s))

FairSpec == Spec /\ Fairness

-----------------------------------------------------------------------------
(* Properties.                                                             *)

\* The shape of every variable.
TypeOK ==
  /\ status \in {"running"} \cup ClosedStatus
  /\ sequence \in Nat
  /\ messages \subseteq Event
  /\ log \in Seq(Event)
  /\ segment \in Segments
  /\ task \in [Segments -> [pc : TaskPcs, queue : Seq(Publishers), step : ChainPcs,
                            terminal : {"progress"} \cup TerminalNames,
                            sent : [Publishers -> Nat]]]
  /\ sub \in [Subscribers -> Subscription]
  /\ received \in [Subscribers -> Seq(Event)]
  /\ notified \in Nat

\* Whatever the page boundaries, disconnections and reconnections, a client is
\* given the run's events in log order, with no gap and no repetition.
DeliveredInOrder ==
  \A s \in Subscribers :
    /\ Len(received[s]) <= Len(log)
    /\ received[s] = SubSeq(log, 1, Len(received[s]))

\* A subscription that ends has given its client the terminal event of the
\* segment it ended in, never an earlier end of the stream.
EndsAtTerminalEvent ==
  \A s \in Subscribers :
    sub[s].pc = "ended" =>
      /\ received[s] # <<>>
      /\ IsTerminal(received[s][Len(received[s])])

\* A subscription sleeps unnotified only when it has delivered everything that
\* has been broadcast: no event waits for the 2 s poll.
NoLostWakeup ==
  \A s \in Subscribers :
    sub[s].pc = "wait" /\ ~sub[s].flag => sub[s].cursor >= notified

\* An event a client can see has its message in MySQL, and nothing is broadcast
\* before it is in the log.
MessageBeforeEvent ==
  /\ \A i \in DOMAIN log : log[i] \in messages
  /\ notified <= Len(log)

\* A client that sees the terminal event of the current segment finds the run
\* no longer running, so that it can at once approve, or start the next run.
TerminalEventMeansClosed ==
  \A i \in DOMAIN log :
    IsTerminal(log[i]) /\ log[i].segment = segment => status \in ClosedStatus

\* The log is the segments one after the other: what is appended after a
\* terminal event belongs to a later segment, and a segment has one at most.
SegmentsAreClosed ==
  \A i, j \in DOMAIN log :
    i < j /\ IsTerminal(log[i]) => log[i].segment < log[j].segment

\* Each publisher's events keep their order, with none missing between them.
PublishersKeepOrder ==
  \A j \in DOMAIN log : log[j].n > 1 =>
    \E i \in 1..(j - 1) : /\ log[i].segment = log[j].segment
                          /\ log[i].by = log[j].by
                          /\ log[i].n = log[j].n - 1

\* The "terminal event was not persisted" error is raised only when that is so:
\* none is recorded, and no task is still busy persisting one.
ErrorMeansUnpersisted ==
  [][\A s \in Subscribers :
       sub'[s].pc = "error" /\ sub[s].pc # "error" =>
         sequence = 0 /\ \A g \in Segments : task[g].pc # "closing"]_vars

\* What the log says is so: its events have their messages, it holds each
\* publisher's events in order, a terminal event closes its segment and lets the
\* client act at once.
LogIsTrue ==
  MessageBeforeEvent /\ TerminalEventMeansClosed /\ SegmentsAreClosed /\ PublishersKeepOrder

\* The failure of a task could not be stored either.
Abandoned == status = "running" /\ \A g \in Segments : task[g].pc \in {"none", "ended"}

\* A subscription does not stay open for ever: it ends, its client leaves, or,
\* when it saw no terminal event recorded, it raises its error.  It is left waiting
\* only by a run whose very failure could not be stored.
SubscriptionEnds ==
  \A s \in Subscribers :
    s \in Attached ~>
      \/ sub[s].pc \in {"ended", "off"}
      \/ sub[s].pc = "error" /\ sub[s].seen.sequence = 0
      \/ Abandoned

=============================================================================
