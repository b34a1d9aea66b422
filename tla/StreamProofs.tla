----------------------------- MODULE StreamProofs -----------------------------
(***************************************************************************)
(* Theorems about EventStream for all publishers, subscribers, page sizes, *)
(* numbers of approvals and every adversity: clients are given the log in  *)
(* order, no subscription sleeps over an event that was broadcast, and     *)
(* events have their messages and keep their publishers' order.  For       *)
(* clients that resume in their turn (InTurn): the log is one segment      *)
(* after the other, each closed by its terminal event, and a subscription  *)
(* ends with the one that was recorded.                                    *)
(***************************************************************************)
EXTENDS EventStream, SequenceTheorems, TLAPS

-----------------------------------------------------------------------------
(* Shapes.                                                                 *)

Tasks == [pc : TaskPcs, queue : Seq(Publishers), step : ChainPcs,
          terminal : {"progress"} \cup TerminalNames, sent : [Publishers -> Nat]]

LEMMA CurrentIsEvent ==
  ASSUME TypeOK, NEW g \in Segments, task[g].queue # <<>>
  PROVE  Current(g) \in Event /\ Current(g).by \in Publishers
<1>1. task[g] \in Tasks
  BY DEF TypeOK, Tasks
<1>2. Head(task[g].queue) \in Publishers
  BY <1>1, HeadTailProperties DEF Tasks
<1>3. task[g].sent[Head(task[g].queue)] + 1 \in Nat
  BY <1>1, <1>2 DEF Tasks
<1>4. task[g].terminal \in {"progress"} \cup TerminalNames
  BY <1>1 DEF Tasks
<1> QED BY <1>2, <1>3, <1>4 DEF Current, Event

\* Segments publish: they change their task, and what they publish.
LEMMA TaskShape ==
  ASSUME TypeOK, NEW g \in Segments, Segment(g)
  PROVE  task' \in [Segments -> Tasks]
<1>1. task \in [Segments -> Tasks] /\ task[g] \in Tasks
  BY DEF TypeOK, Tasks
<1>2. CASE \E p \in Publishers : Publish(g, p)
  <2>1. PICK p \in Publishers : task' = [task EXCEPT ![g].queue = Append(task[g].queue, p)]
    BY <1>2, <1>1 DEF Publish
  <2>2. Append(task[g].queue, p) \in Seq(Publishers) BY <1>1 DEF Tasks
  <2>3. [task[g] EXCEPT !.queue = Append(task[g].queue, p)] \in Tasks
    BY <1>1, <2>2 DEF Tasks
  <2>4. task' = [task EXCEPT ![g] = [task[g] EXCEPT !.queue = Append(task[g].queue, p)]]
    BY <1>1, <2>1
  <2> QED BY <1>1, <2>3, <2>4
<1>3. CASE GraphStops(g)
  <2>1. <<Loop>> \in Seq(Publishers) BY DEF Publishers
  <2>2. PICK name \in TerminalNames :
          task' = [task EXCEPT ![g] = [task[g] EXCEPT !.pc = "closing", !.terminal = name,
                                                      !.queue = <<Loop>>]]
    BY <1>1, <1>3 DEF GraphStops
  <2>3. [task[g] EXCEPT !.pc = "closing", !.terminal = name, !.queue = <<Loop>>] \in Tasks
    BY <1>1, <2>1 DEF Tasks, TaskPcs
  <2> QED BY <1>1, <2>2, <2>3
<1>4. CASE CommitMessage(g)
  BY <1>1, <1>4 DEF CommitMessage, GotoStep, Tasks, ChainPcs
<1>5. CASE AppendEvent(g)
  BY <1>1, <1>5 DEF AppendEvent, GotoStep, Tasks, ChainPcs
<1>6. CASE RecordSequence(g)
  BY <1>1, <1>6 DEF RecordSequence, GotoStep, Tasks, ChainPcs
<1>7. CASE Notify(g)
  <2>1. task[g].queue # <<>> BY <1>7 DEF Notify, InStep
  <2>2. Tail(task[g].queue) \in Seq(Publishers) BY <1>1, <2>1, HeadTailProperties DEF Tasks
  <2>3. Current(g).by \in Publishers BY <2>1, CurrentIsEvent
  <2> DEFINE by   == Current(g).by
             r    == [task[g] EXCEPT !.queue = Tail(task[g].queue), !.step = "message",
                        !.sent[by] = task[g].sent[by] + 1,
                        !.pc = IF IsTerminal(Current(g)) THEN "ended" ELSE task[g].pc]
  <2>4. task' = [task EXCEPT ![g] = r]
    BY <1>1, <1>7 DEF Notify
  <2>5. [task[g].sent EXCEPT ![by] = task[g].sent[by] + 1] \in [Publishers -> Nat]
    BY <1>1, <2>3 DEF Tasks
  <2>6. r \in Tasks
    BY <1>1, <2>2, <2>5 DEF Tasks, TaskPcs, ChainPcs
  <2> HIDE DEF r
  <2> QED BY <1>1, <2>4, <2>6
<1>8. CASE PublicationFails(g)
  <2>1. task[g].queue # <<>> BY <1>8 DEF PublicationFails, InStep
  <2>2. Tail(task[g].queue) \in Seq(Publishers) /\ <<>> \in Seq(Publishers)
    BY <1>1, <2>1, HeadTailProperties DEF Tasks
  <2>3. PICK rest \in {<<>>, Tail(task[g].queue)} :
          task' = [task EXCEPT ![g] = [task[g] EXCEPT !.queue = rest, !.step = "message",
                     !.pc = IF task[g].pc = "ended" THEN task[g].pc ELSE "interrupt"]]
    BY <1>1, <1>8 DEF PublicationFails
  <2>4. rest \in Seq(Publishers) BY <2>2
  <2>5. [task[g] EXCEPT !.queue = rest, !.step = "message",
           !.pc = IF task[g].pc = "ended" THEN task[g].pc ELSE "interrupt"] \in Tasks
    BY <1>1, <2>4 DEF Tasks, TaskPcs, ChainPcs
  <2> QED BY <1>1, <2>3, <2>5
<1>9. CASE Interrupt(g)
  BY <1>1, <1>9 DEF Interrupt, Tasks, TaskPcs
<1> QED BY <1>2, <1>3, <1>4, <1>5, <1>6, <1>7, <1>8, <1>9 DEF Segment

LEMMA SegmentShape == ASSUME TypeOK, NEW g \in Segments, Segment(g) PROVE TypeOK'
<1>1. task' \in [Segments -> Tasks] BY TaskShape
<1>2. CASE \E p \in Publishers : Publish(g, p)
  BY <1>1, <1>2 DEF Publish, TypeOK, Tasks
<1>3. CASE GraphStops(g) BY <1>1, <1>3 DEF GraphStops, TypeOK, Tasks
<1>4. CASE CommitMessage(g)
  <2>1. Current(g) \in Event BY <1>4, CurrentIsEvent DEF CommitMessage, InStep
  <2>2. status' \in {"running"} \cup ClosedStatus
    <3>1. CASE IsTerminal(Current(g))
      <4>1. Current(g).name \in TerminalNames BY <2>1, <3>1 DEF IsTerminal, Event
      <4> QED BY <1>4, <3>1, <4>1 DEF CommitMessage, StatusAfter, TerminalNames, ClosedStatus
    <3>2. CASE ~IsTerminal(Current(g)) BY <1>4, <3>2 DEF CommitMessage, TypeOK
    <3> QED BY <3>1, <3>2
  <2> QED BY <1>1, <1>4, <2>1, <2>2 DEF CommitMessage, TypeOK, Tasks
<1>5. CASE AppendEvent(g)
  <2>1. Current(g) \in Event BY <1>5, CurrentIsEvent DEF AppendEvent, InStep
  <2>2. log' \in Seq(Event) BY <1>5, <2>1 DEF AppendEvent, TypeOK
  <2> QED BY <1>1, <1>5, <2>2 DEF AppendEvent, TypeOK, Tasks
<1>6. CASE RecordSequence(g)
  <2>1. \A i \in DOMAIN log : i \in Nat BY DEF TypeOK
  <2> QED BY <1>1, <1>6, <2>1 DEF RecordSequence, TypeOK, Tasks
<1>7. CASE Notify(g)
  <2>1. \A i \in DOMAIN log : i \in Nat BY DEF TypeOK
  <2>2. notified' \in Nat BY <1>7, <2>1 DEF Notify, TypeOK
  <2>3. sub' \in [Subscribers -> Subscription]
    BY <1>7 DEF Notify, TypeOK, Subscription
  <2> QED BY <1>1, <1>7, <2>2, <2>3 DEF Notify, TypeOK, Tasks
<1>8. CASE PublicationFails(g) BY <1>1, <1>8 DEF PublicationFails, TypeOK, Tasks
<1>9. CASE Interrupt(g)
  BY <1>1, <1>9 DEF Interrupt, TypeOK, Tasks, ClosedStatus
<1> QED BY <1>2, <1>3, <1>4, <1>5, <1>6, <1>7, <1>8, <1>9 DEF Segment

LEMMA ResumeShape == ASSUME TypeOK, Resume PROVE TypeOK'
<1>1. segment + 1 \in Segments
  <2>1. MaxSegment \in Nat /\ segment \in 0..MaxSegment /\ segment < MaxSegment
    BY EventStreamAssumption DEF Resume, TypeOK, Segments
  <2> QED BY <2>1 DEF Segments
<1>2. task' \in [Segments -> Tasks]
  BY <1>1 DEF Resume, TypeOK, Tasks, TaskPcs
<1> QED BY <1>1, <1>2 DEF Resume, TypeOK, Tasks

-----------------------------------------------------------------------------
(* Subscriptions, and the invariant behind both properties.                *)

\* What a client has been given is the head of the log, and the page in hand goes
\* on from there.  A subscription that sleeps, or is about to, unnotified has
\* everything that has been broadcast.
Client(s) ==
  /\ Len(received[s]) <= Len(log)
  /\ \A i \in 1..Len(received[s]) : received[s][i] = log[i]
  /\ sub[s].pc \in {"state", "list", "listed", "yield", "wait"} =>
       sub[s].cursor = Len(received[s])
  /\ sub[s].pc \in {"listed", "yield"} =>
       /\ sub[s].cursor + Len(sub[s].page) <= Len(log)
       /\ \A i \in 1..Len(sub[s].page) : sub[s].page[i] = log[sub[s].cursor + i]
  /\ sub[s].pc = "yield" => sub[s].page # <<>>
  /\ sub[s].pc = "wait" \/ (sub[s].pc = "listed" /\ sub[s].page = <<>>) =>
       sub[s].flag \/ sub[s].cursor >= notified

Clients == \A s \in Subscribers : Client(s)

StreamInv == TypeOK /\ notified <= Len(log) /\ Clients

LEMMA PageFromCursor ==
  ASSUME TypeOK, NEW c \in Nat, c <= Len(log)
  PROVE  /\ PageAfter(c) \in Seq(Event)
         /\ c + Len(PageAfter(c)) <= Len(log)
         /\ \A i \in 1..Len(PageAfter(c)) : PageAfter(c)[i] = log[c + i]
         /\ PageAfter(c) = <<>> => c = Len(log)
<1>1. log \in Seq(Event) /\ Len(log) \in Nat /\ PageLimit \in Nat \ {0}
  BY EventStreamAssumption DEF TypeOK
<1> DEFINE last == IF Len(log) < c + PageLimit THEN Len(log) ELSE c + PageLimit
<1>2. last \in Nat /\ c <= last /\ last <= Len(log) /\ (last = c => c = Len(log))
  BY <1>1
<1>3. PageAfter(c) = SubSeq(log, c + 1, last) BY DEF PageAfter
<1> HIDE DEF last
<1>4. \A i \in (c + 1)..last : log[i] \in Event BY <1>1, <1>2
<1>5. c + 1 \in Int /\ last \in Int BY <1>2
<1>6. /\ PageAfter(c) \in Seq(Event)
      /\ Len(PageAfter(c)) = IF c + 1 <= last THEN last - (c + 1) + 1 ELSE 0
      /\ \A i \in 1..(last - (c + 1) + 1) : PageAfter(c)[i] = log[(c + 1) + i - 1]
  BY <1>3, <1>4, <1>5, SubSeqProperties
<1>7. Len(PageAfter(c)) = last - c BY <1>2, <1>6
<1>8. \A i \in 1..Len(PageAfter(c)) : PageAfter(c)[i] = log[c + i]
  <2> TAKE i \in 1..Len(PageAfter(c))
  <2>1. i \in 1..(last - (c + 1) + 1) /\ (c + 1) + i - 1 = c + i BY <1>2, <1>7
  <2> QED BY <1>6, <2>1
<1>9. PageAfter(c) = <<>> => c = Len(log)
  <2> HAVE PageAfter(c) = <<>>
  <2>1. Len(PageAfter(c)) = 0 BY EmptySeq
  <2> QED BY <1>2, <1>7, <2>1
<1> QED BY <1>2, <1>6, <1>7, <1>8, <1>9

\* A step of one subscription leaves the others as they are.
LEMMA OthersKept ==
  ASSUME StreamInv, NEW s \in Subscribers, NEW x,
         sub' = [sub EXCEPT ![s] = x],
         \A t \in Subscribers \ {s} : received'[t] = received[t],
         log' = log, notified' = notified,
         Client(s)'
  PROVE  Clients'
<1> SUFFICES ASSUME NEW t \in Subscribers, t # s PROVE Client(t)'
  BY DEF Clients
<1>1. sub'[t] = sub[t] /\ received'[t] = received[t]
  BY DEF StreamInv, TypeOK
<1>2. Client(t) BY DEF StreamInv, Clients
<1> QED BY <1>1, <1>2 DEF Client

\* A step that neither delivers nor touches the stores keeps the types.
LEMMA SubShape ==
  ASSUME TypeOK, NEW s \in Subscribers, NEW x \in Subscription,
         sub' = [sub EXCEPT ![s] = x],
         UNCHANGED <<status, sequence, messages, log, segment, task, received, notified>>
  PROVE  TypeOK' /\ sub'[s] = x
BY DEF TypeOK

LEMMA SubscribeKeeps ==
  ASSUME StreamInv, NEW s \in Subscribers, Subscribe(s) PROVE StreamInv'
<1> DEFINE x == LoopTop([Fresh EXCEPT !.cursor = Len(received[s])])
<1>1. received[s] \in Seq(Event) /\ Len(received[s]) \in Nat BY DEF StreamInv, TypeOK
<1>2. <<>> \in Seq(Event) OBVIOUS
<1>3. x \in Subscription
  BY <1>1, <1>2 DEF LoopTop, Fresh, Subscription, SubPcs
<1>4. x.pc = "state" /\ x.cursor = Len(received[s]) BY DEF LoopTop, Fresh
<1>5. sub' = [sub EXCEPT ![s] = x] BY DEF Subscribe
<1>6. UNCHANGED <<status, sequence, messages, log, segment, task, received, notified>>
  BY DEF Subscribe
<1> HIDE DEF x
<1>7. TypeOK' /\ sub'[s] = x BY <1>3, <1>5, <1>6, SubShape DEF StreamInv
<1>8. Client(s)' BY <1>4, <1>6, <1>7 DEF Client, StreamInv, Clients
<1>9. Clients' BY <1>5, <1>6, <1>8, OthersKept
<1> QED BY <1>6, <1>7, <1>9 DEF StreamInv

LEMMA ReadStateKeeps ==
  ASSUME StreamInv, NEW s \in Subscribers, ReadState(s) PROVE StreamInv'
<1> DEFINE x == [sub[s] EXCEPT !.pc = "list", !.seen = [status |-> status, sequence |-> sequence]]
<1>1. sub[s] \in Subscription BY DEF StreamInv, TypeOK
<1>2. x \in Subscription
  BY <1>1 DEF Subscription, SubPcs, StreamInv, TypeOK
<1>3. x.pc = "list" /\ x.cursor = sub[s].cursor BY <1>1 DEF Subscription
<1>4. sub' = [sub EXCEPT ![s] = x] BY DEF ReadState, StreamInv, TypeOK
<1>5. UNCHANGED <<status, sequence, messages, log, segment, task, received, notified>>
  BY DEF ReadState
<1> HIDE DEF x
<1>6. TypeOK' /\ sub'[s] = x BY <1>2, <1>4, <1>5, SubShape DEF StreamInv
<1>7. Client(s)' BY <1>3, <1>5, <1>6 DEF Client, StreamInv, Clients, ReadState
<1>8. Clients' BY <1>4, <1>5, <1>7, OthersKept
<1> QED BY <1>5, <1>6, <1>8 DEF StreamInv

LEMMA ListEventsKeeps ==
  ASSUME StreamInv, NEW s \in Subscribers, ListEvents(s) PROVE StreamInv'
<1> DEFINE x == [sub[s] EXCEPT !.pc = "listed", !.page = PageAfter(sub[s].cursor)]
<1>1. sub[s] \in Subscription /\ sub[s].cursor \in Nat BY DEF StreamInv, TypeOK, Subscription
<1>2. sub[s].cursor = Len(received[s]) /\ sub[s].cursor <= Len(log)
  BY DEF StreamInv, Clients, Client, ListEvents
<1>3. /\ PageAfter(sub[s].cursor) \in Seq(Event)
      /\ sub[s].cursor + Len(PageAfter(sub[s].cursor)) <= Len(log)
      /\ \A i \in 1..Len(PageAfter(sub[s].cursor)) :
           PageAfter(sub[s].cursor)[i] = log[sub[s].cursor + i]
      /\ PageAfter(sub[s].cursor) = <<>> => sub[s].cursor = Len(log)
  BY <1>1, <1>2, PageFromCursor DEF StreamInv
<1>4. x \in Subscription BY <1>1, <1>3 DEF Subscription, SubPcs
<1>5. x.pc = "listed" /\ x.cursor = sub[s].cursor /\ x.page = PageAfter(sub[s].cursor)
  BY <1>1 DEF Subscription
<1>6. sub' = [sub EXCEPT ![s] = x] BY DEF ListEvents, StreamInv, TypeOK
<1>7. UNCHANGED <<status, sequence, messages, log, segment, task, received, notified>>
  BY DEF ListEvents
<1> HIDE DEF x
<1>8. TypeOK' /\ sub'[s] = x BY <1>4, <1>6, <1>7, SubShape DEF StreamInv
<1>9. x.page = <<>> => x.cursor >= notified
  BY <1>3, <1>5 DEF StreamInv, TypeOK
<1>10. Client(s)
  BY DEF StreamInv, Clients
<1>11. Client(s)' BY <1>2, <1>3, <1>5, <1>7, <1>8, <1>9, <1>10 DEF Client
<1>12. Clients' BY <1>6, <1>7, <1>11, OthersKept
<1> QED BY <1>7, <1>8, <1>12 DEF StreamInv

LEMMA TakePageKeeps ==
  ASSUME StreamInv, NEW s \in Subscribers, TakePage(s) PROVE StreamInv'
<1> DEFINE x == IF sub[s].page = <<>> THEN AfterEmptyPage(sub[s])
                ELSE [sub[s] EXCEPT !.pc = "yield"]
<1>1. sub[s] \in Subscription /\ sub[s].pc = "listed"
  BY DEF StreamInv, TypeOK, TakePage
<1>2. x \in Subscription BY <1>1 DEF Subscription, SubPcs, AfterEmptyPage
<1>3. /\ x.cursor = sub[s].cursor /\ x.page = sub[s].page /\ x.flag = sub[s].flag
      /\ x.pc \in {"yield", "wait", "ended", "error"}
      /\ x.pc = "yield" <=> sub[s].page # <<>>
  BY <1>1 DEF Subscription, AfterEmptyPage
<1>4. sub' = [sub EXCEPT ![s] = x] BY DEF TakePage
<1>5. UNCHANGED <<status, sequence, messages, log, segment, task, received, notified>>
  BY DEF TakePage
<1> HIDE DEF x
<1>6. TypeOK' /\ sub'[s] = x BY <1>2, <1>4, <1>5, SubShape DEF StreamInv
<1>7. Client(s)
  BY DEF StreamInv, Clients
<1>8. Client(s)' BY <1>1, <1>3, <1>5, <1>6, <1>7 DEF Client
<1>9. Clients' BY <1>4, <1>5, <1>8, OthersKept
<1> QED BY <1>5, <1>6, <1>9 DEF StreamInv

LEMMA DeliverKeeps ==
  ASSUME StreamInv, NEW s \in Subscribers, Deliver(s) PROVE StreamInv'
<1> DEFINE got  == Append(received[s], Head(sub[s].page))
           next == [sub[s] EXCEPT !.cursor = sub[s].cursor + 1, !.page = Tail(sub[s].page)]
           x    == IF next.page = <<>> THEN LoopTop(next) ELSE next
<1>1. /\ sub[s] \in Subscription /\ sub[s].pc = "yield"
      /\ sub[s].page \in Seq(Event) /\ sub[s].cursor \in Nat
      /\ received[s] \in Seq(Event) /\ log \in Seq(Event)
  BY DEF StreamInv, TypeOK, Deliver, Subscription
<1>2. /\ Len(received[s]) \in Nat /\ Len(log) \in Nat /\ Len(sub[s].page) \in Nat
  BY <1>1
<1>3. /\ sub[s].cursor = Len(received[s])
      /\ sub[s].page # <<>>
      /\ sub[s].cursor + Len(sub[s].page) <= Len(log)
      /\ \A i \in 1..Len(sub[s].page) : sub[s].page[i] = log[sub[s].cursor + i]
      /\ \A i \in 1..Len(received[s]) : received[s][i] = log[i]
  BY <1>1 DEF StreamInv, Clients, Client
<1>4. /\ Head(sub[s].page) \in Event
      /\ Head(sub[s].page) = sub[s].page[1]
      /\ Tail(sub[s].page) \in Seq(Event)
      /\ Len(Tail(sub[s].page)) = Len(sub[s].page) - 1
      /\ \A i \in 1..Len(Tail(sub[s].page)) : Tail(sub[s].page)[i] = sub[s].page[i + 1]
  BY <1>1, <1>3, HeadTailProperties
<1>5. /\ got \in Seq(Event)
      /\ Len(got) = Len(received[s]) + 1
      /\ \A i \in 1..Len(received[s]) : got[i] = received[s][i]
      /\ got[Len(received[s]) + 1] = Head(sub[s].page)
  BY <1>1, <1>4, AppendProperties
<1>6. Len(sub[s].page) >= 1 BY <1>1, <1>2, <1>3, EmptySeq
<1>7. /\ x.cursor = sub[s].cursor + 1 /\ x.page = Tail(sub[s].page)
      /\ x.pc = (IF Tail(sub[s].page) = <<>> THEN "state" ELSE "yield")
  BY <1>1 DEF Subscription, LoopTop
<1>8. x \in Subscription
  <2>1. sub[s].cursor + 1 \in Nat BY <1>1
  <2>2. next \in Subscription BY <1>1, <1>4, <2>1 DEF Subscription
  <2> HIDE DEF next
  <2>3. LoopTop(next) \in Subscription BY <2>2 DEF Subscription, SubPcs, LoopTop
  <2> QED BY <2>2, <2>3
<1>9. sub' = [sub EXCEPT ![s] = x] /\ received' = [received EXCEPT ![s] = got]
  BY DEF Deliver, StreamInv, TypeOK
<1>10. UNCHANGED <<status, sequence, messages, log, segment, task, notified>>
  BY DEF Deliver
<1> HIDE DEF x, got, next
<1>11. sub'[s] = x /\ received'[s] = got /\ TypeOK'
  BY <1>5, <1>8, <1>9, <1>10 DEF StreamInv, TypeOK
<1> DEFINE m == Len(received[s])
           p == Len(sub[s].page)
           l == Len(log)
<1>12. m \in Nat /\ p \in Nat /\ l \in Nat /\ p >= 1 /\ m + p <= l
  BY <1>2, <1>3, <1>6
<1>13. Len(got) = m + 1 /\ x.cursor = m + 1 /\ Len(x.page) = p - 1
  BY <1>3, <1>4, <1>5, <1>7
<1> HIDE DEF m, p, l
<1>14. m + 1 <= l /\ (m + 1) + (p - 1) <= l BY <1>12
<1>15. Len(got) <= Len(log) BY <1>13, <1>14 DEF l
<1>16. \A i \in 1..Len(got) : got[i] = log[i]
  <2> TAKE i \in 1..Len(got)
  <2>1. CASE i \in 1..Len(received[s]) BY <1>3, <1>5, <2>1
  <2>2. CASE i = Len(received[s]) + 1
    <3>1. 1 \in 1..Len(sub[s].page) BY <1>2, <1>6
    <3>2. sub[s].page[1] = log[sub[s].cursor + 1] BY <1>3, <3>1
    <3> QED BY <1>3, <1>4, <1>5, <2>2, <3>2
  <2> QED BY <1>2, <1>5, <2>1, <2>2
<1>17. x.cursor = Len(got) /\ x.cursor + Len(x.page) <= Len(log)
  BY <1>13, <1>14 DEF l
<1>18. \A i \in 1..Len(x.page) : x.page[i] = log[x.cursor + i]
  <2> TAKE i \in 1..Len(x.page)
  <2>1. i \in 1..Len(Tail(sub[s].page)) /\ i + 1 \in 1..Len(sub[s].page)
    BY <1>2, <1>4, <1>7
  <2>2. x.page[i] = sub[s].page[i + 1] BY <1>4, <1>7, <2>1
  <2>3. sub[s].page[i + 1] = log[sub[s].cursor + (i + 1)] BY <1>3, <2>1
  <2>4. sub[s].cursor + (i + 1) = x.cursor + i BY <1>1, <1>7, <2>1
  <2> QED BY <2>2, <2>3, <2>4
<1>19. x.pc \in {"state", "yield"} /\ (x.pc = "yield" => x.page # <<>>) BY <1>7
<1>20. Client(s)' BY <1>10, <1>11, <1>15, <1>16, <1>17, <1>18, <1>19 DEF Client
<1>21. \A t \in Subscribers \ {s} : received'[t] = received[t]
  BY <1>9 DEF StreamInv, TypeOK
<1>22. Clients' BY <1>9, <1>10, <1>20, <1>21, OthersKept
<1> QED BY <1>10, <1>11, <1>22 DEF StreamInv

LEMMA WakeKeeps ==
  ASSUME StreamInv, NEW s \in Subscribers, Wake(s) PROVE StreamInv'
<1> DEFINE x == LoopTop(sub[s])
<1>1. sub[s] \in Subscription BY DEF StreamInv, TypeOK
<1>2. x \in Subscription BY <1>1 DEF Subscription, SubPcs, LoopTop
<1>3. x.pc = "state" /\ x.cursor = sub[s].cursor BY <1>1 DEF Subscription, LoopTop
<1>4. sub' = [sub EXCEPT ![s] = x] BY DEF Wake
<1>5. UNCHANGED <<status, sequence, messages, log, segment, task, received, notified>>
  BY DEF Wake
<1> HIDE DEF x
<1>6. TypeOK' /\ sub'[s] = x BY <1>2, <1>4, <1>5, SubShape DEF StreamInv
<1>7. Client(s)' BY <1>3, <1>5, <1>6 DEF Client, StreamInv, Clients, Wake
<1>8. Clients' BY <1>4, <1>5, <1>7, OthersKept
<1> QED BY <1>5, <1>6, <1>8 DEF StreamInv

LEMMA TimerExpiresKeeps ==
  ASSUME StreamInv, NEW s \in Subscribers, TimerExpires(s) PROVE StreamInv'
<1> DEFINE x == [sub[s] EXCEPT !.timer = "expired"]
<1>1. sub[s] \in Subscription BY DEF StreamInv, TypeOK
<1>2. x \in Subscription BY <1>1 DEF Subscription
<1>3. /\ x.pc = sub[s].pc /\ x.cursor = sub[s].cursor
      /\ x.page = sub[s].page /\ x.flag = sub[s].flag
  BY <1>1 DEF Subscription
<1>4. sub' = [sub EXCEPT ![s] = x] BY DEF TimerExpires, StreamInv, TypeOK
<1>5. UNCHANGED <<status, sequence, messages, log, segment, task, received, notified>>
  BY DEF TimerExpires
<1> HIDE DEF x
<1>6. TypeOK' /\ sub'[s] = x BY <1>2, <1>4, <1>5, SubShape DEF StreamInv
<1>7. Client(s) BY DEF StreamInv, Clients
<1>8. Client(s)' BY <1>3, <1>5, <1>6, <1>7 DEF Client
<1>9. Clients' BY <1>4, <1>5, <1>8, OthersKept
<1> QED BY <1>5, <1>6, <1>9 DEF StreamInv

LEMMA DisconnectKeeps ==
  ASSUME StreamInv, NEW s \in Subscribers, Disconnect(s) PROVE StreamInv'
<1> DEFINE x == [Fresh EXCEPT !.pc = "off"]
<1>1. <<>> \in Seq(Event) OBVIOUS
<1>2. x \in Subscription /\ x.pc = "off" BY <1>1 DEF Subscription, SubPcs, Fresh
<1>3. sub' = [sub EXCEPT ![s] = x] BY DEF Disconnect
<1>4. UNCHANGED <<status, sequence, messages, log, segment, task, received, notified>>
  BY DEF Disconnect
<1> HIDE DEF x
<1>5. TypeOK' /\ sub'[s] = x BY <1>2, <1>3, <1>4, SubShape DEF StreamInv
<1>6. Client(s)' BY <1>2, <1>4, <1>5 DEF Client, StreamInv, Clients
<1>7. Clients' BY <1>3, <1>4, <1>6, OthersKept
<1> QED BY <1>4, <1>5, <1>7 DEF StreamInv

-----------------------------------------------------------------------------
(* Publications.                                                           *)

\* The log only grows at its end, whatever else a publication does.
LEMMA LogGrows ==
  ASSUME StreamInv, TypeOK', UNCHANGED <<sub, received, notified>>,
         Len(log) <= Len(log'), \A i \in 1..Len(log) : log'[i] = log[i]
  PROVE  StreamInv'
<1>1. Len(log) \in Nat /\ Len(log') \in Nat BY DEF TypeOK, StreamInv
<1>2. notified' <= Len(log') BY <1>1 DEF StreamInv, TypeOK
<1> SUFFICES ASSUME NEW s \in Subscribers PROVE Client(s)'
  BY <1>2 DEF StreamInv, Clients
<1>3. Client(s) BY DEF StreamInv, Clients
<1>4. /\ sub[s] \in Subscription /\ sub[s].cursor \in Nat /\ Len(sub[s].page) \in Nat
      /\ Len(received[s]) \in Nat
  BY DEF StreamInv, TypeOK, Subscription
<1>5. Len(received[s]) <= Len(log') BY <1>1, <1>3, <1>4 DEF Client
<1>6. \A i \in 1..Len(received[s]) : received[s][i] = log'[i]
  <2> TAKE i \in 1..Len(received[s])
  <2>1. i \in 1..Len(log) BY <1>1, <1>3, <1>4 DEF Client
  <2> QED BY <1>3, <2>1 DEF Client
<1>7. ASSUME sub[s].pc \in {"listed", "yield"}
      PROVE  /\ sub[s].cursor + Len(sub[s].page) <= Len(log')
             /\ \A i \in 1..Len(sub[s].page) : sub[s].page[i] = log'[sub[s].cursor + i]
  <2>1. /\ sub[s].cursor + Len(sub[s].page) <= Len(log)
        /\ \A i \in 1..Len(sub[s].page) : sub[s].page[i] = log[sub[s].cursor + i]
    BY <1>3, <1>7 DEF Client
  <2>2. \A i \in 1..Len(sub[s].page) : sub[s].cursor + i \in 1..Len(log)
    <3> TAKE i \in 1..Len(sub[s].page)
    <3>1. i \in Nat /\ i >= 1 /\ i <= Len(sub[s].page)
      BY <1>4
    <3> QED BY <1>1, <1>4, <2>1, <3>1
  <2>3. sub[s].cursor + Len(sub[s].page) <= Len(log')
    BY <1>1, <1>4, <2>1
  <2>4. \A i \in 1..Len(sub[s].page) : sub[s].page[i] = log'[sub[s].cursor + i]
    <3> TAKE i \in 1..Len(sub[s].page)
    <3>1. log'[sub[s].cursor + i] = log[sub[s].cursor + i] BY <2>2
    <3> QED BY <2>1, <3>1
  <2> QED BY <2>3, <2>4
<1> QED BY <1>3, <1>5, <1>6, <1>7 DEF Client

\* The broadcast sets the flag of every subscription that is reading or waiting.
LEMMA NotifyKeeps ==
  ASSUME StreamInv, NEW g \in Segments, Notify(g) PROVE StreamInv'
<1>1. TypeOK'
  <2>1. Segment(g) BY DEF Segment
  <2> QED BY <2>1, SegmentShape DEF StreamInv
<1>2. log' = log /\ received' = received /\ Len(log) \in Nat /\ notified \in Nat
  BY DEF Notify, StreamInv, TypeOK
<1>3. notified' <= Len(log')
  <2>1. DOMAIN log = 1..Len(log) BY DEF StreamInv, TypeOK
  <2>2. PICK i \in DOMAIN log : notified' = IF i > notified THEN i ELSE notified
    BY DEF Notify
  <2> QED BY <1>2, <2>1, <2>2 DEF StreamInv
<1> SUFFICES ASSUME NEW s \in Subscribers PROVE Client(s)'
  BY <1>1, <1>3 DEF StreamInv, Clients
<1>4. Client(s) /\ sub[s] \in Subscription BY DEF StreamInv, Clients, TypeOK
<1>5. CASE s \in Attached
  <2>1. sub'[s] = [sub[s] EXCEPT !.flag = TRUE] BY <1>5 DEF Notify
  <2>2. /\ sub'[s].flag = TRUE /\ sub'[s].pc = sub[s].pc
        /\ sub'[s].cursor = sub[s].cursor /\ sub'[s].page = sub[s].page
    BY <1>4, <2>1 DEF Subscription
  <2> QED BY <1>2, <1>4, <2>2 DEF Client
<1>6. CASE s \notin Attached
  <2>1. sub'[s] = sub[s] BY <1>6 DEF Notify
  <2>2. sub[s].pc \in {"new", "off", "ended", "error"} BY <1>6 DEF Attached
  <2> QED BY <1>2, <1>4, <2>1, <2>2 DEF Client
<1> QED BY <1>5, <1>6

LEMMA SegmentKeeps ==
  ASSUME StreamInv, NEW g \in Segments, Segment(g) PROVE StreamInv'
<1>1. TypeOK' BY SegmentShape DEF StreamInv
<1>2. CASE Notify(g) BY <1>2, NotifyKeeps
<1>3. CASE AppendEvent(g)
  <2>1. log' = Append(log, Current(g)) /\ UNCHANGED <<sub, received, notified>>
    BY <1>3 DEF AppendEvent
  <2>2. Current(g) \in Event BY <1>3, CurrentIsEvent DEF AppendEvent, InStep, StreamInv
  <2>3. log \in Seq(Event) /\ Len(log) \in Nat BY DEF StreamInv, TypeOK
  <2>4. Len(log') = Len(log) + 1 /\ \A i \in 1..Len(log) : log'[i] = log[i]
    BY <2>1, <2>2, <2>3, AppendProperties
  <2>5. Len(log) <= Len(log') BY <2>3, <2>4
  <2> QED BY <1>1, <2>1, <2>4, <2>5, LogGrows
<1>4. CASE UNCHANGED <<log, sub, received, notified>>
  <2>1. Len(log) \in Nat BY DEF StreamInv, TypeOK
  <2>2. Len(log) <= Len(log') /\ \A i \in 1..Len(log) : log'[i] = log[i]
    BY <1>4, <2>1
  <2> QED BY <1>1, <1>4, <2>2, LogGrows
<1> QED BY <1>2, <1>3, <1>4 DEF Segment, Publish, GraphStops, CommitMessage,
           RecordSequence, PublicationFails, Interrupt

LEMMA ResumeKeeps == ASSUME StreamInv, Resume PROVE StreamInv'
<1>1. TypeOK' BY ResumeShape DEF StreamInv
<1>2. UNCHANGED <<log, sub, received, notified>> BY DEF Resume
<1>3. Len(log) \in Nat BY DEF StreamInv, TypeOK
<1>4. Len(log) <= Len(log') /\ \A i \in 1..Len(log) : log'[i] = log[i]
  BY <1>2, <1>3
<1> QED BY <1>1, <1>2, <1>4, LogGrows

-----------------------------------------------------------------------------
LEMMA StreamStarts == Init => StreamInv
<1> SUFFICES ASSUME Init PROVE StreamInv OBVIOUS
<1>1. <<>> \in Seq(Event) /\ <<>> \in Seq(Publishers) /\ Len(<<>>) = 0 OBVIOUS
<1>2. 0 \in Segments BY EventStreamAssumption DEF Segments
<1>3. NoTask \in Tasks BY <1>1 DEF NoTask, Tasks, TaskPcs, ChainPcs
<1>4. [NoTask EXCEPT !.pc = "running"] \in Tasks
  BY <1>1 DEF NoTask, Tasks, TaskPcs, ChainPcs
<1>5. task \in [Segments -> Tasks] BY <1>3, <1>4 DEF Init
<1>6. Fresh \in Subscription BY <1>1 DEF Fresh, Subscription, SubPcs
<1>7. TypeOK BY <1>1, <1>2, <1>5, <1>6 DEF Init, TypeOK, Tasks
<1>8. Clients
  <2> SUFFICES ASSUME NEW s \in Subscribers PROVE Client(s) BY DEF Clients
  <2>1. sub[s].pc = "new" /\ received[s] = <<>> /\ log = <<>> BY DEF Init, Fresh
  <2> QED BY <1>1, <2>1 DEF Client
<1>9. notified <= Len(log) BY <1>1 DEF Init
<1> QED BY <1>7, <1>8, <1>9 DEF StreamInv

LEMMA StreamKept == StreamInv /\ [Next]_vars => StreamInv'
<1> SUFFICES ASSUME StreamInv, [Next]_vars PROVE StreamInv' OBVIOUS
<1>1. CASE \E g \in Segments : Segment(g) BY <1>1, SegmentKeeps
<1>2. CASE Resume BY <1>2, ResumeKeeps
<1>3. ASSUME NEW s \in Subscribers,
             Subscribe(s) \/ Iterate(s) \/ TimerExpires(s) \/ Disconnect(s)
      PROVE  StreamInv'
  <2>1. CASE Subscribe(s) BY <2>1, SubscribeKeeps
  <2>2. CASE ReadState(s) BY <2>2, ReadStateKeeps
  <2>3. CASE ListEvents(s) BY <2>3, ListEventsKeeps
  <2>4. CASE TakePage(s) BY <2>4, TakePageKeeps
  <2>5. CASE Deliver(s) BY <2>5, DeliverKeeps
  <2>6. CASE Wake(s) BY <2>6, WakeKeeps
  <2>7. CASE TimerExpires(s) BY <2>7, TimerExpiresKeeps
  <2>8. CASE Disconnect(s) BY <2>8, DisconnectKeeps
  <2> QED BY <1>3, <2>1, <2>2, <2>3, <2>4, <2>5, <2>6, <2>7, <2>8 DEF Iterate
<1>4. CASE UNCHANGED vars
  BY <1>4 DEF vars, StreamInv, Clients, Client, TypeOK
<1> QED BY <1>1, <1>2, <1>3, <1>4 DEF Next

\* The stores, tasks and subscriptions keep their shapes, and each client its place
\* in the log.
THEOREM StreamHolds == Spec => []StreamInv
<1> QED BY StreamStarts, StreamKept, PTL DEF Spec

\* Whatever the pages, disconnections and reconnections, what a client has been
\* given is the head of the log.
THEOREM ClientsReadTheLog == Spec => []DeliveredInOrder
<1>1. StreamInv => DeliveredInOrder
  <2> SUFFICES ASSUME StreamInv, NEW s \in Subscribers
               PROVE  /\ Len(received[s]) <= Len(log)
                      /\ received[s] = SubSeq(log, 1, Len(received[s]))
    BY DEF DeliveredInOrder
  <2> DEFINE n == Len(received[s])
  <2>1. received[s] \in Seq(Event) /\ log \in Seq(Event) /\ n \in Nat /\ Len(log) \in Nat
    BY DEF StreamInv, TypeOK
  <2>2. n <= Len(log) /\ \A i \in 1..n : received[s][i] = log[i]
    BY DEF StreamInv, Clients, Client
  <2> HIDE DEF n
  <2>3. \A i \in 1..n : log[i] \in Event BY <2>1, <2>2
  <2>4. 1 \in Int /\ n \in Int BY <2>1
  <2>5. /\ SubSeq(log, 1, n) \in Seq(Event)
        /\ Len(SubSeq(log, 1, n)) = IF 1 <= n THEN n - 1 + 1 ELSE 0
        /\ \A i \in 1..(n - 1 + 1) : SubSeq(log, 1, n)[i] = log[1 + i - 1]
    BY <2>3, <2>4, SubSeqProperties
  <2>6. Len(SubSeq(log, 1, n)) = n BY <2>1, <2>5
  <2>7. \A i \in 1..n : SubSeq(log, 1, n)[i] = log[i]
    <3> TAKE i \in 1..n
    <3>1. i \in 1..(n - 1 + 1) /\ 1 + i - 1 = i BY <2>1
    <3> QED BY <2>5, <3>1
  <2>8. Len(received[s]) = Len(SubSeq(log, 1, n)) BY <2>6 DEF n
  <2>9. \A i \in 1..Len(received[s]) : received[s][i] = SubSeq(log, 1, n)[i]
    BY <2>2, <2>7 DEF n
  <2>10. received[s] = SubSeq(log, 1, n)
    BY <2>1, <2>5, <2>8, <2>9, SeqEqual
  <2> QED BY <2>2, <2>10 DEF n
<1> QED BY <1>1, StreamHolds, PTL

\* No subscription sleeps unnotified over an event that was broadcast: the flag is
\* cleared before the log is read, and a broadcast sets it whatever is in hand.
THEOREM NoEventWaitsForThePoll == Spec => []NoLostWakeup
<1>1. StreamInv => NoLostWakeup
  BY DEF StreamInv, Clients, Client, NoLostWakeup
<1> QED BY <1>1, StreamHolds, PTL
-----------------------------------------------------------------------------
(* What the log says is so.                                                *)

Busy(g) == task[g].queue # <<>>
Logged(e) == \E i \in DOMAIN log : log[i] = e

\* The event under way is in the stores its task's step has passed.
StepOf(g) ==
  /\ task[g].step # "message" => Busy(g) /\ Current(g) \in messages
  /\ task[g].step \in {"record", "notify"} => Logged(Current(g))

\* The last event of publisher p that counts as sent is in the log.
SentIsLogged(g, p) ==
  task[g].sent[p] # 0 =>
    \E i \in DOMAIN log :
      log[i].segment = g /\ log[i].by = p /\ log[i].n = task[g].sent[p]

LogInv ==
  /\ \A i \in DOMAIN log : log[i] \in messages
  /\ PublishersKeepOrder
  /\ \A g \in Segments : StepOf(g)
  /\ \A g \in Segments, p \in Publishers : SentIsLogged(g, p)

\* The log only grows at its end.
LogExtends == Len(log) <= Len(log') /\ \A i \in 1..Len(log) : log'[i] = log[i]

LEMMA LogShape ==
  ASSUME TypeOK
  PROVE  /\ log \in Seq(Event) /\ Len(log) \in Nat /\ DOMAIN log = 1..Len(log)
         /\ \A i \in DOMAIN log : log[i] \in Event
         /\ segment \in Nat /\ Segments \subseteq Nat
         /\ \A g \in Segments : task[g] \in Tasks
BY EventStreamAssumption DEF TypeOK, Segments, Tasks

\* A task moves on alone, and no store forgets anything.
LEMMA OneTaskMoves ==
  ASSUME TypeOK, NEW g \in Segments, Segment(g)
  PROVE  /\ segment' = segment /\ received' = received
         /\ \A h \in Segments : h # g => task'[h] = task[h]
         /\ LogExtends /\ messages \subseteq messages'
<1>1. /\ segment' = segment /\ received' = received /\ messages \subseteq messages'
      /\ \A h \in Segments : h # g => task'[h] = task[h]
  BY DEF TypeOK, Segment, Publish, GraphStops, CommitMessage, AppendEvent, RecordSequence,
     Notify, PublicationFails, Interrupt, GotoStep
<1>2. log' = log \/ (log' = Append(log, Current(g)) /\ Current(g) \in Event)
  <2>1. CASE AppendEvent(g)
    BY <2>1, CurrentIsEvent DEF AppendEvent, InStep
  <2>2. CASE ~AppendEvent(g)
    BY <2>2 DEF Segment, Publish, GraphStops, CommitMessage, RecordSequence, Notify,
       PublicationFails, Interrupt
  <2> QED BY <2>1, <2>2
<1>3. LogExtends
  BY <1>2, LogShape, AppendProperties DEF LogExtends
<1> QED BY <1>1, <1>3

\* What was logged stays so.
LEMMA StaysLogged ==
  ASSUME TypeOK, TypeOK', LogExtends, NEW e, Logged(e)
  PROVE  \E i \in DOMAIN log' : log'[i] = e
<1>1. PICK i \in 1..Len(log) : log[i] = e
  BY LogShape DEF Logged
<1>2. i \in 1..Len(log')
  BY LogShape DEF LogExtends, TypeOK
<1>3. DOMAIN log' = 1..Len(log')
  BY DEF TypeOK
<1> QED BY <1>1, <1>2, <1>3 DEF LogExtends

\* What no step of a task changes but its own.
LEMMA SameTask ==
  ASSUME TypeOK, TypeOK', LogExtends, messages \subseteq messages', NEW h \in Segments, StepOf(h),
         task'[h].queue = task[h].queue, task'[h].step = task[h].step,
         task'[h].sent = task[h].sent, task'[h].terminal = task[h].terminal
  PROVE  StepOf(h)'
<1> DEFINE e == Current(h)
<1>1. Current(h)' = e /\ Busy(h)' = Busy(h)
  BY DEF Current, Busy
<1>2. Logged(e) => Logged(Current(h))'
  BY <1>1, StaysLogged DEF Logged
<1> QED BY <1>1, <1>2 DEF StepOf

LEMMA SentStays ==
  ASSUME TypeOK, TypeOK', LogExtends, NEW h \in Segments, NEW p \in Publishers,
         SentIsLogged(h, p), task'[h].sent[p] = task[h].sent[p]
  PROVE  SentIsLogged(h, p)'
<1> SUFFICES ASSUME task[h].sent[p] # 0
             PROVE  \E i \in DOMAIN log' :
                      log'[i].segment = h /\ log'[i].by = p /\ log'[i].n = task[h].sent[p]
  BY DEF SentIsLogged
<1>1. PICK i \in DOMAIN log :
        log[i].segment = h /\ log[i].by = p /\ log[i].n = task[h].sent[p]
  BY DEF SentIsLogged
<1>2. Logged(log[i])
  BY DEF Logged
<1>3. PICK j \in DOMAIN log' : log'[j] = log[i]
  BY <1>2, StaysLogged
<1> QED BY <1>1, <1>3

\* A step within the chain is one of the task's step alone.
LEMMA StepMoves ==
  ASSUME TypeOK, NEW g \in Segments, NEW step, GotoStep(g, step)
  PROVE  /\ task'[g].step = step
         /\ task'[g].pc = task[g].pc /\ task'[g].queue = task[g].queue
         /\ task'[g].sent = task[g].sent /\ task'[g].terminal = task[g].terminal
         /\ Current(g)' = Current(g) /\ Busy(g)' = Busy(g)
BY DEF GotoStep, TypeOK, Current, Busy

\* The steps of the task that moves.
LEMMA OwnStep ==
  ASSUME TypeOK, TypeOK', LogInv, NEW g \in Segments, Segment(g)
  PROVE  StepOf(g)'
<1>0. StepOf(g) /\ task[g] \in Tasks /\ LogExtends /\ messages \subseteq messages'
  BY LogShape, OneTaskMoves DEF LogInv
<1> DEFINE e == Current(g)
<1>1. Logged(e) => \E i \in DOMAIN log' : log'[i] = e
  BY <1>0, StaysLogged
<1>2. CASE \E p \in Publishers : Publish(g, p)
  <2>1. PICK p \in Publishers : task'[g] = [task[g] EXCEPT !.queue = Append(task[g].queue, p)]
    BY <1>2 DEF Publish, TypeOK
  <2>2. /\ task'[g].queue = Append(task[g].queue, p) /\ task'[g].step = task[g].step
        /\ task'[g].sent = task[g].sent /\ task'[g].terminal = task[g].terminal
    BY <1>0, <2>1 DEF Tasks
  <2>3. Busy(g) => Head(Append(task[g].queue, p)) = Head(task[g].queue)
                   /\ Append(task[g].queue, p) # <<>>
    BY <1>0 DEF Busy, Tasks
  <2>4. Busy(g) => Current(g)' = e /\ Busy(g)'
    BY <2>2, <2>3 DEF Current, Busy
  <2> QED BY <1>0, <1>1, <2>2, <2>4 DEF StepOf, Logged
<1>3. CASE GraphStops(g) \/ Notify(g) \/ PublicationFails(g)
  <2>0. task \in [Segments -> Tasks]
    BY DEF TypeOK, Tasks
  <2>1. CASE GraphStops(g)
    <3>1. task'[g].step = task[g].step /\ ~Busy(g)
      BY <2>0, <2>1 DEF GraphStops, Busy, Tasks
    <3> QED BY <1>0, <3>1 DEF StepOf
  <2>2. CASE Notify(g) \/ PublicationFails(g)
    <3>1. task'[g].step = "message"
      BY <2>0, <2>2 DEF Notify, PublicationFails, Tasks
    <3> QED BY <3>1 DEF StepOf
  <2> QED BY <1>3, <2>1, <2>2
<1>4. CASE CommitMessage(g)
  <2>1. /\ task'[g].step = "append" /\ Current(g)' = e /\ Busy(g)' = Busy(g)
        /\ e \in messages' /\ Busy(g)
    BY <1>4, StepMoves DEF CommitMessage, InStep, Busy
  <2> QED BY <2>1 DEF StepOf
<1>5. CASE AppendEvent(g)
  <2>1. /\ Current(g)' = e /\ Busy(g)' = Busy(g)
        /\ task[g].step = "append" /\ log' = Append(log, e)
    BY <1>5, StepMoves DEF AppendEvent, InStep
  <2>2. e \in Event
    BY <1>5, CurrentIsEvent DEF AppendEvent, InStep
  <2>3. Len(log) + 1 \in DOMAIN log' /\ log'[Len(log) + 1] = e
    BY <2>1, <2>2, LogShape, AppendProperties
  <2> QED BY <1>0, <2>1, <2>3 DEF StepOf, Logged
<1>6. CASE RecordSequence(g)
  <2>1. /\ Current(g)' = e /\ Busy(g)' = Busy(g) /\ task[g].step = "record"
    BY <1>6, StepMoves DEF RecordSequence, InStep
  <2> QED BY <1>0, <1>1, <2>1 DEF StepOf, Logged
<1>7. CASE Interrupt(g)
  BY <1>0, <1>7, SameTask DEF Interrupt, TypeOK, Tasks
<1> QED BY <1>2, <1>3, <1>4, <1>5, <1>6, <1>7 DEF Segment

\* Only the broadcast counts an event as sent, and it has been logged.
LEMMA OwnSent ==
  ASSUME TypeOK, TypeOK', LogInv, NEW g \in Segments, Segment(g), NEW p \in Publishers
  PROVE  SentIsLogged(g, p)'
<1>0. /\ StepOf(g) /\ SentIsLogged(g, p) /\ task[g] \in Tasks /\ LogExtends
      /\ task[g].sent \in [Publishers -> Nat]
  BY LogShape, OneTaskMoves DEF LogInv, Tasks
<1>1. CASE Notify(g)
  <2> DEFINE e == Current(g)
  <2>1. /\ e.by \in Publishers /\ e.segment = g /\ e.n = task[g].sent[e.by] + 1
        /\ Logged(e)
    BY <1>0, <1>1, CurrentIsEvent DEF Notify, InStep, StepOf, Current
  <2>2. task'[g].sent = [task[g].sent EXCEPT ![e.by] = task[g].sent[e.by] + 1]
    BY <1>0, <1>1 DEF Notify, TypeOK, Tasks
  <2>3. CASE p # e.by
    <3>1. task'[g].sent[p] = task[g].sent[p]
      BY <1>0, <2>2, <2>3
    <3> QED BY <1>0, <3>1, SentStays
  <2>4. CASE p = e.by
    <3>1. task'[g].sent[p] = e.n
      BY <1>0, <2>1, <2>2, <2>4
    <3>2. PICK i \in DOMAIN log' : log'[i] = e
      BY <1>0, <2>1, StaysLogged
    <3> HIDE DEF e
    <3> QED BY <2>1, <2>4, <3>1, <3>2 DEF SentIsLogged
  <2> QED BY <2>3, <2>4
<1>2. CASE ~Notify(g)
  <2>0. task \in [Segments -> Tasks]
    BY DEF TypeOK, Tasks
  <2>1. task'[g].sent = task[g].sent
    <3>1. CASE CommitMessage(g) \/ AppendEvent(g) \/ RecordSequence(g)
      BY <3>1, StepMoves DEF CommitMessage, AppendEvent, RecordSequence
    <3>2. CASE (\E q \in Publishers : Publish(g, q)) \/ GraphStops(g)
      BY <2>0, <3>2 DEF Publish, GraphStops, Tasks
    <3>3. CASE PublicationFails(g) \/ Interrupt(g)
      BY <2>0, <3>3 DEF PublicationFails, Interrupt, Tasks
    <3> QED BY <1>2, <3>1, <3>2, <3>3 DEF Segment
  <2> QED BY <1>0, <2>1, SentStays
<1> QED BY <1>1, <1>2

\* The event appended has its message, and comes next in its publisher's order.
LEMMA AppendKeepsOrder ==
  ASSUME TypeOK, LogInv, NEW g \in Segments, AppendEvent(g)
  PROVE  /\ \A i \in DOMAIN log' : log'[i] \in messages'
         /\ PublishersKeepOrder'
<1> DEFINE e == Current(g)
           m == Len(log) + 1
<1>0. /\ log' = Append(log, e) /\ messages' = messages /\ e \in Event /\ e.by \in Publishers
      /\ StepOf(g) /\ task[g].step = "append" /\ task[g] \in Tasks
  BY CurrentIsEvent, LogShape DEF AppendEvent, InStep, LogInv
<1>1. /\ DOMAIN log' = 1..m /\ m \in Nat /\ log'[m] = e
      /\ DOMAIN log = 1..Len(log) /\ \A i \in 1..Len(log) : log'[i] = log[i]
      /\ \A i \in 1..m : i # m => i \in 1..Len(log)
  BY <1>0, LogShape, AppendProperties
<1>2. e \in messages /\ e.segment = g /\ e.n = task[g].sent[e.by] + 1
  BY <1>0 DEF StepOf, Current
<1> HIDE DEF e, m
<1>3. \A i \in DOMAIN log' : log'[i] \in messages'
  BY <1>0, <1>1, <1>2 DEF LogInv
<1>4. ASSUME NEW j \in 1..m, log'[j].n > 1
      PROVE  \E i \in 1..(j - 1) : /\ log'[i].segment = log'[j].segment
                                   /\ log'[i].by = log'[j].by
                                   /\ log'[i].n = log'[j].n - 1
  <2>1. CASE j # m
    <3>1. j \in DOMAIN log /\ log'[j] = log[j]
      BY <1>1, <2>1
    <3>2. PICK i \in 1..(j - 1) : /\ log[i].segment = log[j].segment
                                  /\ log[i].by = log[j].by
                                  /\ log[i].n = log[j].n - 1
      BY <1>4, <3>1 DEF LogInv, PublishersKeepOrder
    <3>3. log'[i] = log[i]
      BY <1>1, <3>1, <3>2, LogShape
    <3> QED BY <3>1, <3>2, <3>3
  <2>2. CASE j = m
    <3>1. task[g].sent[e.by] \in Nat
      BY <1>0 DEF Tasks
    <3>2. task[g].sent[e.by] # 0 /\ log'[j].n - 1 = task[g].sent[e.by]
      BY <1>1, <1>2, <1>4, <2>2, <3>1
    <3>3. SentIsLogged(g, e.by)
      BY <1>0 DEF LogInv
    <3>4. PICK i \in DOMAIN log :
            log[i].segment = g /\ log[i].by = e.by /\ log[i].n = task[g].sent[e.by]
      BY <3>2, <3>3 DEF SentIsLogged
    <3>5. i \in 1..(j - 1) /\ log'[i] = log[i]
      BY <1>1, <2>2, <3>4, LogShape DEF m
    <3> QED BY <1>1, <1>2, <2>2, <3>2, <3>4, <3>5
  <2> QED BY <2>1, <2>2
<1> QED BY <1>1, <1>3, <1>4 DEF PublishersKeepOrder

LEMMA LogStep == StreamInv /\ LogInv /\ [Next]_vars => LogInv'
<1> SUFFICES ASSUME StreamInv, LogInv, [Next]_vars PROVE LogInv'
  OBVIOUS
<1>0. TypeOK /\ TypeOK'
  BY StreamKept DEF StreamInv
<1>1. ASSUME NEW g \in Segments, Segment(g) PROVE LogInv'
  <2>1. /\ LogExtends /\ messages \subseteq messages'
        /\ \A h \in Segments : h # g => task'[h] = task[h]
    BY <1>0, <1>1, OneTaskMoves
  <2>2. \A h \in Segments : StepOf(h)'
    <3> TAKE h \in Segments
    <3>1. CASE h = g BY <1>0, <1>1, <3>1, OwnStep
    <3>2. CASE h # g BY <1>0, <2>1, <3>2, SameTask DEF LogInv
    <3> QED BY <3>1, <3>2
  <2>3. \A h \in Segments, p \in Publishers : SentIsLogged(h, p)'
    <3> TAKE h \in Segments, p \in Publishers
    <3>1. CASE h = g BY <1>0, <1>1, <3>1, OwnSent
    <3>2. CASE h # g BY <1>0, <2>1, <3>2, SentStays DEF LogInv
    <3> QED BY <3>1, <3>2
  <2>4. /\ \A i \in DOMAIN log' : log'[i] \in messages'
        /\ PublishersKeepOrder'
    <3>1. CASE AppendEvent(g)
      BY <1>0, <3>1, AppendKeepsOrder
    <3>2. CASE ~AppendEvent(g)
      <4>1. log' = log
        BY <1>1, <3>2 DEF Segment, Publish, GraphStops, CommitMessage, RecordSequence, Notify,
           PublicationFails, Interrupt
      <4> QED BY <2>1, <4>1 DEF LogInv, PublishersKeepOrder
    <3> QED BY <3>1, <3>2
  <2> QED BY <2>2, <2>3, <2>4 DEF LogInv
<1>2. ASSUME UNCHANGED <<log, messages>>,
             \A h \in Segments : /\ task'[h].queue = task[h].queue /\ task'[h].step = task[h].step
                                 /\ task'[h].sent = task[h].sent /\ task'[h].terminal = task[h].terminal
      PROVE  LogInv'
  <2>1. LogExtends
    BY <1>0, <1>2, LogShape DEF LogExtends
  <2>2. \A h \in Segments : StepOf(h)'
    BY <1>0, <1>2, <2>1, SameTask DEF LogInv
  <2>3. \A h \in Segments, p \in Publishers : SentIsLogged(h, p)'
    BY <1>0, <1>2, <2>1, SentStays DEF LogInv
  <2> QED BY <1>2, <2>2, <2>3 DEF LogInv, PublishersKeepOrder
<1>3. CASE Resume
  BY <1>0, <1>2, <1>3 DEF Resume, TypeOK
<1>4. CASE UNCHANGED <<log, messages, task>>
  BY <1>2, <1>4
<1>5. ASSUME NEW s \in Subscribers,
             Subscribe(s) \/ Iterate(s) \/ TimerExpires(s) \/ Disconnect(s)
      PROVE  UNCHANGED <<log, messages, task>>
  BY <1>5 DEF Subscribe, Iterate, ReadState, ListEvents, TakePage, Deliver, Wake,
     TimerExpires, Disconnect
<1> QED BY <1>1, <1>3, <1>4, <1>5 DEF Next, vars
-----------------------------------------------------------------------------
(* The segments, when the client waits for a task's end before it resumes. *)

InTurn == "earlyResume" \notin Adversity

\* The segments before the current one are over, those after it unborn.
SegmentsFollow ==
  \A g \in Segments :
    /\ g < segment => task[g].pc = "ended" /\ ~Busy(g)
    /\ g > segment => task[g] = NoTask

\* The task of the current segment and the run's row.  What publishers left in the
\* queue of a task that failed publish is no terminal event.
CurrentTask ==
  LET x == task[segment] IN
  /\ x.pc # "none"
  /\ x.pc = "running" => status = "running" /\ x.terminal = "progress"
  /\ x.pc = "closing" =>
       /\ x.queue = <<Loop>> /\ x.terminal \in TerminalNames
       /\ status = IF x.step = "message" THEN "running" ELSE StatusAfter(x.terminal)
  /\ x.pc \in {"interrupt", "ended"} /\ Busy(segment) =>
       x.terminal = "progress" /\ status \in {"running", "failed"}
  /\ x.pc # "closing" => x.step # "record"

\* Segment g will append nothing more.
Finished(g) ==
  \/ task[g].pc = "closing" /\ task[g].step \in {"record", "notify"}
  \/ task[g].pc \in {"interrupt", "ended"} /\ ~Busy(g)

\* The log is the segments one after the other, and a terminal event closes its own.
LogInOrder ==
  /\ \A i \in DOMAIN log : log[i].segment <= segment
  /\ SegmentsAreClosed
  /\ \A i \in DOMAIN log : IsTerminal(log[i]) /\ log[i].segment = segment =>
       Finished(segment) /\ status \in ClosedStatus

\* A recorded sequence number is that of the segment's terminal event.
SequenceIsLast ==
  sequence # 0 => /\ sequence \in DOMAIN log /\ sequence = Len(log)
                  /\ IsTerminal(log[sequence]) /\ log[sequence].segment = segment

OrderInv == SegmentsFollow /\ CurrentTask /\ LogInOrder /\ SequenceIsLast

\* Only the current segment's task has anything to do.
LEMMA OnlyCurrent ==
  ASSUME TypeOK, SegmentsFollow, NEW g \in Segments, Segment(g)
  PROVE  g = segment
<1>1. Busy(g) \/ task[g].pc \in {"running", "interrupt"}
  BY DEF Segment, Publish, GraphStops, CommitMessage, AppendEvent, RecordSequence, Notify,
     PublicationFails, Interrupt, InStep, Busy
<1>2. NoTask.pc = "none" /\ NoTask.queue = <<>>
  BY DEF NoTask
<1>3. g \in Nat /\ segment \in Nat
  BY LogShape DEF Segments
<1> QED BY <1>1, <1>2, <1>3 DEF SegmentsFollow, Busy

\* A terminal event of the current segment is published while its task closes.
LEMMA TerminalCloses ==
  ASSUME TypeOK, CurrentTask, NEW g \in Segments, g = segment, Busy(g)
  PROVE  /\ IsTerminal(Current(g)) <=> task[g].pc = "closing"
         /\ task[g].pc = "closing" => Current(g).name = task[g].terminal
                                      /\ task[g].terminal \in TerminalNames
<1>1. task[g] \in Tasks /\ Head(<<Loop>>) = Loop
  BY LogShape
<1>2. task[g].pc \in {"running", "closing", "interrupt", "ended"}
  BY <1>1 DEF CurrentTask, Tasks, TaskPcs
<1>3. task[g].pc = "closing" => Current(g).name = task[g].terminal /\ task[g].terminal \in TerminalNames
  BY <1>1 DEF CurrentTask, Current
<1>4. task[g].pc # "closing" => Current(g).name = "progress"
  BY <1>2 DEF CurrentTask, Current
<1> QED BY <1>3, <1>4 DEF IsTerminal, TerminalNames

\* A step that leaves the log and the run's row alone keeps the order, if what has
\* finished stays so.
LEMMA OrderStays ==
  ASSUME TypeOK, OrderInv, UNCHANGED <<log, segment>>,
         sequence' = sequence, Finished(segment) => Finished(segment)',
         status' = status \/ status' \in ClosedStatus
                \/ \A i \in DOMAIN log : ~(IsTerminal(log[i]) /\ log[i].segment = segment)
  PROVE  LogInOrder' /\ SequenceIsLast'
<1>1. LogInOrder'
  BY DEF OrderInv, LogInOrder, SegmentsAreClosed, Finished, Busy, IsTerminal
<1>2. SequenceIsLast'
  BY DEF OrderInv, SequenceIsLast, IsTerminal
<1> QED BY <1>1, <1>2

\* While its task has not finished, the current segment has no terminal event.
LEMMA StillOpen ==
  ASSUME TypeOK, OrderInv, ~Finished(segment)
  PROVE  /\ sequence = 0
         /\ \A i \in DOMAIN log : ~(IsTerminal(log[i]) /\ log[i].segment = segment)
BY DEF OrderInv, LogInOrder, SequenceIsLast

\* The segments that are over or unborn do not move.
LEMMA FollowStays ==
  ASSUME TypeOK, SegmentsFollow, UNCHANGED segment,
         \A h \in Segments : h # segment => task'[h] = task[h]
  PROVE  SegmentsFollow'
BY LogShape DEF SegmentsFollow, Busy, Segments

LEMMA PublishOrder ==
  ASSUME TypeOK, LogInv, OrderInv, NEW g \in Segments, g = segment,
         GraphStops(g) \/ \E p \in Publishers : Publish(g, p)
  PROVE  CurrentTask' /\ LogInOrder' /\ SequenceIsLast'
<1>0. task \in [Segments -> Tasks] /\ StepOf(g) /\ CurrentTask
  BY DEF TypeOK, Tasks, LogInv, OrderInv
<1>1. /\ task[g].pc = "running" /\ ~Finished(segment)
      /\ UNCHANGED <<log, segment, sequence, status>>
  BY DEF GraphStops, Publish, Finished
<1>2. CASE GraphStops(g)
  <2>1. /\ task'[g].pc = "closing" /\ task'[g].terminal \in TerminalNames
        /\ task'[g].queue = <<Loop>> /\ task'[g].step = task[g].step /\ ~Busy(g)
    <3>1. task[g].queue = <<>> /\ \E name \in TerminalNames :
            task' = [task EXCEPT ![g].pc = "closing", ![g].terminal = name, ![g].queue = <<Loop>>]
      BY <1>2 DEF GraphStops
    <3> QED BY <1>0, <3>1 DEF Tasks, Busy
  <2>2. task'[g].step = "message"
    BY <1>0, <2>1 DEF StepOf
  <2>3. CurrentTask'
    BY <1>0, <1>1, <2>1, <2>2 DEF CurrentTask
  <2> QED BY <1>1, <2>3, OrderStays
<1>3. CASE \E p \in Publishers : Publish(g, p)
  <2>1. /\ task'[g].pc = "running" /\ task'[g].terminal = task[g].terminal
        /\ task'[g].step = task[g].step
    BY <1>0, <1>1, <1>3 DEF Publish, Tasks
  <2>2. CurrentTask'
    BY <1>0, <1>1, <2>1 DEF CurrentTask
  <2> QED BY <1>1, <2>2, OrderStays
<1> QED BY <1>2, <1>3

LEMMA CommitOrder ==
  ASSUME TypeOK, OrderInv, NEW g \in Segments, g = segment, CommitMessage(g)
  PROVE  CurrentTask' /\ LogInOrder' /\ SequenceIsLast'
<1>0. /\ Busy(g) /\ task[g].step = "message" /\ CurrentTask
      /\ task'[g].step = "append" /\ task'[g].pc = task[g].pc /\ task'[g].queue = task[g].queue
      /\ task'[g].terminal = task[g].terminal /\ Busy(g)' = Busy(g)
      /\ UNCHANGED <<log, segment, sequence>> /\ ~Finished(segment)
  BY StepMoves DEF CommitMessage, InStep, Busy, OrderInv, Finished
<1>1. status' = IF task[g].pc = "closing" THEN StatusAfter(task[g].terminal) ELSE status
  BY <1>0, TerminalCloses DEF CommitMessage
<1>2. CurrentTask'
  BY <1>0, <1>1 DEF CurrentTask
<1>3. LogInOrder' /\ SequenceIsLast'
  BY <1>0, OrderStays, StillOpen
<1> QED BY <1>2, <1>3

LEMMA AppendOrder ==
  ASSUME TypeOK, OrderInv, NEW g \in Segments, g = segment, AppendEvent(g)
  PROVE  CurrentTask' /\ LogInOrder' /\ SequenceIsLast'
<1> DEFINE e == Current(g)
           m == Len(log) + 1
<1>0. /\ Busy(g) /\ task[g].step = "append" /\ CurrentTask
      /\ task'[g].step = (IF IsTerminal(e) THEN "record" ELSE "notify")
      /\ task'[g].pc = task[g].pc /\ task'[g].queue = task[g].queue
      /\ task'[g].terminal = task[g].terminal /\ Busy(g)' = Busy(g)
      /\ UNCHANGED <<status, segment, sequence>> /\ ~Finished(segment)
  BY StepMoves DEF AppendEvent, InStep, Busy, OrderInv, Finished
<1>1. IsTerminal(e) <=> task[g].pc = "closing"
  BY <1>0, TerminalCloses
<1>2. e \in Event /\ e.segment = segment /\ log' = Append(log, e)
  BY <1>0, CurrentIsEvent DEF Busy, AppendEvent, Current
<1> HIDE DEF e
<1>3. /\ DOMAIN log' = 1..m /\ m \in Nat /\ log'[m] = e
      /\ DOMAIN log = 1..Len(log) /\ \A i \in 1..Len(log) : log'[i] = log[i]
      /\ \A i \in 1..m : i # m => i \in 1..Len(log)
      /\ segment \in Nat /\ \A i \in DOMAIN log : log[i].segment \in Nat
  BY <1>2, LogShape, AppendProperties DEF Event
<1> HIDE DEF m
<1>4. CurrentTask'
  BY <1>0, <1>1 DEF CurrentTask
<1>5. /\ sequence = 0
      /\ \A i \in 1..Len(log) : ~(IsTerminal(log[i]) /\ log[i].segment = segment)
  BY <1>0, <1>3, StillOpen
<1>6. \A i \in 1..Len(log) : log[i].segment <= segment
  BY <1>3 DEF OrderInv, LogInOrder
<1>7. SegmentsAreClosed'
  <2> SUFFICES ASSUME NEW i \in 1..m, NEW j \in 1..m, i < j, IsTerminal(log'[i])
               PROVE  log'[i].segment < log'[j].segment
    BY <1>3 DEF SegmentsAreClosed, IsTerminal
  <2>1. i \in 1..Len(log) /\ log'[i] = log[i]
    BY <1>3
  <2>2. CASE j = m
    BY <1>2, <1>3, <1>5, <1>6, <2>1, <2>2
  <2>3. CASE j # m
    BY <1>3, <2>1, <2>3 DEF OrderInv, LogInOrder, SegmentsAreClosed
  <2> QED BY <2>2, <2>3
<1>8. ASSUME NEW i \in 1..m, IsTerminal(log'[i]), log'[i].segment = segment
      PROVE  Finished(segment)' /\ status' \in ClosedStatus
  <2>1. i = m
    BY <1>3, <1>5, <1>8
  <2>2. task[g].pc = "closing" /\ IsTerminal(e)
    BY <1>1, <1>3, <1>8, <2>1
  <2>3. Finished(segment)'
    BY <1>0, <2>2 DEF Finished
  <2>4. status = StatusAfter(task[g].terminal) /\ task[g].terminal \in TerminalNames
    BY <1>0, <2>2 DEF CurrentTask
  <2> QED BY <1>0, <2>3, <2>4 DEF StatusAfter, TerminalNames, ClosedStatus
<1>9. \A i \in 1..m : log'[i].segment <= segment
  BY <1>2, <1>3, <1>6
<1>10. LogInOrder'
  BY <1>0, <1>3, <1>7, <1>8, <1>9 DEF LogInOrder, IsTerminal
<1> QED BY <1>0, <1>4, <1>5, <1>10 DEF SequenceIsLast

LEMMA RecordOrder ==
  ASSUME TypeOK, OrderInv, NEW g \in Segments, g = segment, RecordSequence(g)
  PROVE  CurrentTask' /\ LogInOrder' /\ SequenceIsLast'
<1> DEFINE e == Current(g)
<1>0. /\ Busy(g) /\ task[g].step = "record" /\ CurrentTask
      /\ task'[g].step = "notify" /\ task'[g].pc = task[g].pc /\ task'[g].queue = task[g].queue
      /\ task'[g].terminal = task[g].terminal /\ Busy(g)' = Busy(g)
      /\ UNCHANGED <<log, status, segment>>
  BY StepMoves DEF RecordSequence, InStep, Busy, OrderInv
<1>1. task[g].pc = "closing"
  BY <1>0 DEF CurrentTask
<1>2. IsTerminal(e) /\ e.segment = segment
  BY <1>0, <1>1, TerminalCloses DEF Current
<1> HIDE DEF e
<1>3. CurrentTask'
  BY <1>0, <1>1 DEF CurrentTask
<1>4. Finished(segment)'
  BY <1>0, <1>1 DEF Finished
<1>5. LogInOrder'
  BY <1>0, <1>4 DEF OrderInv, LogInOrder, SegmentsAreClosed, IsTerminal
<1>6. PICK i \in DOMAIN log : log[i] = e /\ sequence' = i
  BY DEF RecordSequence, e
<1>7. i = Len(log)
  <2>1. /\ DOMAIN log = 1..Len(log) /\ Len(log) \in Nat /\ segment \in Nat
        /\ \A j \in DOMAIN log : log[j].segment \in Nat
    BY LogShape DEF Event
  <2>2. ~(i < Len(log))
    <3> SUFFICES ASSUME i < Len(log) PROVE FALSE
      OBVIOUS
    <3>1. Len(log) \in DOMAIN log
      BY <2>1
    <3>2. log[i].segment < log[Len(log)].segment
      BY <1>2, <1>6, <3>1 DEF OrderInv, LogInOrder, SegmentsAreClosed
    <3>3. log[Len(log)].segment <= segment
      BY <3>1 DEF OrderInv, LogInOrder
    <3> QED BY <1>2, <1>6, <2>1, <3>1, <3>2, <3>3
  <2> QED BY <2>1, <2>2
<1>8. SequenceIsLast'
  BY <1>0, <1>2, <1>6, <1>7 DEF SequenceIsLast, IsTerminal
<1> QED BY <1>3, <1>5, <1>8

LEMMA LeaveOrder ==
  ASSUME TypeOK, OrderInv, NEW g \in Segments, g = segment,
         Notify(g) \/ PublicationFails(g) \/ Interrupt(g)
  PROVE  CurrentTask' /\ LogInOrder' /\ SequenceIsLast'
<1>0. /\ task \in [Segments -> Tasks] /\ task[g] \in Tasks /\ CurrentTask
      /\ UNCHANGED <<log, segment, sequence>>
      /\ Tail(<<Loop>>) = <<>>
  BY DEF TypeOK, Tasks, OrderInv, Notify, PublicationFails, Interrupt
<1>1. CASE Notify(g)
  <2>1. /\ Busy(g) /\ task[g].step = "notify" /\ UNCHANGED status
        /\ task'[g].queue = Tail(task[g].queue) /\ task'[g].step = "message"
        /\ task'[g].terminal = task[g].terminal
        /\ task'[g].pc = IF IsTerminal(Current(g)) THEN "ended" ELSE task[g].pc
    BY <1>0, <1>1 DEF Notify, InStep, Busy, Tasks
  <2>2. IsTerminal(Current(g)) <=> task[g].pc = "closing"
    BY <1>0, <2>1, TerminalCloses
  <2>3. CASE task[g].pc = "closing"
    <3>1. task'[g].pc = "ended" /\ task'[g].queue = <<>>
      BY <1>0, <2>1, <2>2, <2>3 DEF CurrentTask
    <3>2. CurrentTask' /\ Finished(segment)'
      BY <1>0, <2>1, <3>1 DEF CurrentTask, Busy, Finished
    <3> QED BY <1>0, <2>1, <3>2, OrderStays
  <2>4. CASE task[g].pc # "closing"
    <3>1. task'[g].pc = task[g].pc /\ ~Finished(segment)
      BY <2>1, <2>2, <2>4 DEF Finished
    <3>2. CurrentTask'
      BY <1>0, <2>1, <2>4, <3>1 DEF CurrentTask, Busy
    <3> QED BY <1>0, <2>1, <3>1, <3>2, OrderStays
  <2> QED BY <2>3, <2>4
<1>2. CASE PublicationFails(g)
  <2>1. /\ Busy(g) /\ UNCHANGED status
        /\ task'[g].queue \in {<<>>, Tail(task[g].queue)} /\ task'[g].step = "message"
        /\ task'[g].terminal = task[g].terminal
        /\ task'[g].pc = IF task[g].pc = "ended" THEN "ended" ELSE "interrupt"
    BY <1>0, <1>2 DEF PublicationFails, InStep, Busy, Tasks
  <2>2. CASE task[g].pc = "closing"
    <3>1. task'[g].pc = "interrupt" /\ task'[g].queue = <<>>
      BY <1>0, <2>1, <2>2 DEF CurrentTask
    <3>2. CurrentTask' /\ Finished(segment)'
      BY <1>0, <2>1, <3>1 DEF CurrentTask, Busy, Finished
    <3> QED BY <1>0, <2>1, <3>2, OrderStays
  <2>3. CASE task[g].pc # "closing"
    <3>1. task[g].terminal = "progress" /\ status \in {"running", "failed"} /\ ~Finished(segment)
      BY <1>0, <2>1, <2>3 DEF CurrentTask, Finished, Tasks, TaskPcs
    <3>2. CurrentTask'
      BY <1>0, <2>1, <3>1 DEF CurrentTask, Busy
    <3> QED BY <1>0, <2>1, <3>1, <3>2, OrderStays
  <2> QED BY <2>2, <2>3
<1>3. CASE Interrupt(g)
  <2>1. /\ task[g].pc = "interrupt" /\ status' \in {status, "failed"}
        /\ task'[g].queue = task[g].queue /\ task'[g].step = task[g].step
        /\ task'[g].terminal = task[g].terminal /\ task'[g].pc = "ended"
    BY <1>0, <1>3 DEF Interrupt, Tasks
  <2>2. CurrentTask'
    BY <1>0, <2>1 DEF CurrentTask, Busy
  <2>3. Finished(segment) => Finished(segment)'
    BY <1>0, <2>1 DEF Finished, Busy
  <2> QED BY <1>0, <2>1, <2>2, <2>3, OrderStays DEF ClosedStatus
<1> QED BY <1>1, <1>2, <1>3

LEMMA ResumeOrder ==
  ASSUME InTurn, TypeOK, OrderInv, Resume
  PROVE  OrderInv'
<1>0. /\ segment \in Nat /\ segment \in Segments /\ segment + 1 \in Segments
      /\ task \in [Segments -> Tasks] /\ Segments \subseteq Nat
      /\ segment' = segment + 1 /\ sequence' = 0 /\ status' = "running" /\ log' = log
      /\ task[segment].pc = "ended" /\ status = "confirmation_required"
  BY EventStreamAssumption DEF InTurn, TypeOK, Tasks, Resume, Segments
<1>1. ~Busy(segment)
  BY <1>0 DEF OrderInv, CurrentTask
<1>2. task[segment + 1] = NoTask
  BY <1>0 DEF OrderInv, SegmentsFollow
<1>3. task' = [task EXCEPT ![segment + 1].pc = "running"]
  BY DEF Resume
<1>4. /\ \A h \in Segments : h # segment + 1 => task'[h] = task[h]
      /\ task'[segment + 1].pc = "running" /\ task'[segment + 1].terminal = "progress"
      /\ task'[segment + 1].step = "message"
  BY <1>0, <1>2, <1>3 DEF NoTask
<1>5. SegmentsFollow'
  <2> SUFFICES ASSUME NEW g \in Segments
               PROVE  /\ g < segment + 1 => task'[g].pc = "ended" /\ task'[g].queue = <<>>
                      /\ g > segment + 1 => task'[g] = NoTask
    BY <1>0 DEF SegmentsFollow, Busy
  <2>1. g \in Nat
    BY <1>0
  <2>2. g < segment + 1 => g = segment \/ g < segment
    BY <1>0, <2>1
  <2>3. g > segment + 1 => g > segment
    BY <1>0, <2>1
  <2>4. g # segment + 1 => task'[g] = task[g]
    BY <1>4
  <2> QED BY <1>0, <1>1, <2>1, <2>2, <2>3, <2>4 DEF OrderInv, SegmentsFollow, Busy
<1>6. CurrentTask'
  BY <1>0, <1>4 DEF CurrentTask
<1>7. LogInOrder'
  <2>1. \A i \in DOMAIN log : log[i].segment \in Nat /\ log[i].segment <= segment
    BY LogShape DEF OrderInv, LogInOrder, Event
  <2> QED BY <1>0, <2>1 DEF OrderInv, LogInOrder, SegmentsAreClosed, IsTerminal
<1>8. SequenceIsLast'
  BY <1>0 DEF SequenceIsLast
<1> QED BY <1>5, <1>6, <1>7, <1>8 DEF OrderInv

LEMMA OrderStep == InTurn /\ StreamInv /\ LogInv /\ OrderInv /\ [Next]_vars => OrderInv'
<1> SUFFICES ASSUME InTurn, StreamInv, LogInv, OrderInv, [Next]_vars PROVE OrderInv'
  OBVIOUS
<1>0. TypeOK /\ SegmentsFollow
  BY DEF StreamInv, OrderInv
<1>1. ASSUME NEW g \in Segments, Segment(g) PROVE OrderInv'
  <2>1. g = segment
    BY <1>0, <1>1, OnlyCurrent
  <2>2. SegmentsFollow'
    BY <1>0, <1>1, <2>1, OneTaskMoves, FollowStays
  <2>3. CurrentTask' /\ LogInOrder' /\ SequenceIsLast'
    BY <1>0, <1>1, <2>1, PublishOrder, CommitOrder, AppendOrder, RecordOrder, LeaveOrder DEF Segment
  <2> QED BY <2>2, <2>3 DEF OrderInv
<1>2. CASE UNCHANGED <<log, segment, sequence, status, task>>
  BY <1>2 DEF OrderInv, SegmentsFollow, CurrentTask, LogInOrder, SegmentsAreClosed, SequenceIsLast,
     Finished, Busy, IsTerminal
<1>3. ASSUME NEW s \in Subscribers,
             Subscribe(s) \/ Iterate(s) \/ TimerExpires(s) \/ Disconnect(s)
      PROVE  UNCHANGED <<log, segment, sequence, status, task>>
  BY <1>3 DEF Subscribe, Iterate, ReadState, ListEvents, TakePage, Deliver, Wake,
     TimerExpires, Disconnect
<1>4. CASE Resume
  BY <1>0, <1>4, ResumeOrder
<1> QED BY <1>1, <1>2, <1>3, <1>4 DEF Next, vars

-----------------------------------------------------------------------------
(* Where a subscription ends.                                              *)

\* A subscription that saw a sequence number recorded has not been beyond it, and
\* one that ended has given its client that event.
EndOf(s) ==
  /\ sub[s].pc \in {"list", "listed"} /\ sub[s].seen.sequence # 0 =>
       /\ sub[s].seen.sequence \in DOMAIN log
       /\ sub[s].cursor <= sub[s].seen.sequence
       /\ IsTerminal(log[sub[s].seen.sequence])
  /\ sub[s].pc = "ended" =>
       received[s] # <<>> /\ IsTerminal(received[s][Len(received[s])])

EndInv == \A s \in Subscribers : EndOf(s)

\* Whatever is published, what a subscription saw stays true.
LEMMA EndStays ==
  ASSUME TypeOK, TypeOK', LogExtends, NEW s \in Subscribers, EndOf(s),
         sub'[s].pc = sub[s].pc, sub'[s].seen = sub[s].seen, sub'[s].cursor = sub[s].cursor,
         received'[s] = received[s]
  PROVE  EndOf(s)'
<1>0. log \in Seq(Event) /\ log' \in Seq(Event)
  BY DEF TypeOK
<1>1. \A i \in DOMAIN log : i \in DOMAIN log' /\ log'[i] = log[i]
  <2>1. /\ DOMAIN log = 1..Len(log) /\ Len(log) \in Nat
        /\ DOMAIN log' = 1..Len(log') /\ Len(log') \in Nat
    BY <1>0
  <2> QED BY <2>1 DEF LogExtends
<1> QED BY <1>1 DEF EndOf, IsTerminal

LEMMA EndStep == StreamInv /\ SequenceIsLast /\ EndInv /\ [Next]_vars => EndInv'
<1> SUFFICES ASSUME StreamInv, SequenceIsLast, EndInv, [Next]_vars PROVE EndInv'
  OBVIOUS
<1>0. TypeOK /\ TypeOK' /\ Clients
  BY StreamKept DEF StreamInv
<1>1. ASSUME NEW g \in Segments, Segment(g) PROVE EndInv'
  <2> SUFFICES ASSUME NEW s \in Subscribers PROVE EndOf(s)'
    BY DEF EndInv
  <2>1. LogExtends /\ received' = received
    BY <1>0, <1>1, OneTaskMoves
  <2>2. sub'[s].pc = sub[s].pc /\ sub'[s].seen = sub[s].seen /\ sub'[s].cursor = sub[s].cursor
    <3>1. CASE Notify(g)
      BY <1>0, <3>1 DEF Notify, TypeOK, Subscription
    <3>2. CASE ~Notify(g)
      BY <1>1, <3>2 DEF Segment, Publish, GraphStops, CommitMessage, AppendEvent, RecordSequence,
         PublicationFails, Interrupt
    <3> QED BY <3>1, <3>2
  <2> QED BY <1>0, <2>1, <2>2, EndStays DEF EndInv
<1>2. CASE UNCHANGED <<log, sub, received>>
  BY <1>2 DEF EndInv, EndOf, IsTerminal
<1>3. ASSUME NEW s \in Subscribers,
             Subscribe(s) \/ Iterate(s) \/ TimerExpires(s) \/ Disconnect(s)
      PROVE  EndInv'
  <2>1. /\ log' = log
        /\ \A v \in Subscribers : v # s => sub'[v] = sub[v] /\ received'[v] = received[v]
    BY <1>0, <1>3 DEF Subscribe, Iterate, ReadState, ListEvents, TakePage, Deliver, Wake,
       TimerExpires, Disconnect, TypeOK
  <2>2. \A v \in Subscribers : v # s => EndOf(v)'
    BY <2>1 DEF EndInv, EndOf, IsTerminal
  <2>3. EndOf(s) /\ sub \in [Subscribers -> Subscription] /\ sub[s] \in Subscription /\ Client(s)
    BY <1>0 DEF EndInv, TypeOK, Clients
  <2>4. EndOf(s)'
    <3>1. CASE ReadState(s)
      <4>1. /\ sub'[s].pc = "list" /\ sub'[s].seen.sequence = sequence
            /\ sub'[s].cursor = Len(received[s])
        BY <2>3, <3>1 DEF ReadState, Subscription, Client
      <4>2. Len(received[s]) <= Len(log)
        BY <2>3 DEF Client
      <4> QED BY <2>1, <4>1, <4>2 DEF EndOf, SequenceIsLast, IsTerminal
    <3>2. CASE ListEvents(s)
      <4>1. /\ sub[s].pc = "list" /\ sub'[s].pc = "listed" /\ sub'[s].seen = sub[s].seen
            /\ sub'[s].cursor = sub[s].cursor
        BY <2>3, <3>2 DEF ListEvents, Subscription
      <4> QED BY <2>1, <2>3, <4>1 DEF EndOf, IsTerminal
    <3>3. CASE TakePage(s)
      <4>1. sub[s].pc = "listed" /\ received' = received /\ sub'[s].pc \notin {"list", "listed"}
        BY <2>3, <3>3 DEF TakePage, AfterEmptyPage, Subscription
      <4>2. sub'[s].pc = "ended" =>
              /\ sub[s].seen.sequence # 0 /\ sub[s].cursor # 0
              /\ sub[s].cursor >= sub[s].seen.sequence
        BY <2>3, <3>3 DEF TakePage, AfterEmptyPage, Subscription
      <4> SUFFICES ASSUME sub'[s].pc = "ended"
                   PROVE  received[s] # <<>> /\ IsTerminal(received[s][Len(received[s])])
        BY <4>1 DEF EndOf, IsTerminal
      <4> DEFINE n == Len(received[s])
      <4>3. /\ sub[s].cursor = n /\ n # 0 /\ n \in Nat /\ sub[s].seen.sequence \in Nat
            /\ n >= sub[s].seen.sequence /\ n <= sub[s].seen.sequence
            /\ IsTerminal(log[sub[s].seen.sequence])
        BY <1>0, <2>3, <4>1, <4>2 DEF EndOf, Client, TypeOK, Subscription
      <4>4. sub[s].seen.sequence = n
        BY <4>3
      <4>5. received[s][n] = log[n]
        BY <2>3, <4>3 DEF Client
      <4> QED BY <1>0, <4>3, <4>4, <4>5, EmptySeq DEF TypeOK
    <3>4. CASE Deliver(s)
      <4>1. sub'[s].pc \in {"yield", "state"}
        BY <2>3, <3>4 DEF Deliver, LoopTop, Subscription
      <4> QED BY <4>1 DEF EndOf
    <3>5. CASE Subscribe(s) \/ Wake(s) \/ Disconnect(s)
      <4>1. sub'[s].pc \in {"state", "off"}
        <5>1. CASE Subscribe(s)
          <6> DEFINE x == [Fresh EXCEPT !.cursor = Len(received[s])]
          <6>1. sub'[s] = LoopTop(x)
            BY <2>3, <5>1 DEF Subscribe
          <6> QED BY <6>1 DEF LoopTop, Fresh
        <5>2. CASE Wake(s)
          <6>1. sub'[s] = LoopTop(sub[s])
            BY <2>3, <5>2 DEF Wake
          <6> QED BY <2>3, <6>1 DEF LoopTop, Subscription
        <5>3. CASE Disconnect(s)
          <6>1. sub'[s] = [Fresh EXCEPT !.pc = "off"]
            BY <2>3, <5>3 DEF Disconnect
          <6> QED BY <6>1 DEF Fresh
        <5> QED BY <3>5, <5>1, <5>2, <5>3
      <4> QED BY <4>1 DEF EndOf
    <3>6. CASE TimerExpires(s)
      <4>1. sub'[s].pc \in {"yield", "wait"}
        BY <2>3, <3>6 DEF TimerExpires, Subscription
      <4> QED BY <4>1 DEF EndOf
    <3> QED BY <1>3, <3>1, <3>2, <3>3, <3>4, <3>5, <3>6 DEF Iterate
  <2> QED BY <2>2, <2>4 DEF EndInv
<1>4. CASE Resume
  BY <1>2, <1>4 DEF Resume
<1> QED BY <1>1, <1>2, <1>3, <1>4 DEF Next, vars

LEMMA LogStarts == Init => LogInv /\ OrderInv /\ EndInv
<1> SUFFICES ASSUME Init PROVE LogInv /\ OrderInv /\ EndInv
  OBVIOUS
<1>1. /\ log = <<>> /\ DOMAIN log = {} /\ sequence = 0 /\ segment = 0 /\ status = "running"
      /\ 0 \in Segments /\ Segments \subseteq Nat
      /\ \A g \in Segments : /\ task[g].queue = <<>> /\ task[g].step = "message"
                             /\ task[g].terminal = "progress"
                             /\ \A p \in Publishers : task[g].sent[p] = 0
                             /\ task[g].pc = IF g = 0 THEN "running" ELSE "none"
                             /\ g # 0 => task[g] = NoTask
  BY EventStreamAssumption DEF Init, NoTask, Segments
<1>2. LogInv
  BY <1>1 DEF LogInv, StepOf, SentIsLogged, PublishersKeepOrder
<1>3. OrderInv
  BY <1>1 DEF OrderInv, SegmentsFollow, CurrentTask, LogInOrder, SegmentsAreClosed, SequenceIsLast
<1>4. EndInv
  BY DEF Init, EndInv, EndOf, Fresh
<1> QED BY <1>2, <1>3, <1>4

\* Events have their messages, and a publisher's events come in order with none
\* missing, even when tasks of two segments publish at once.
THEOREM LogHolds == Spec => []LogInv
<1> QED BY StreamHolds, LogStarts, LogStep, PTL DEF Spec

\* A client that resumes in its turn finds a log it can trust: segment after
\* segment, each closed by at most one terminal event, after which the run's row no
\* longer says running.
THEOREM LogTellsTheTruth == InTurn => (Spec => []LogIsTrue)
<1> SUFFICES ASSUME InTurn PROVE Spec => []LogIsTrue
  OBVIOUS
<1>1. StreamInv /\ LogInv /\ OrderInv /\ [Next]_vars => OrderInv'
  BY OrderStep
<1>2. StreamInv /\ LogInv /\ OrderInv => LogIsTrue
  BY DEF StreamInv, LogInv, OrderInv, LogInOrder, LogIsTrue, MessageBeforeEvent,
     TerminalEventMeansClosed
<1> QED BY StreamHolds, LogHolds, LogStarts, <1>1, <1>2, PTL DEF Spec

\* A subscription ends only when it has given its client the terminal event that
\* was recorded, whatever was resumed or appended since it read the run's state.
THEOREM EndsWithTheEnd == InTurn => (Spec => []EndsAtTerminalEvent)
<1> SUFFICES ASSUME InTurn PROVE Spec => []EndsAtTerminalEvent
  OBVIOUS
<1>1. StreamInv /\ LogInv /\ OrderInv /\ [Next]_vars => OrderInv'
  BY OrderStep
<1>2. StreamInv /\ OrderInv /\ EndInv /\ [Next]_vars => EndInv'
  BY EndStep DEF OrderInv
<1>3. EndInv => EndsAtTerminalEvent
  BY DEF EndInv, EndOf, EndsAtTerminalEvent
<1> QED BY StreamHolds, LogHolds, LogStarts, <1>1, <1>2, <1>3, PTL DEF Spec
=============================================================================
