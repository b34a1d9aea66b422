---------------------------- MODULE GraphProofs ----------------------------
(***************************************************************************)
(* Theorems about MainGraph, for every registry, policy and bound.         *)
(*                                                                         *)
(* Most steps of the graph put an update on its way (Updated), and what    *)
(* they must show is that its channels are well formed and faithful.  The  *)
(* channels are treated first, as values: a lemma for each way in which a  *)
(* node changes them.                                                      *)
(*                                                                         *)
(* Then the runs, and with them the calls that may still be open; then the *)
(* history, which an update reaches event by event (HistoryUpdated).       *)
(***************************************************************************)
EXTENDS GraphInvariant, Integers, TLAPS

-----------------------------------------------------------------------------
(* Channels as values *)

\* The types of the channels, one by one.
LEMMA ChannelTypes ==
  ASSUME NEW t, t \in Thread
  PROVE  /\ t.asked \in Seq(Asked) /\ t.answers \in Seq(ToolResults)
         /\ t.pending \in Seq(Calls) /\ t.active \in Active /\ t.completed \in BOOLEAN
         /\ Len(t.asked) \in Nat /\ Len(t.pending) \in Nat /\ Taken(t) \in Int
         /\ t.active.call \in Nat /\ t.active.call <= MaxCalls /\ t.active.confirm \in BOOLEAN
         /\ \A i \in DOMAIN t.answers : t.answers[i].call \in Nat
<1>1. /\ t.asked \in Seq(Asked) /\ t.answers \in Seq(ToolResults)
      /\ t.pending \in Seq(Calls) /\ t.active \in Active /\ t.completed \in BOOLEAN
  BY DEF Thread
<1>2. Len(t.asked) \in Nat /\ Len(t.pending) \in Nat /\ Taken(t) \in Int
  BY <1>1 DEF Taken
<1>3. t.active.call \in 0..MaxCalls /\ t.active.confirm \in BOOLEAN
  BY <1>1 DEF Active
<1>4. \A i \in DOMAIN t.answers : t.answers[i].call \in Nat
  <2> SUFFICES ASSUME NEW i \in DOMAIN t.answers
               PROVE  t.answers[i].call \in Nat
    OBVIOUS
  <2>1. t.answers[i] \in ToolResults
    BY <1>1
  <2>2. t.answers[i].call \in Calls
    BY <2>1 DEF ToolResults
  <2> QED
    BY <2>2, ToolHistoryAssumption DEF Calls
<1> QED
  BY <1>1, <1>2, <1>3, <1>4, ToolHistoryAssumption

\* A function on 1..k is a sequence of length k.
LEMMA FunctionIsSeq ==
  ASSUME NEW S, NEW k \in Nat, NEW f \in [1..k -> S]
  PROVE  f \in Seq(S) /\ Len(f) = k /\ DOMAIN f = 1..k
OBVIOUS

\* A sequence has a length, and its domain.
LEMMA LengthIsNat ==
  ASSUME NEW S, NEW s \in Seq(S)
  PROVE  \E n \in Nat : n = Len(s) /\ DOMAIN s = 1..n
OBVIOUS

\* How many calls were taken, from the two lengths.
LEMMA TakenIs ==
  ASSUME NEW t, NEW n \in Nat, NEW k \in Nat, Len(t.asked) = n, Len(t.pending) = k
  PROVE  Taken(t) = n - k /\ Taken(t) <= n /\ Taken(t) \in Int
BY DEF Taken

\* A record of the five channels is a thread when they have their types.
LEMMA ThreadFrom ==
  ASSUME NEW u,
         u = [asked |-> u.asked, answers |-> u.answers, pending |-> u.pending,
             active |-> u.active, completed |-> u.completed],
         u.asked \in Seq(Asked), u.answers \in Seq(ToolResults), u.pending \in Seq(Calls),
         u.active \in Active, u.completed \in BOOLEAN
  PROVE  u \in Thread
BY DEF Thread

\* No active call is a value of the channel.
LEMMA NoCallIsActive == NoCall \in Active
BY ToolHistoryAssumption DEF NoCall, Active

\* A reset of the run's channels (a new turn, a reply) takes all calls.
LEMMA ResetIsWellFormed ==
  ASSUME NEW t, WellFormed(t), NEW b \in BOOLEAN, NEW u,
         u = [t EXCEPT !.pending = <<>>, !.active = NoCall, !.completed = b]
  PROVE  /\ WellFormed(u) /\ Taken(t) <= Taken(u) /\ Extends(t, u)
         /\ u.answers = t.answers /\ u.asked = t.asked /\ u.pending = <<>> /\ u.active = NoCall
<1>1. t \in Thread /\ PendingAreLast(t)
  BY DEF WellFormed
<1>2. /\ u.asked = t.asked /\ u.answers = t.answers
      /\ u.pending = <<>> /\ u.active = NoCall /\ u.completed = b
      /\ u = [asked |-> u.asked, answers |-> u.answers, pending |-> u.pending,
              active |-> u.active, completed |-> u.completed]
  BY <1>1 DEF Thread
<1>3. u \in Thread
  <2>1. <<>> \in Seq(Calls)
    OBVIOUS
  <2>2. t.asked \in Seq(Asked) /\ t.answers \in Seq(ToolResults)
    BY <1>1, ChannelTypes
  <2> QED
    BY <1>2, <2>1, <2>2, ThreadFrom, NoCallIsActive
<1>4. /\ Len(t.asked) \in Nat /\ Len(t.pending) \in Nat /\ t.answers \in Seq(ToolResults)
      /\ Taken(u) = Len(t.asked) /\ Taken(t) <= Len(t.asked) /\ Taken(t) \in Int
  BY <1>1, <1>2, <1>3 DEF Thread, Taken, PendingAreLast
<1>5. PendingAreLast(u) /\ ActiveIsTaken(u)
  BY <1>1, <1>2, <1>3, <1>4 DEF PendingAreLast, ActiveIsTaken, NoCall
<1>6. AnswersAreTaken(u)
  <2>1. \A i \in DOMAIN t.answers : t.answers[i].call <= Taken(t) /\ t.answers[i].call \in Nat
    BY <1>1, ChannelTypes DEF WellFormed, AnswersAreTaken
  <2> QED
    BY <1>2, <1>3, <1>4, <2>1 DEF AnswersAreTaken, NoCall
<1>7. AnswersIncrease(u) /\ BatchesAreBounded(u)
  BY <1>2, <1>3 DEF WellFormed, AnswersIncrease, BatchesAreBounded
<1> QED
  BY <1>2, <1>3, <1>4, <1>5, <1>6, <1>7 DEF WellFormed, Extends

\* A batch of calls that the model asks for is put behind all the others.
LEMMA BatchIsWellFormed ==
  ASSUME NEW t, WellFormed(t), NEW calls \in Seq(Asked), NEW u,
         calls # <<>>, Len(t.asked) + Len(calls) <= MaxCalls,
         \A i \in DOMAIN calls : calls[i].batch <= Len(t.asked) + 1,
         NEW asked, asked = t.asked \o calls,
         NEW pending, pending = [i \in DOMAIN calls |-> Len(t.asked) + i],
         u = [t EXCEPT !.asked = asked, !.pending = pending, !.active = NoCall]
  PROVE  /\ WellFormed(u) /\ Taken(t) <= Taken(u) /\ Extends(t, u)
         /\ u.answers = t.answers /\ u.active = NoCall
<1>1. t \in Thread /\ PendingAreLast(t)
  BY DEF WellFormed
<1>2. t.asked \in Seq(Asked) /\ t.answers \in Seq(ToolResults) /\ t.pending \in Seq(Calls)
  BY <1>1, ChannelTypes
<1>n. PICK n \in Nat : n = Len(t.asked) /\ DOMAIN t.asked = 1..n
  BY <1>2, LengthIsNat
<1>k. PICK k \in Nat : k = Len(calls) /\ DOMAIN calls = 1..k
  BY LengthIsNat
<1>m. PICK m \in Nat : m = Len(t.pending)
  BY <1>2, LengthIsNat
<1>3. pending \in Seq(Calls) /\ Len(pending) = k /\ DOMAIN pending = 1..k
  <2>1. n + k <= MaxCalls
    BY <1>n, <1>k
  <2>2. ASSUME NEW i \in 1..k PROVE pending[i] \in Calls
    BY <1>n, <1>k, <2>1, ToolHistoryAssumption DEF Calls
  <2>3. pending = [i \in 1..k |-> pending[i]]
    BY <1>k
  <2>4. pending \in [1..k -> Calls]
    BY <2>2, <2>3
  <2> QED
    BY <2>4, FunctionIsSeq
<1>4. /\ u.asked = asked /\ u.answers = t.answers
      /\ u.pending = pending /\ u.active = NoCall /\ u.completed = t.completed
      /\ u = [asked |-> u.asked, answers |-> u.answers, pending |-> u.pending,
              active |-> u.active, completed |-> u.completed]
  BY <1>1 DEF Thread
<1>5. /\ Len(asked) = n + k
      /\ \A i \in 1..k : pending[i] = n + i
      /\ \A c \in 1..n : asked[c] = t.asked[c]
      /\ \A c \in (n + 1)..(n + k) : asked[c] = calls[c - n]
      /\ DOMAIN t.asked = 1..n /\ DOMAIN asked = 1..(n + k)
      /\ DOMAIN calls = 1..k /\ k > 0
      /\ asked \in Seq(Asked)
  BY <1>n, <1>k, <1>2
<1>12. u \in Thread
  BY <1>1, <1>3, <1>4, <1>5, ThreadFrom, ChannelTypes, NoCallIsActive
<1>6. Len(u.asked) = n + k /\ Taken(u) = n /\ Taken(t) <= n /\ Taken(t) \in Int
  <2>1. Taken(t) <= n /\ Taken(t) \in Int
    BY <1>n, <1>m, TakenIs
  <2>2. Len(u.asked) = n + k /\ Len(u.pending) = k
    BY <1>3, <1>4, <1>5
  <2> QED
    <3>2. n + k \in Nat
      OBVIOUS
    <3>1. Taken(u) = (n + k) - k
      BY <2>2, <3>2, TakenIs
    <3> QED
      BY <2>1, <2>2, <3>1
<1>7. PendingAreLast(u) /\ ActiveIsTaken(u)
  <2>1. Len(u.asked) <= MaxCalls
    BY <1>n, <1>k, <1>6
  <2>2. Len(u.pending) <= Len(u.asked)
    BY <1>3, <1>4, <1>6
  <2>3. \A i \in DOMAIN u.pending : u.pending[i] = Taken(u) + i
    BY <1>3, <1>4, <1>5, <1>6
  <2>4. ActiveIsTaken(u)
    BY <1>4, <1>6 DEF ActiveIsTaken, NoCall
  <2> QED
    BY <2>1, <2>2, <2>3, <2>4 DEF PendingAreLast
<1>8. AnswersAreTaken(u)
  <2>1. \A i \in DOMAIN t.answers : t.answers[i].call <= Taken(t) /\ t.answers[i].call \in Nat
    BY <1>1, ChannelTypes DEF WellFormed, AnswersAreTaken
  <2> QED
    BY <1>n, <1>k, <1>2, <1>4, <1>6, <2>1 DEF AnswersAreTaken, NoCall
<1>9. AnswersIncrease(u)
  BY <1>4 DEF WellFormed, AnswersIncrease
<1>10. Extends(t, u)
  BY <1>n, <1>k, <1>2, <1>4, <1>5, <1>6 DEF Extends
<1>11. BatchesAreBounded(u)
  <2> SUFFICES ASSUME NEW c \in DOMAIN u.asked
               PROVE  u.asked[c].batch <= c
    BY DEF BatchesAreBounded
  <2>1. u.asked = asked
    BY <1>4
  <2>2. c \in 1..(n + k)
    BY <2>1, <1>5
  <2>3. c \in Nat /\ c >= 1 /\ c <= n + k
    BY <2>2
  <2>4. CASE c <= n
    <3>1. c \in 1..n
      BY <2>3, <2>4
    <3>2. c \in DOMAIN t.asked /\ u.asked[c] = t.asked[c]
      BY <2>1, <3>1, <1>5
    <3> QED
      BY <3>2 DEF WellFormed, BatchesAreBounded
  <2>5. CASE c > n
    <3>1. c \in (n + 1)..(n + k)
      BY <2>3, <2>5
    <3>2. c - n \in 1..k
      BY <3>1
    <3>3. u.asked[c] = calls[c - n] /\ c - n \in DOMAIN calls
      BY <2>1, <3>1, <3>2, <1>5
    <3>4. calls[c - n] \in Asked
      BY <3>3
    <3>5. calls[c - n].batch \in Nat
      BY <3>4, ToolHistoryAssumption DEF Asked, Batches
    <3>6. calls[c - n].batch <= n + 1
      BY <1>n, <3>3
    <3>7. n + 1 <= c
      BY <2>3, <2>5
    <3>8. calls[c - n].batch <= c
      BY <2>3, <3>5, <3>6, <3>7
    <3> QED
      BY <3>3, <3>8
  <2> QED
    BY <2>3, <2>4, <2>5
<1> QED
  BY <1>4, <1>6, <1>7, <1>8, <1>9, <1>10, <1>11, <1>12 DEF WellFormed

\* The call that is dispatched is the next after all that were taken.
LEMMA DispatchIsWellFormed ==
  ASSUME WellFormed(thread), Len(thread.pending) > 0, NEW u,
         NEW active \in Active, active.call = thread.pending[1],
         NEW pending \in Seq(Calls), Len(pending) = Len(thread.pending) - 1,
         \A i \in 1..Len(pending) : pending[i] = thread.pending[i + 1],
         u = [thread EXCEPT !.active = active, !.pending = pending]
  PROVE  /\ WellFormed(u) /\ Extends(thread, u)
         /\ active.call = Taken(thread) + 1 /\ Taken(u) = Taken(thread) + 1
         /\ active.call \in DOMAIN thread.asked /\ active.call \in Calls
         /\ u.answers = thread.answers /\ u.asked = thread.asked
         /\ u.active = active
<1>c. PICK call : call = active.call
  OBVIOUS
<1>1. thread \in Thread /\ PendingAreLast(thread)
  BY DEF WellFormed
<1>2. /\ thread.asked \in Seq(Asked) /\ thread.answers \in Seq(ToolResults)
      /\ thread.pending \in Seq(Calls)
      /\ Len(thread.asked) \in Nat /\ Len(thread.pending) \in Nat /\ Len(thread.pending) > 0
  BY <1>1 DEF Thread
<1>3. Taken(thread) \in Nat /\ Taken(thread) + 1 <= Len(thread.asked)
  BY <1>1, <1>2 DEF Taken, PendingAreLast
<1>4. call = Taken(thread) + 1
  BY <1>c, <1>1, <1>2 DEF PendingAreLast
<1>5. call \in DOMAIN thread.asked /\ call \in Calls
  <2>1. PICK n \in Nat : n = Len(thread.asked) /\ DOMAIN thread.asked = 1..n
    BY <1>2, LengthIsNat
  <2>2. call \in 1..n
    BY <1>3, <1>4, <2>1
  <2>3. n <= MaxCalls
    BY <1>1, <2>1 DEF PendingAreLast
  <2> QED
    BY <2>1, <2>2, <2>3, ToolHistoryAssumption DEF Calls
<1>6. /\ u.asked = thread.asked /\ u.answers = thread.answers /\ u.pending = pending
      /\ u.active = active /\ u.completed = thread.completed
      /\ u = [asked |-> u.asked, answers |-> u.answers, pending |-> u.pending,
              active |-> u.active, completed |-> u.completed]
  BY <1>1 DEF Thread
<1>7. u \in Thread
  <2>1. pending \in Seq(Calls)
    BY <1>2
  <2> QED
    BY <1>1, <1>2, <1>6, <2>1, ThreadFrom, ChannelTypes
<1>8. Taken(u) = Taken(thread) + 1
  <2>1. Len(pending) = Len(thread.pending) - 1
    BY <1>2
  <2>2. Len(u.asked) = Len(thread.asked) /\ Len(u.pending) = Len(thread.pending) - 1
    BY <1>6, <2>1
  <2> QED
    <3>1. PICK n \in Nat : n = Len(thread.asked)
      BY <1>2
    <3>2. PICK k \in Nat : k = Len(thread.pending)
      BY <1>2
    <3>3. Taken(thread) = n - k
      BY <3>1, <3>2, TakenIs
    <3>4. Len(u.asked) = n /\ Len(u.pending) = k - 1 /\ k - 1 \in Nat
      BY <1>2, <2>2, <3>1, <3>2
    <3>5. Taken(u) = n - (k - 1)
      BY <3>4, TakenIs
    <3> QED
      BY <3>3, <3>5
<1>9. PendingAreLast(u)
  <2>1. /\ Len(pending) = Len(thread.pending) - 1
        /\ \A i \in DOMAIN pending : /\ i \in Nat /\ i + 1 \in DOMAIN thread.pending
                                            /\ pending[i] = thread.pending[i + 1]
    BY <1>2
  <2>2. \A i \in DOMAIN thread.pending : thread.pending[i] = Taken(thread) + i
    BY <1>1 DEF PendingAreLast
  <2>3. \A i \in DOMAIN pending : pending[i] = Taken(thread) + 1 + i
    BY <1>3, <2>1, <2>2
  <2> QED
    BY <1>1, <1>2, <1>6, <1>8, <2>1, <2>3 DEF PendingAreLast
<1>10. ActiveIsTaken(u)
  BY <1>c, <1>3, <1>4, <1>6, <1>8 DEF ActiveIsTaken
<1>11. AnswersAreTaken(u)
  <2>1. \A i \in DOMAIN thread.answers :
          thread.answers[i].call <= Taken(thread) /\ thread.answers[i].call \in Nat
    BY <1>1, ChannelTypes DEF WellFormed, AnswersAreTaken
  <2> QED
    BY <1>c, <1>3, <1>4, <1>6, <1>8, <2>1 DEF AnswersAreTaken
<1>12. AnswersIncrease(u) /\ BatchesAreBounded(u) /\ Extends(thread, u)
  BY <1>2, <1>6 DEF WellFormed, AnswersIncrease, BatchesAreBounded, Extends
<1> QED
  BY <1>c, <1>4, <1>5, <1>6, <1>7, <1>8, <1>9, <1>10, <1>11, <1>12 DEF WellFormed

\* The tool message of the active call comes after all others.
LEMMA AnswerIsWellFormed ==
  ASSUME WellFormed(thread), thread.active.call # 0,
         NEW result \in ToolResults, result.call = thread.active.call, NEW u,
         u = [thread EXCEPT !.answers = Append(@, result), !.active = NoCall]
  PROVE  /\ WellFormed(u) /\ Extends(thread, u) /\ Taken(u) = Taken(thread)
         /\ u.active = NoCall
         /\ u.answers = Append(thread.answers, result)
<1>1. thread \in Thread
  BY DEF WellFormed
<1>2. /\ thread.answers \in Seq(ToolResults) /\ thread.asked \in Seq(Asked)
      /\ thread.pending \in Seq(Calls)
      /\ thread.active \in Active
  BY <1>1 DEF Thread
<1>3. result \in ToolResults
  OBVIOUS
<1>4. /\ u.asked = thread.asked /\ u.answers = Append(thread.answers, result)
      /\ u.pending = thread.pending
      /\ u.active = NoCall
  BY <1>1 DEF Thread
<1>5. u \in Thread
  <2>1. Append(thread.answers, result) \in Seq(ToolResults)
    BY <1>2, <1>3
  <2>2. u = [asked |-> u.asked, answers |-> u.answers, pending |-> u.pending,
                active |-> u.active, completed |-> u.completed]
        /\ u.completed = thread.completed
    BY <1>1 DEF Thread
  <2> QED
    BY <1>1, <1>4, <2>1, <2>2, ThreadFrom, ChannelTypes, NoCallIsActive
<1>6. Taken(u) = Taken(thread) /\ Taken(thread) \in Int
  BY <1>2, <1>4 DEF Taken
<1>7. PendingAreLast(u) /\ BatchesAreBounded(u) /\ Extends(thread, u)
  BY <1>2, <1>4, <1>6 DEF WellFormed, PendingAreLast, BatchesAreBounded, Extends
<1>8. ActiveIsTaken(u)
  <2>1. Taken(thread) >= 0
    BY <1>1, ChannelTypes DEF WellFormed, PendingAreLast, Taken
  <2> QED
    BY <1>4, <1>6, <2>1 DEF ActiveIsTaken, NoCall
<1>9. DOMAIN u.answers = 1..(Len(thread.answers) + 1)
  BY <1>2, <1>3, <1>4
<1>10. /\ \A i \in 1..Len(thread.answers) : u.answers[i] = thread.answers[i]
       /\ u.answers[Len(thread.answers) + 1] = result
  BY <1>2, <1>3, <1>4
<1>11. \A i \in 1..Len(thread.answers) :
         /\ thread.answers[i].call \in Nat
         /\ thread.answers[i].call < result.call /\ thread.answers[i].call <= Taken(thread)
  BY <1>1, <1>2, ChannelTypes DEF WellFormed, AnswersAreTaken
<1>12. result.call <= Taken(thread) /\ result.call \in Nat
  BY <1>3, ToolHistoryAssumption DEF WellFormed, ActiveIsTaken, ToolResults, Calls
<1>13. AnswersAreTaken(u)
  BY <1>2, <1>4, <1>6, <1>9, <1>10, <1>11, <1>12 DEF AnswersAreTaken, NoCall
<1>14. AnswersIncrease(u)
  <2>1. \A i, j \in 1..Len(thread.answers) :
          i < j => thread.answers[i].call < thread.answers[j].call
    BY <1>2 DEF WellFormed, AnswersIncrease
  <2> QED
    BY <1>2, <1>9, <1>10, <1>11, <2>1 DEF AnswersIncrease
<1> QED
  BY <1>4, <1>5, <1>6, <1>7, <1>8, <1>13, <1>14 DEF WellFormed

\* A call that no longer needs confirmation is still the same call.
LEMMA ConfirmedIsWellFormed ==
  ASSUME NEW t, WellFormed(t), NEW u, u = [t EXCEPT !.active.confirm = FALSE]
  PROVE  /\ WellFormed(u) /\ Extends(t, u) /\ Taken(u) = Taken(t)
         /\ u.active = [call |-> t.active.call, confirm |-> FALSE]
         /\ u.asked = t.asked /\ u.answers = t.answers
<1>1. t \in Thread
  BY DEF WellFormed
<1>2. t.active \in Active /\ t.asked \in Seq(Asked)
  BY <1>1 DEF Thread
<1>3. /\ u.asked = t.asked /\ u.answers = t.answers /\ u.pending = t.pending
      /\ u.active = [t.active EXCEPT !.confirm = FALSE]
  BY <1>1 DEF Thread
<1>4. u.active = [call |-> t.active.call, confirm |-> FALSE] /\ u.active \in Active
  <2>1. u.active \in Active
    BY <1>2, <1>3 DEF Active
  <2>2. u.active.call = t.active.call /\ u.active.confirm = FALSE
    BY <1>2, <1>3 DEF Active
  <2> QED
    BY <2>1, <2>2 DEF Active
<1>5. u \in Thread
  BY <1>1, <1>3, <1>4 DEF Thread
<1>6. Taken(u) = Taken(t) /\ Extends(t, u)
  BY <1>1, <1>3, ChannelTypes DEF Extends, Taken
<1>7. WellFormed(u)
  <2>1. u.active.call = t.active.call
    BY <1>4
  <2>2. PendingAreLast(u) /\ ActiveIsTaken(u) /\ AnswersAreTaken(u)
    BY <1>3, <1>6, <2>1 DEF WellFormed, PendingAreLast, ActiveIsTaken, AnswersAreTaken
  <2>3. AnswersIncrease(u) /\ BatchesAreBounded(u)
    BY <1>3 DEF WellFormed, AnswersIncrease, BatchesAreBounded
  <2> QED
    BY <1>5, <2>2, <2>3 DEF WellFormed
<1> QED
  BY <1>3, <1>4, <1>6, <1>7

-----------------------------------------------------------------------------
(* Steps of the stream *)

\* Events name calls.
LEMMA CallsWithAreCalls ==
  ASSUME NEW type, NEW events \in Seq(Event)
  PROVE  CallsWith(type, events) \subseteq Calls
<1> SUFFICES ASSUME NEW i \in DOMAIN events
             PROVE  events[i].call \in Calls
  BY DEF CallsWith
<1>1. events[i] \in Event
  OBVIOUS
<1> QED
  BY <1>1 DEF Event

\* An update that is put on its way.
LEMMA Updated ==
  ASSUME GraphInv, NEW t, NEW events, NEW edge,
         Update(t, events, edge),
         UNCHANGED <<thread, run, row, factVars, historyVars>>,
         pc # "idle", steps' \in 0..RecursionLimit, resume' = "none", latest' \in 0..MaxCalls,
         WellFormed(t), Faithful(t), Extends(thread, t),
         events \in Seq(Event), \A i \in DOMAIN events : events[i].call <= Len(thread.asked),
         edge \in Nodes, Ready(edge, t)'
  PROVE  GraphInv'
<1>1. /\ thread' = thread /\ run' = run /\ row' = row /\ ran' = ran /\ verdict' = verdict
      /\ callRows' = callRows /\ resultRows' = resultRows
      /\ pc' = "publish" /\ draft' = t /\ queue' = events /\ next' = edge
  BY DEF factVars, historyVars, Update
<1>2. TypeOK'
  <2>1. seen' \in [started : SUBSET Calls, answered : SUBSET Calls]
    <3>1. seen \in [started : SUBSET Calls, answered : SUBSET Calls]
      BY DEF GraphInv, TypeOK
    <3>2. /\ CallsWith("action_started", events) \subseteq Calls
          /\ CallsWith("action_result", events) \subseteq Calls
      BY CallsWithAreCalls
    <3> QED
      BY <3>1, <3>2 DEF Update
  <2>2. t \in Thread
    BY DEF WellFormed
  <2> QED
    BY <1>1, <2>1, <2>2 DEF GraphInv, TypeOK, Pcs, StreamPcs, Decisions
<1>3. /\ WellFormed(thread)' /\ WellFormed(draft)' /\ Extends(thread, draft)'
  BY <1>1 DEF GraphInv
<1>4. Faithful(thread)' /\ Faithful(draft)'
  BY <1>1 DEF GraphInv, Faithful, AnswersAreTrue, IsTrue, StartedAreTaken
<1>5. Ready(pc, thread)'
  BY <1>1 DEF Ready
<1>6. Ready(next, draft)'
  BY <1>1 DEF Ready, MayRun
<1>7. DecisionIsTheUsers' /\ QueueIsAsked'
  BY <1>1 DEF DecisionIsTheUsers, QueueIsAsked
<1>8. NothingRunsUnapproved' /\ AsksAboutTheActiveCall'
  BY <1>1 DEF GraphInv, NothingRunsUnapproved, AsksAboutTheActiveCall
<1>9. run' # 0
  BY <1>1 DEF GraphInv
<1> QED
  BY <1>1, <1>2, <1>3, <1>4, <1>5, <1>6, <1>7, <1>8, <1>9 DEF GraphInv

\* A stream that is gone, at its end or before.
LEMMA Gone ==
  ASSUME GraphInv, StreamGone, UNCHANGED <<thread, run, factVars>>,
         row' \in [Runs -> RunRow], callRows' \in SUBSET Batches,
         resultRows' \in [Batches -> ResultRow],
         pc' \in {"broken", "idle", "waiting"},
         pc' # "idle" => run # 0,
         pc' = "waiting" => Ready("waiting", thread) /\ AsksAboutTheActiveCall'
  PROVE  GraphInv'
<1>1. /\ thread' = thread /\ run' = run /\ ran' = ran /\ verdict' = verdict
      /\ draft' = thread /\ queue' = <<>> /\ next' = "memory" /\ resume' = "none"
      /\ steps' = 0 /\ latest' = 0 /\ seen' = [started |-> {}, answered |-> {}]
  BY DEF factVars, StreamGone
<1>2. TypeOK'
  <2>1. pc' \in Pcs /\ next' \in Nodes /\ resume' \in Decisions
    BY <1>1 DEF Pcs, Nodes, Decisions
  <2>2. 0 \in 0..RecursionLimit /\ 0 \in 0..MaxCalls
    BY ToolHistoryAssumption, MainGraphAssumption
  <2>3. seen' \in [started : SUBSET Calls, answered : SUBSET Calls] /\ queue' \in Seq(Event)
    BY <1>1
  <2> QED
    BY <1>1, <2>1, <2>2, <2>3 DEF GraphInv, TypeOK
<1>3. /\ WellFormed(thread)' /\ WellFormed(draft)'
  BY <1>1 DEF GraphInv
<1>4. Extends(thread, draft)'
  <2>1. Len(thread.asked) \in Nat
    BY ChannelTypes DEF GraphInv, TypeOK
  <2> QED
    BY <1>1, <2>1 DEF Extends
<1>5. Faithful(thread)' /\ Faithful(draft)'
  BY <1>1 DEF GraphInv, Faithful, AnswersAreTrue, IsTrue, StartedAreTaken
<1>6. Ready(pc, thread)' /\ pc' # "publish"
  BY <1>1 DEF Ready
<1>7. DecisionIsTheUsers' /\ QueueIsAsked'
  BY <1>1 DEF DecisionIsTheUsers, QueueIsAsked
<1>8. NothingRunsUnapproved' /\ AsksAboutTheActiveCall'
  BY <1>1 DEF GraphInv, NothingRunsUnapproved, AsksAboutTheActiveCall
<1> QED
  BY <1>1, <1>2, <1>3, <1>4, <1>5, <1>6, <1>7, <1>8 DEF GraphInv

\* A stream that breaks off.
LEMMA BrokenOff ==
  ASSUME GraphInv, Breaks, pc # "idle"
  PROVE  GraphInv'
<1>1. /\ row' \in [Runs -> RunRow] /\ callRows' \in SUBSET Batches
      /\ resultRows' \in [Batches -> ResultRow]
  BY DEF GraphInv, TypeOK, Breaks, historyVars
<1> QED
  BY <1>1, Gone DEF Breaks, GraphInv

-----------------------------------------------------------------------------
(* The actions, one by one *)

\* What the invariant says of a thread that is used by the steps below.
LEMMA ThreadFacts ==
  ASSUME GraphInv
  PROVE  /\ WellFormed(thread) /\ Faithful(thread)
         /\ thread.asked \in Seq(Asked) /\ thread.active.call \in Nat /\ Taken(thread) \in Int
         /\ Len(thread.asked) \in Nat /\ Taken(thread) <= Len(thread.asked)
         /\ thread.active.call <= Len(thread.asked) /\ thread.active.call <= MaxCalls
<1>1. WellFormed(thread) /\ Faithful(thread) /\ thread \in Thread
  BY DEF GraphInv, WellFormed
<1>2. PICK n \in Nat : n = Len(thread.asked)
  BY <1>1, ChannelTypes
<1>3. PICK k \in Nat : k = Len(thread.pending)
  BY <1>1, ChannelTypes
<1>4. Taken(thread) <= n
  BY <1>2, <1>3, TakenIs
<1>5. /\ thread.asked \in Seq(Asked) /\ thread.active.call \in Nat /\ Taken(thread) \in Int
      /\ thread.active.call <= MaxCalls
  BY <1>1, ChannelTypes
<1>6. thread.active.call <= Taken(thread)
  BY <1>1 DEF WellFormed, ActiveIsTaken
<1> QED
  BY <1>1, <1>2, <1>4, <1>5, <1>6

\* Channels with the same answers, and no fewer calls taken, are as faithful.
LEMMA StaysFaithful ==
  ASSUME NEW t, NEW u, Faithful(t), t \in Thread, u \in Thread,
         u.answers = t.answers, Taken(t) <= Taken(u)
  PROVE  Faithful(u)
<1>1. AnswersAreTrue(u)
  BY DEF Faithful, AnswersAreTrue
<1>2. Taken(t) \in Int /\ Taken(u) \in Int
  BY ChannelTypes
<1>3. \A c \in Calls : c \in Int
  BY ToolHistoryAssumption DEF Calls
<1>4. StartedAreTaken(u)
  BY <1>2, <1>3 DEF Faithful, StartedAreTaken
<1> QED
  BY <1>1, <1>4 DEF Faithful

\* A node begins within the recursion limit.
LEMMA StepIsCounted ==
  ASSUME GraphInv, NEW node, node \in Nodes, Begins(node)
  PROVE  steps' \in 0..RecursionLimit /\ pc = node /\ pc # "idle"
<1>1. steps \in 0..RecursionLimit
  BY DEF GraphInv, TypeOK
<1> QED
  BY <1>1, MainGraphAssumption DEF Begins, Nodes

\* The memory node changes nothing.
LEMMA MemoryStep == ASSUME GraphInv, Memory PROVE GraphInv'
<1>1. steps' \in 0..RecursionLimit /\ pc = "memory" /\ pc # "idle"
  BY StepIsCounted DEF Memory, Nodes
<1>2. resume' = "none" /\ latest' \in 0..MaxCalls
  BY <1>1 DEF Memory, GraphInv, DecisionIsTheUsers, TypeOK
<1>3. Extends(thread, thread)
  BY ThreadFacts DEF Extends
<1>4. <<>> \in Seq(Event) /\ \A i \in DOMAIN <<>> : <<>>[i].call <= Len(thread.asked)
  OBVIOUS
<1>5. "solve" \in Nodes
  BY DEF Nodes
<1>6. \A t : t = thread => Ready("solve", t)'
  BY DEF Ready
<1> QED
  BY <1>1, <1>2, <1>3, <1>4, <1>5, <1>6, ThreadFacts, Updated DEF Memory

\* The reply ends the queue.
LEMMA ReplyStep == ASSUME GraphInv, Reply PROVE GraphInv'
<1>1. steps' \in 0..RecursionLimit /\ pc = "solve" /\ pc # "idle"
  BY StepIsCounted DEF Reply, Nodes
<1>2. resume' = "none" /\ latest' \in 0..MaxCalls
  BY <1>1, ToolHistoryAssumption DEF Reply, GraphInv, DecisionIsTheUsers
<1>3. PICK t : /\ t = [thread EXCEPT !.pending = <<>>, !.active = NoCall, !.completed = TRUE]
               /\ Update(t, <<>>, AfterSolve(t))
  BY DEF Reply
<1>4. /\ WellFormed(t) /\ Taken(thread) <= Taken(t) /\ Extends(thread, t)
      /\ t.answers = thread.answers /\ t.pending = <<>>
  BY <1>3, ThreadFacts, ResetIsWellFormed
<1>5. Faithful(t)
  BY <1>4, ThreadFacts, StaysFaithful DEF WellFormed
<1>6. <<>> \in Seq(Event) /\ \A i \in DOMAIN <<>> : <<>>[i].call <= Len(thread.asked)
  OBVIOUS
<1>7. AfterSolve(t) = "final" /\ "final" \in Nodes /\ Ready("final", t)'
  BY <1>4 DEF AfterSolve, Nodes, Ready
<1>8. UNCHANGED <<thread, run, row, factVars, historyVars>>
  BY DEF Reply
<1> QED
  BY <1>1, <1>2, <1>3, <1>4, <1>5, <1>6, <1>7, <1>8, Updated

\* The batch of an answer is numbered after the batch of the one before.
LEMMA NextBatchIsBounded ==
  ASSUME GraphInv
  PROVE  NextBatch \in Nat \ {0} /\ NextBatch <= Len(thread.asked) + 1
<1>1. CASE thread.asked = <<>>
  BY <1>1 DEF NextBatch
<1>2. CASE thread.asked # <<>>
  <2>1. PICK n \in Nat : n = Len(thread.asked) /\ DOMAIN thread.asked = 1..n
    BY ThreadFacts, LengthIsNat
  <2>2. n \in DOMAIN thread.asked
    BY <1>2, <2>1, ThreadFacts
  <2>3. thread.asked[n] \in Asked
    BY <2>1, <2>2, ThreadFacts
  <2>4. thread.asked[n].batch \in Nat \ {0}
    BY <2>3, ToolHistoryAssumption DEF Asked, Batches
  <2>5. thread.asked[n].batch <= n
    BY <2>2, ThreadFacts DEF WellFormed, BatchesAreBounded
  <2> QED
    BY <1>2, <2>1, <2>4, <2>5 DEF NextBatch
<1> QED
  BY <1>1, <1>2

\* A batch of calls is numbered after all the others.
LEMMA AskStep == ASSUME GraphInv, Ask PROVE GraphInv'
<1>1. steps' \in 0..RecursionLimit /\ pc = "solve" /\ pc # "idle"
  BY StepIsCounted DEF Ask, Nodes
<1>2. resume' = "none" /\ latest' \in 0..MaxCalls
  BY <1>1, ToolHistoryAssumption DEF Ask, GraphInv, DecisionIsTheUsers
<1>3. PICK k \in 1..MaxBatch : \E names \in [1..k -> Names] : AskFor(names)
  BY DEF Ask
<1>4. PICK names \in [1..k -> Names] : AskFor(names)
  BY <1>3
<1>5. k \in Nat /\ k > 0
  BY <1>3, MainGraphAssumption
<1>6. names \in Seq(Names) /\ Len(names) = k /\ DOMAIN names = 1..k
  BY <1>5, FunctionIsSeq
<1>7. PICK calls : calls = [i \in DOMAIN names |-> [name |-> names[i], batch |-> NextBatch,
                                                    run |-> run]]
  OBVIOUS
<1>8. PICK asked : asked = thread.asked \o calls
  OBVIOUS
<1>9. PICK pending : pending = [i \in DOMAIN calls |-> Len(thread.asked) + i]
  OBVIOUS
<1>10. PICK t : t = [thread EXCEPT !.asked = asked, !.pending = pending, !.active = NoCall]
  OBVIOUS
<1>11. Len(thread.asked) + k <= MaxCalls /\ Update(t, <<>>, AfterSolve(t))
  BY <1>4, <1>6, <1>7, <1>8, <1>9, <1>10 DEF AskFor
<1>12. \A i \in 1..k : calls[i] \in Asked /\ calls[i].batch = NextBatch
  <2>1. NextBatch \in Batches
    BY <1>5, <1>11, NextBatchIsBounded, ThreadFacts, ToolHistoryAssumption DEF Batches
  <2>2. run \in Runs
    BY <1>1, MainGraphAssumption DEF GraphInv, TypeOK, Runs
  <2> QED
    BY <1>6, <1>7, <2>1, <2>2 DEF Asked
<1>13. calls \in Seq(Asked) /\ Len(calls) = k /\ DOMAIN calls = 1..k
  <2>1. calls = [i \in 1..k |-> calls[i]]
    BY <1>6, <1>7
  <2>2. calls \in [1..k -> Asked]
    BY <1>12, <2>1
  <2> QED
    BY <1>5, <2>2, FunctionIsSeq
<1>14. WellFormed(t) /\ Taken(thread) <= Taken(t) /\ Extends(thread, t)
       /\ t.answers = thread.answers /\ t.active = NoCall
  <2>1. calls # <<>>
    BY <1>5, <1>13
  <2>2. \A i \in DOMAIN calls : calls[i].batch <= Len(thread.asked) + 1
    BY <1>12, <1>13, NextBatchIsBounded
  <2> QED
    BY <1>8, <1>9, <1>10, <1>11, <1>13, <2>1, <2>2, ThreadFacts, BatchIsWellFormed
<1>15. Faithful(t)
  BY <1>14, ThreadFacts, StaysFaithful DEF WellFormed
<1>16. <<>> \in Seq(Event) /\ \A i \in DOMAIN <<>> : <<>>[i].call <= Len(thread.asked)
  OBVIOUS
<1>17. AfterSolve(t) \in {"final", "dispatch"}
  BY DEF AfterSolve
<1>18. AfterSolve(t) \in Nodes
  BY <1>17 DEF Nodes
<1>19. \A edge \in {"final", "dispatch"} : Ready(edge, t)'
  BY <1>14 DEF Ready, NoCall
<1>20. UNCHANGED <<thread, run, row, factVars, historyVars>>
  BY DEF Ask
<1> QED
  BY <1>1, <1>2, <1>11, <1>14, <1>15, <1>16, <1>17, <1>18, <1>19, <1>20, Updated

\* The event that announces an active call.
LEMMA StartedIsAsked ==
  ASSUME NEW active, active.call \in Nat, active.call <= MaxCalls, NEW n, active.call <= n
  PROVE  /\ Started(active) \in Seq(Event)
         /\ \A i \in DOMAIN Started(active) : Started(active)[i].call <= n
<1>1. CASE active.call \in {0} \cup seen.started
  BY <1>1 DEF Started
<1>2. CASE active.call \notin {0} \cup seen.started
  <2>1. active.call \in Calls
    BY <1>2, ToolHistoryAssumption DEF Calls
  <2>2. [type |-> "action_started", call |-> active.call] \in Event
    BY <2>1 DEF Event
  <2>3. Started(active) = <<[type |-> "action_started", call |-> active.call]>>
    BY <1>2 DEF Started
  <2> QED
    BY <2>2, <2>3
<1> QED
  BY <1>1, <1>2

\* Without an active call dispatch ends the batch.
LEMMA DispatchNothing ==
  ASSUME GraphInv, Dispatch, thread.active.call # 0 \/ thread.pending = <<>>
  PROVE  GraphInv'
<1>1. steps' \in 0..RecursionLimit /\ pc = "dispatch" /\ pc # "idle"
  BY StepIsCounted DEF Dispatch, Nodes
<1>2. resume' = "none" /\ latest' \in 0..MaxCalls
  BY <1>1 DEF Dispatch, GraphInv, TypeOK, DecisionIsTheUsers
<1>3. AfterDispatch(thread) = "solve" /\ "solve" \in Nodes
  BY <1>1 DEF GraphInv, Ready, AfterDispatch, Nodes
<1>4. Update(thread, <<>>, "solve")
  BY <1>3 DEF Dispatch
<1>5. Extends(thread, thread)
  BY ThreadFacts DEF Extends
<1>6. <<>> \in Seq(Event) /\ \A i \in DOMAIN <<>> : <<>>[i].call <= Len(thread.asked)
  OBVIOUS
<1>7. \A t : t = thread => Ready("solve", t)'
  BY DEF Ready
<1>8. UNCHANGED <<thread, run, row, factVars, historyVars>>
  BY DEF Dispatch
<1> QED
  BY <1>1, <1>2, <1>3, <1>4, <1>5, <1>6, <1>7, <1>8, ThreadFacts, Updated

\* The next pending call becomes the active one: it has not been started yet, and
\* where a user must be asked, the edge leads to confirm.
LEMMA DispatchNext ==
  ASSUME GraphInv, Dispatch, thread.active.call = 0, thread.pending # <<>>
  PROVE  GraphInv'
<1>1. steps' \in 0..RecursionLimit /\ pc = "dispatch" /\ pc # "idle"
  BY StepIsCounted DEF Dispatch, Nodes
<1>2. PICK call : call = Head(thread.pending)
  OBVIOUS
<1>3. PICK b : b = (thread.asked[call].name \in Guarded)
  OBVIOUS
<1>4. PICK pending : pending = Tail(thread.pending)
  OBVIOUS
<1>5. PICK active : active = [call |-> call, confirm |-> b]
  OBVIOUS
<1>6. PICK t : t = [thread EXCEPT !.active = active, !.pending = pending]
  OBVIOUS
<1>7. Update(t, Started(active), AfterDispatch(t)) /\ latest' = call
  BY <1>2, <1>3, <1>4, <1>5, <1>6 DEF Dispatch
<1>8. /\ WellFormed(t) /\ Extends(thread, t)
      /\ call = Taken(thread) + 1 /\ Taken(t) = Taken(thread) + 1
      /\ call \in DOMAIN thread.asked /\ call \in Calls
      /\ t.answers = thread.answers /\ t.asked = thread.asked /\ t.active = active
  <2>1. b \in BOOLEAN
    <3>1. (thread.asked[call].name \in Guarded) \in BOOLEAN
      OBVIOUS
    <3> QED
      BY <1>3, <3>1
  <2>2. WellFormed(thread) /\ thread.pending \in Seq(Calls)
    BY ChannelTypes DEF GraphInv, WellFormed
  <2>3. call \in Calls
    BY <1>2, <2>2
  <2>4. active.call = call /\ active \in Active
    BY <1>5, <2>1, <2>3, ToolHistoryAssumption DEF Active, Calls
  <2> QED
    <3>1. Len(thread.pending) > 0 /\ active.call = thread.pending[1]
      BY <1>2, <2>2, <2>4
    <3>2. /\ pending \in Seq(Calls) /\ Len(pending) = Len(thread.pending) - 1
          /\ \A i \in 1..Len(pending) : pending[i] = thread.pending[i + 1]
      BY <1>4, <2>2
    <3> QED
      BY <1>6, <2>2, <2>4, <3>1, <3>2, DispatchIsWellFormed
<1>9. Faithful(t)
  <2>1. Taken(thread) <= Taken(t)
    BY <1>8, ThreadFacts
  <2> QED
    BY <1>8, <2>1, ThreadFacts, StaysFaithful DEF WellFormed
<1>10. call \in 1..MaxCalls /\ call <= Len(thread.asked)
  BY <1>8, ThreadFacts DEF Calls
<1>11. resume' = "none" /\ latest' \in 0..MaxCalls
  BY <1>1, <1>7, <1>10, ToolHistoryAssumption DEF Dispatch, GraphInv, DecisionIsTheUsers
<1>12. /\ Started(active) \in Seq(Event)
       /\ \A i \in DOMAIN Started(active) : Started(active)[i].call <= Len(thread.asked)
  BY <1>5, <1>10, ToolHistoryAssumption, StartedIsAsked
<1>13. ran'[call] = 0 /\ call # 0
  <2>1. call > Taken(thread)
    BY <1>8, ThreadFacts
  <2>2. ran' = ran
    BY DEF Dispatch, factVars
  <2> QED
    BY <1>8, <1>10, <2>1, <2>2, ThreadFacts, ToolHistoryAssumption DEF Faithful, StartedAreTaken
<1>14. CASE b
  <2>1. AfterDispatch(t) = "confirm"
    BY <1>5, <1>8, <1>13, <1>14 DEF AfterDispatch, ActiveTarget
  <2>2. Ready("confirm", t)'
    BY <1>5, <1>7, <1>8, <1>13, <1>14 DEF Ready
  <2>3. "confirm" \in Nodes
    BY DEF Nodes
  <2>4. UNCHANGED <<thread, run, row, factVars, historyVars>>
    BY DEF Dispatch
  <2> QED
    BY <1>1, <1>7, <1>8, <1>9, <1>11, <1>12, <2>1, <2>2, <2>3, <2>4, Updated
<1>15. CASE ~b
  <2>1. AfterDispatch(t) \in {"tool", "subagent"}
    BY <1>5, <1>8, <1>13, <1>15 DEF AfterDispatch, ActiveTarget
  <2>2. MayRun(t)'
    <3>1. thread.asked[call].name \notin Guarded
      BY <1>3, <1>15, Zenon
    <3>2. t.asked[t.active.call] = thread.asked[call]
      BY <1>5, <1>8
    <3> QED
      BY <3>1, <3>2 DEF MayRun
  <2>3. \A edge \in {"tool", "subagent"} : Ready(edge, t)'
    BY <1>5, <1>8, <1>13, <2>2 DEF Ready
  <2>4. AfterDispatch(t) \in Nodes
    BY <2>1 DEF Nodes
  <2>5. UNCHANGED <<thread, run, row, factVars, historyVars>>
    BY DEF Dispatch
  <2> QED
    BY <1>1, <1>7, <1>8, <1>9, <1>11, <1>12, <2>1, <2>3, <2>4, <2>5, Updated
<1> QED
  BY <1>3, <1>14, <1>15, Zenon

\* The event that announces a result.
LEMMA AnsweredIsAsked ==
  ASSUME NEW result \in ToolResults, NEW n, result.call <= n
  PROVE  /\ Answered(result) \in Seq(Event)
         /\ \A i \in DOMAIN Answered(result) : Answered(result)[i].call <= n
<1>1. CASE result.call \in seen.answered
  BY <1>1 DEF Answered
<1>2. CASE result.call \notin seen.answered
  <2>1. PICK e : e = [type |-> "action_result", call |-> result.call, status |-> result.status]
    OBVIOUS
  <2>2. e \in Event /\ e.call <= n
    BY <2>1 DEF Event, ToolResults
  <2>3. Answered(result) = <<e>>
    BY <1>2, <2>1 DEF Answered
  <2> QED
    BY <2>2, <2>3
<1> QED
  BY <1>1, <1>2

\* A true result of the active call is put on its way.
LEMMA Result ==
  ASSUME GraphInv, NEW status \in ActionStatus, ActionResultUpdate(status),
         UNCHANGED <<thread, run, row, factVars, historyVars>>,
         pc # "idle", steps' \in 0..RecursionLimit, resume' = "none",
         thread.active.call # 0,
         IsTrue([call |-> thread.active.call, status |-> status])
  PROVE  GraphInv'
<1>1. PICK result : result = [call |-> thread.active.call, status |-> status]
  OBVIOUS
<1>2. PICK t : t = [thread EXCEPT !.answers = Append(@, result), !.active = NoCall]
  OBVIOUS
<1>3. Update(t, Answered(result), "dispatch") /\ latest' = 0
  BY <1>1, <1>2 DEF ActionResultUpdate
<1>5. result \in ToolResults /\ result.call <= Len(thread.asked)
  BY <1>1, ThreadFacts, ToolHistoryAssumption DEF ToolResults, Calls
<1>4. /\ WellFormed(t) /\ Extends(thread, t) /\ Taken(t) = Taken(thread)
      /\ t.active = NoCall /\ t.answers = Append(thread.answers, result)
  BY <1>1, <1>2, <1>5, ThreadFacts, AnswerIsWellFormed
<1>6. Faithful(t)
  <2>1. StartedAreTaken(t)
    BY <1>4, ThreadFacts DEF Faithful, StartedAreTaken
  <2>2. thread.answers \in Seq(ToolResults)
    BY ChannelTypes DEF GraphInv, TypeOK
  <2>3. PICK n \in Nat : n = Len(thread.answers) /\ DOMAIN thread.answers = 1..n
    BY <2>2, LengthIsNat
  <2>4. /\ DOMAIN t.answers = 1..(n + 1) /\ t.answers[n + 1] = result
        /\ \A i \in 1..n : t.answers[i] = thread.answers[i]
    BY <1>4, <1>5, <2>2, <2>3
  <2>5. IsTrue(result)
    BY <1>1
  <2>6. \A i \in 1..n : IsTrue(thread.answers[i])
    BY <2>3, ThreadFacts DEF Faithful, AnswersAreTrue
  <2>7. ASSUME NEW i \in 1..(n + 1) PROVE IsTrue(t.answers[i])
    <3>1. CASE i = n + 1
      BY <2>4, <2>5, <3>1
    <3>2. CASE i # n + 1
      <4>1. i \in 1..n
        BY <3>2
      <4> QED
        BY <2>4, <2>6, <4>1
    <3> QED
      BY <3>1, <3>2
  <2> QED
    BY <2>1, <2>4, <2>7 DEF Faithful, AnswersAreTrue
<1>7. /\ Answered(result) \in Seq(Event)
      /\ \A i \in DOMAIN Answered(result) : Answered(result)[i].call <= Len(thread.asked)
  BY <1>5, AnsweredIsAsked
<1>8. Ready("dispatch", t)' /\ "dispatch" \in Nodes /\ latest' \in 0..MaxCalls
  BY <1>3, <1>4, ToolHistoryAssumption DEF Ready, NoCall, Nodes
<1> QED
  BY <1>3, <1>4, <1>6, <1>7, <1>8, Updated

\* The decision is the user's, and it is about the active call.
LEMMA ApproveStep == ASSUME GraphInv, Approve PROVE GraphInv'
<1>1. steps' \in 0..RecursionLimit /\ pc = "confirm" /\ pc # "idle"
  BY StepIsCounted DEF Approve, Nodes
<1>2. PICK t : t = [thread EXCEPT !.active.confirm = FALSE]
  OBVIOUS
<1>3. /\ Update(t, Started(t.active), AfterConfirm(t)) /\ latest' = t.active.call
      /\ resume = "approved" /\ resume' = "none"
  BY <1>2 DEF Approve
<1>4. /\ WellFormed(t) /\ Extends(thread, t) /\ Taken(t) = Taken(thread)
      /\ t.active = [call |-> thread.active.call, confirm |-> FALSE]
      /\ t.asked = thread.asked /\ t.answers = thread.answers
  BY <1>2, ThreadFacts, ConfirmedIsWellFormed
<1>5. Faithful(t)
  BY <1>4, ThreadFacts DEF Faithful, AnswersAreTrue, StartedAreTaken
<1>6. /\ t.active.call = thread.active.call /\ t.active.call # 0 /\ ran[t.active.call] = 0
      /\ ~t.active.confirm /\ verdict[t.active.call] = "approved"
  BY <1>1, <1>3, <1>4 DEF GraphInv, Ready, DecisionIsTheUsers
<1>7. /\ Started(t.active) \in Seq(Event)
      /\ \A i \in DOMAIN Started(t.active) : Started(t.active)[i].call <= Len(thread.asked)
      /\ latest' \in 0..MaxCalls
  BY <1>3, <1>6, ThreadFacts, StartedIsAsked, ToolHistoryAssumption
<1>8. AfterConfirm(t) \in {"tool", "subagent"}
  BY <1>6 DEF AfterConfirm, ActiveTarget
<1>9. UNCHANGED <<thread, run, row, factVars, historyVars>>
  BY DEF Approve
<1>10. \A edge \in {"tool", "subagent"} : Ready(edge, t)'
  BY <1>6, <1>9 DEF Ready, MayRun, factVars
<1>11. AfterConfirm(t) \in Nodes
  BY <1>8 DEF Nodes
<1> QED
  BY <1>1, <1>3, <1>4, <1>5, <1>7, <1>8, <1>9, <1>10, <1>11, Updated

\* A rejected call has not been started.
LEMMA RejectStep == ASSUME GraphInv, Reject PROVE GraphInv'
<1>1. steps' \in 0..RecursionLimit /\ pc = "confirm" /\ pc # "idle"
  BY StepIsCounted DEF Reject, Nodes
<1>2. /\ ActionResultUpdate("rejected") /\ resume = "rejected" /\ resume' = "none"
      /\ UNCHANGED <<thread, run, row, factVars, historyVars>>
  BY DEF Reject
<1>3. /\ thread.active.call # 0 /\ ran[thread.active.call] = 0
      /\ verdict[thread.active.call] = "rejected"
  BY <1>1, <1>2 DEF GraphInv, Ready, DecisionIsTheUsers
<1>4. IsTrue([call |-> thread.active.call, status |-> "rejected"])
  BY <1>3 DEF IsTrue
<1>5. "rejected" \in ActionStatus
  BY DEF ActionStatus
<1> QED
  BY <1>1, <1>2, <1>3, <1>4, <1>5, Result

\* A refusal says "error", of which nothing has to be true.
LEMMA RefuseToolStep == ASSUME GraphInv, RefuseTool PROVE GraphInv'
<1>1. steps' \in 0..RecursionLimit /\ pc = "tool" /\ pc # "idle"
  BY StepIsCounted DEF RefuseTool, Nodes
<1>2. /\ ActionResultUpdate("error") /\ UNCHANGED <<thread, run, row, factVars, historyVars>>
      /\ resume' = "none"
  BY <1>1 DEF RefuseTool, GraphInv, DecisionIsTheUsers
<1>3. thread.active.call # 0
  BY <1>1 DEF GraphInv, Ready
<1>4. IsTrue([call |-> thread.active.call, status |-> "error"]) /\ "error" \in ActionStatus
  BY DEF IsTrue, ActionStatus
<1> QED
  BY <1>1, <1>2, <1>3, <1>4, Result

\* A tool or a child that was started ends, in whatever way.
LEMMA ReturnStep ==
  ASSUME GraphInv, ToolReturns \/ ToolTimesOut \/ ChildReturns \/ ChildTimesOut
  PROVE  GraphInv'
<1>1. pc \in {"calling", "child"} /\ pc # "idle"
  BY DEF ToolReturns, ToolTimesOut, ChildReturns, ChildTimesOut
<1>2. /\ UNCHANGED <<thread, run, row, factVars, historyVars>>
      /\ steps' = steps /\ resume' = resume
  BY DEF ToolReturns, ToolTimesOut, ChildReturns, ChildTimesOut
<1>3. PICK status \in {"success", "partial", "error"} : ActionResultUpdate(status)
  BY DEF ToolReturns, ToolTimesOut, ChildReturns, ChildTimesOut
<1>4. steps' \in 0..RecursionLimit /\ resume' = "none"
  BY <1>1, <1>2 DEF GraphInv, TypeOK, DecisionIsTheUsers
<1>5. thread.active.call # 0 /\ ran[thread.active.call] = 1
  BY <1>1 DEF GraphInv, Ready
<1>6. IsTrue([call |-> thread.active.call, status |-> status])
  BY <1>3, <1>5 DEF IsTrue
<1>7. status \in ActionStatus
  BY <1>3 DEF ActionStatus
<1> QED
  BY <1>1, <1>2, <1>3, <1>4, <1>5, <1>6, <1>7, Result

\* The active call has no answer yet.
LEMMA AnsweredIsNotActive ==
  ASSUME GraphInv, thread.active.call # 0, NEW i \in DOMAIN thread.answers
  PROVE  thread.answers[i].call \in Calls /\ thread.answers[i].call # thread.active.call
<1>1. thread.answers \in Seq(ToolResults) /\ thread.active.call \in Nat
  BY ChannelTypes DEF GraphInv, TypeOK
<1>2. thread.answers[i] \in ToolResults
  BY <1>1
<1>3. thread.answers[i].call < thread.active.call
  BY ThreadFacts DEF WellFormed, AnswersAreTaken
<1>4. thread.answers[i].call \in Calls
  BY <1>2 DEF ToolResults
<1>5. thread.answers[i].call \in Nat
  BY <1>4, ToolHistoryAssumption DEF Calls
<1> QED
  BY <1>1, <1>3, <1>4, <1>5

\* A tool or a child is started: the active call had not been, it may be, and no
\* answer is about it.
LEMMA CallStep ==
  ASSUME GraphInv, CallTool \/ CallSubagent
  PROVE  GraphInv'
<1> DEFINE c == thread.active.call
<1>1. /\ steps' \in 0..RecursionLimit /\ pc \in {"tool", "subagent"}
      /\ pc' \in {"calling", "child"}
  <2>1. steps \in 0..RecursionLimit
    BY DEF GraphInv, TypeOK
  <2> QED
    BY <2>1, MainGraphAssumption DEF CallTool, CallSubagent, Begins
<1>2. /\ ran' = [ran EXCEPT ![c] = @ + 1] /\ verdict' = verdict
      /\ thread' = thread /\ draft' = draft /\ next' = next /\ queue' = queue /\ resume' = resume
      /\ seen' = seen /\ latest' = latest /\ run' = run /\ row' = row
      /\ callRows' = callRows /\ resultRows' = resultRows
  BY DEF CallTool, CallSubagent, historyVars
<1>3. c # 0 /\ ran[c] = 0 /\ MayRun(thread)
  BY <1>1 DEF GraphInv, Ready
<1>4. ran \in [Calls -> Nat] /\ c \in Calls /\ c \in Nat /\ c <= Taken(thread)
  BY <1>3, ThreadFacts, ToolHistoryAssumption
  DEF GraphInv, TypeOK, Calls, WellFormed, ActiveIsTaken
<1>5. /\ ran' \in [Calls -> Nat] /\ ran'[c] = 1
      /\ \A d \in Calls : d # c => ran'[d] = ran[d]
  BY <1>2, <1>3, <1>4
<1> HIDE DEF c
<1>6. draft = thread
  BY <1>1 DEF GraphInv
<1>7. TypeOK'
  BY <1>1, <1>2, <1>5 DEF GraphInv, TypeOK, Pcs, StreamPcs
<1>8. WellFormed(thread)' /\ WellFormed(draft)' /\ Extends(thread, draft)'
  BY <1>2 DEF GraphInv
<1>9. AnswersAreTrue(thread)'
  <2>1. \A i \in DOMAIN thread.answers :
          thread.answers[i].call \in Calls /\ thread.answers[i].call # c
    BY <1>3, AnsweredIsNotActive DEF c
  <2>2. \A i \in DOMAIN thread.answers : ran'[thread.answers[i].call] = ran[thread.answers[i].call]
    BY <1>5, <2>1
  <2>3. \A i \in DOMAIN thread.answers : IsTrue(thread.answers[i])
    BY ThreadFacts DEF Faithful, AnswersAreTrue
  <2> QED
    BY <1>2, <2>2, <2>3 DEF AnswersAreTrue, IsTrue
<1>10. StartedAreTaken(thread)'
  <2>1. \A d \in Calls : d > Taken(thread) => d # c
    BY <1>4, ThreadFacts, ToolHistoryAssumption DEF Calls
  <2>2. \A d \in Calls : d > Taken(thread) => ran'[d] = 0
    BY <1>5, <2>1, ThreadFacts DEF Faithful, StartedAreTaken
  <2> QED
    BY <1>2, <2>2 DEF StartedAreTaken
<1>11. Faithful(thread)' /\ Faithful(draft)'
  BY <1>2, <1>6, <1>9, <1>10 DEF Faithful, AnswersAreTrue, IsTrue, StartedAreTaken
<1>12. Ready(pc, thread)'
  BY <1>1, <1>2, <1>3, <1>5 DEF Ready, c
<1>13. NothingRunsUnapproved'
  <2>1. ASSUME NEW d \in Calls
        PROVE  /\ ran'[d] <= 1
               /\ ran'[d] = 1 /\ thread.asked[d].name \in Guarded => verdict[d] = "approved"
    <3>1. CASE d = c
      BY <1>3, <1>5, <3>1 DEF MayRun, c
    <3>2. CASE d # c
      BY <1>5, <3>2 DEF GraphInv, NothingRunsUnapproved
    <3> QED
      BY <3>1, <3>2
  <2> QED
    BY <1>2, <2>1 DEF NothingRunsUnapproved
<1>14. DecisionIsTheUsers' /\ QueueIsAsked' /\ AsksAboutTheActiveCall' /\ run' # 0
  BY <1>1, <1>2 DEF GraphInv, DecisionIsTheUsers, QueueIsAsked, AsksAboutTheActiveCall
<1> QED
  BY <1>1, <1>2, <1>6, <1>7, <1>8, <1>11, <1>12, <1>13, <1>14 DEF GraphInv

\* The run ends: its row and the history keep their types.
LEMMA EndStep ==
  ASSUME GraphInv, NEW status, status \in {"SUCCEEDED", "FAILED"}, EndRun(status)
  PROVE  GraphInv'
<1>1. row' \in [Runs -> RunRow]
  <2>1. row \in [Runs -> RunRow]
    BY DEF GraphInv, TypeOK
  <2>2. [status |-> status, pending |-> 0] \in RunRow
    BY ToolHistoryAssumption DEF RunRow
  <2> QED
    BY <2>1, <2>2 DEF EndRun
<1>2. callRows' \in SUBSET Batches /\ resultRows' \in [Batches -> ResultRow]
  <2>1. callRows \in SUBSET Batches /\ resultRows \in [Batches -> ResultRow]
    BY DEF GraphInv, TypeOK
  <2>2. CASE UNCHANGED historyVars
    BY <2>1, <2>2 DEF historyVars
  <2>3. CASE FailIncompleteToolResults(BatchesOf(run))
    <3>1. \A b \in Batches : [resultRows[b] EXCEPT !.status = "FAILED"] \in ResultRow
      BY <2>1 DEF ResultRow
    <3> QED
      BY <2>1, <2>3, <3>1 DEF FailIncompleteToolResults
  <2> QED
    BY <2>2, <2>3 DEF EndRun
<1>3. StreamGone /\ UNCHANGED <<thread, run, factVars>> /\ pc' = "idle"
  BY DEF EndRun
<1> QED
  BY <1>1, <1>2, <1>3, Gone

\* The run waits for the decision on its active call.
LEMMA InterruptStep == ASSUME GraphInv, Interrupt PROVE GraphInv'
<1>1. /\ pc = "confirm" /\ resume = "none" /\ StreamGone
      /\ UNCHANGED <<thread, run, factVars, historyVars>>
  BY DEF Interrupt
<1>2. /\ latest = thread.active.call /\ latest # 0 /\ thread.active.confirm
      /\ ran[thread.active.call] = 0 /\ run # 0
  BY <1>1 DEF GraphInv, Ready
<1>3. /\ pc' = "waiting"
      /\ row' = [row EXCEPT ![run] = [status |-> "WAITING_INPUT", pending |-> latest]]
  BY <1>2 DEF Interrupt, PendingAction
<1>4. row \in [Runs -> RunRow] /\ run \in Runs /\ latest \in 0..MaxCalls
  BY <1>2, MainGraphAssumption DEF GraphInv, TypeOK, Runs
<1>5. row' \in [Runs -> RunRow]
  <2>1. [status |-> "WAITING_INPUT", pending |-> latest] \in RunRow
    BY <1>4 DEF RunRow
  <2> QED
    BY <1>3, <1>4, <2>1
<1>6. AsksAboutTheActiveCall'
  BY <1>1, <1>2, <1>3, <1>4 DEF AsksAboutTheActiveCall
<1>7. Ready("waiting", thread)
  BY <1>2 DEF Ready
<1>8. callRows' \in SUBSET Batches /\ resultRows' \in [Batches -> ResultRow]
  BY <1>1 DEF GraphInv, TypeOK, historyVars
<1> QED
  BY <1>1, <1>2, <1>3, <1>5, <1>6, <1>7, <1>8, Gone

\* A decision changes what the user said of the active call, and of no other.
LEMMA ResumeStep ==
  ASSUME GraphInv, NEW decision \in {"approved", "rejected"}, Resume(decision)
  PROVE  GraphInv'
<1> DEFINE c == thread.active.call
<1>1. /\ pc = "waiting" /\ row[run].pending = c /\ pc' = "confirm" /\ resume' = decision
      /\ verdict' = [verdict EXCEPT ![row[run].pending] = decision]
      /\ row' = [row EXCEPT ![run] = [status |-> "RUNNING", pending |-> 0]]
      /\ thread' = thread /\ draft' = draft /\ next' = next /\ queue' = queue
      /\ steps' = steps /\ seen' = seen /\ latest' = latest /\ run' = run /\ ran' = ran
      /\ callRows' = callRows /\ resultRows' = resultRows
  BY DEF Resume, historyVars
<1>2. draft = thread /\ c # 0 /\ ran[c] = 0 /\ thread.active.confirm /\ run # 0
  BY <1>1 DEF GraphInv, Ready
<1>3. verdict \in [Calls -> Decisions] /\ c \in Calls /\ c \in Nat
  BY <1>2, ThreadFacts, ToolHistoryAssumption DEF GraphInv, TypeOK, Calls
<1>4. /\ verdict' \in [Calls -> Decisions] /\ verdict'[c] = decision
      /\ \A d \in Calls : d # c => verdict'[d] = verdict[d]
  BY <1>1, <1>3 DEF Decisions
<1>5. TypeOK'
  <2>1. [status |-> "RUNNING", pending |-> 0] \in RunRow
    BY ToolHistoryAssumption DEF RunRow
  <2>2. row' \in [Runs -> RunRow]
    BY <1>1, <2>1 DEF GraphInv, TypeOK
  <2> HIDE DEF c
  <2> QED
    BY <1>1, <1>4, <2>2 DEF GraphInv, TypeOK, Pcs, StreamPcs, Nodes, Decisions
<1> HIDE DEF c
<1>6. WellFormed(thread)' /\ WellFormed(draft)' /\ Extends(thread, draft)'
  BY <1>1 DEF GraphInv
<1>7. AnswersAreTrue(thread)'
  <2>1. \A i \in DOMAIN thread.answers :
          thread.answers[i].call \in Calls /\ thread.answers[i].call # c
    BY <1>2, AnsweredIsNotActive DEF c
  <2>2. \A i \in DOMAIN thread.answers :
          verdict'[thread.answers[i].call] = verdict[thread.answers[i].call]
    BY <1>4, <2>1
  <2>3. \A i \in DOMAIN thread.answers : IsTrue(thread.answers[i])
    BY ThreadFacts DEF Faithful, AnswersAreTrue
  <2> QED
    BY <1>1, <2>2, <2>3 DEF AnswersAreTrue, IsTrue
<1>8. StartedAreTaken(thread)'
  BY <1>1, ThreadFacts DEF Faithful, StartedAreTaken
<1>9. Faithful(thread)' /\ Faithful(draft)'
  BY <1>1, <1>2, <1>7, <1>8 DEF Faithful, AnswersAreTrue, IsTrue, StartedAreTaken
<1>10. Ready(pc, thread)'
  BY <1>1, <1>2 DEF Ready, c
<1>11. DecisionIsTheUsers' /\ QueueIsAsked' /\ AsksAboutTheActiveCall'
  BY <1>1, <1>4 DEF GraphInv, DecisionIsTheUsers, QueueIsAsked, AsksAboutTheActiveCall, c
<1>12. NothingRunsUnapproved'
  <2>1. ASSUME NEW d \in Calls
        PROVE  /\ ran[d] <= 1
               /\ ran[d] = 1 /\ thread.asked[d].name \in Guarded => verdict'[d] = "approved"
    <3>1. CASE d = c
      BY <1>2, <3>1
    <3>2. CASE d # c
      BY <1>4, <3>2 DEF GraphInv, NothingRunsUnapproved
    <3> QED
      BY <3>1, <3>2
  <2> QED
    BY <1>1, <2>1 DEF NothingRunsUnapproved
<1> QED
  BY <1>1, <1>2, <1>5, <1>6, <1>9, <1>10, <1>11, <1>12 DEF GraphInv

\* A turn begins: the channels of the run are reset, the messages stay.
LEMMA StartTurnStep == ASSUME GraphInv, StartTurn PROVE GraphInv'
<1>1. /\ pc = "idle" /\ pc' = "memory" /\ run < MaxRuns /\ run' = run + 1
      /\ row' = [row EXCEPT ![run + 1].status = "RUNNING"]
      /\ draft' = thread' /\ next' = next /\ queue' = queue /\ steps' = steps /\ resume' = resume
      /\ seen' = seen /\ latest' = latest /\ ran' = ran /\ verdict' = verdict
      /\ callRows' = callRows /\ resultRows' = resultRows
  BY DEF StartTurn, factVars, historyVars
<1>2. thread' = [thread EXCEPT !.pending = <<>>, !.active = NoCall, !.completed = FALSE]
  BY DEF StartTurn
<1>3. /\ WellFormed(thread') /\ Taken(thread) <= Taken(thread')
      /\ thread'.answers = thread.answers /\ thread'.asked = thread.asked
  BY <1>2, ThreadFacts, ResetIsWellFormed
<1>4. run' \in 0..MaxRuns /\ run' # 0 /\ run' \in Runs
  BY <1>1, MainGraphAssumption DEF GraphInv, TypeOK, Runs
<1>5. row' \in [Runs -> RunRow]
  <2>1. row \in [Runs -> RunRow]
    BY DEF GraphInv, TypeOK
  <2>2. [row[run + 1] EXCEPT !.status = "RUNNING"] \in RunRow
    BY <1>1, <1>4, <2>1 DEF RunRow
  <2> QED
    BY <1>1, <2>1, <2>2
<1>6. TypeOK'
  <2>1. thread' \in Thread
    BY <1>3 DEF WellFormed
  <2> QED
    BY <1>1, <1>4, <1>5, <2>1 DEF GraphInv, TypeOK, Pcs, StreamPcs, Nodes
<1>7. Faithful(thread')
  BY <1>3, ThreadFacts, StaysFaithful DEF WellFormed
<1>8. Faithful(thread)' /\ Faithful(draft)'
  BY <1>1, <1>7 DEF Faithful, AnswersAreTrue, IsTrue, StartedAreTaken
<1>9. WellFormed(thread)' /\ WellFormed(draft)'
  BY <1>1, <1>3
<1>10. Extends(thread, draft)'
  <2>1. Len(thread'.asked) \in Nat
    BY <1>3, ThreadFacts
  <2> QED
    BY <1>1, <2>1 DEF Extends
<1>11. Ready(pc, thread)' /\ DecisionIsTheUsers' /\ AsksAboutTheActiveCall'
  BY <1>1 DEF GraphInv, Ready, DecisionIsTheUsers, AsksAboutTheActiveCall
<1>12. QueueIsAsked' /\ NothingRunsUnapproved'
  BY <1>1, <1>3 DEF GraphInv, QueueIsAsked, NothingRunsUnapproved
<1> QED
  BY <1>1, <1>4, <1>6, <1>8, <1>9, <1>10, <1>11, <1>12 DEF GraphInv

\* One event reaches the history.
LEMMA PublishStep == ASSUME GraphInv, Publish PROVE GraphInv'
<1>1. /\ pc = "publish" /\ queue # <<>> /\ queue' = Tail(queue)
      /\ pc' = pc /\ thread' = thread /\ draft' = draft /\ next' = next /\ steps' = steps
      /\ resume' = resume /\ seen' = seen /\ latest' = latest /\ run' = run /\ row' = row
      /\ ran' = ran /\ verdict' = verdict
  BY DEF Publish, factVars
<1>2. queue \in Seq(Event)
  BY DEF GraphInv, TypeOK
<1>3. Head(queue) \in Event /\ Head(queue).call <= Len(thread.asked)
  <2>1. 1 \in DOMAIN queue /\ Head(queue) = queue[1]
    BY <1>1, <1>2
  <2> QED
    BY <1>2, <2>1 DEF GraphInv, QueueIsAsked
<1>4. Head(queue).call \in Calls
  BY <1>3 DEF Event
<1>5. BatchOf(Head(queue).call) \in Batches
  <2>1. PICK n \in Nat : n = Len(thread.asked) /\ DOMAIN thread.asked = 1..n
    BY ThreadFacts, LengthIsNat
  <2>2. Head(queue).call \in 1..n
    BY <1>3, <1>4, <2>1, ToolHistoryAssumption DEF Calls
  <2>3. thread.asked[Head(queue).call] \in Asked
    BY <2>1, <2>2, ThreadFacts
  <2> QED
    BY <2>3 DEF Asked, BatchOf
<1>6. callRows' \in SUBSET Batches /\ resultRows' \in [Batches -> ResultRow]
  <2>1. callRows \in SUBSET Batches /\ resultRows \in [Batches -> ResultRow]
    BY DEF GraphInv, TypeOK
  <2>2. CASE Head(queue).type = "action_started"
    <3>1. AppendToolBatch(BatchOf(Head(queue).call))
      BY <2>2 DEF Publish
    <3> QED
      BY <1>5, <2>1, <3>1 DEF AppendToolBatch
  <2>3. CASE Head(queue).type # "action_started"
    <3>1. PICK result : result = [call |-> Head(queue).call, status |-> Head(queue).status]
      OBVIOUS
    <3>2. PICK b : b = BatchOf(Head(queue).call)
      OBVIOUS
    <3>3. AppendToolResult(b, CallsOf(b), result) /\ b \in Batches
      BY <1>5, <2>3, <3>1, <3>2 DEF Publish
    <3>4. Head(queue).status \in ActionStatus
      BY <1>3, <2>3 DEF Event
    <3>5. result \in ToolResults
      BY <1>4, <3>1, <3>4 DEF ToolResults
    <3>6. ResultRowWith(resultRows[b], CallsOf(b), result) \in ResultRow
      BY <2>1, <3>3, <3>5 DEF ResultRowWith, ResultRow
    <3> QED
      BY <2>1, <3>3, <3>6 DEF AppendToolResult
  <2> QED
    BY <2>2, <2>3
<1>7. queue' \in Seq(Event) /\ QueueIsAsked'
  <2>1. \A i \in DOMAIN Tail(queue) : i + 1 \in DOMAIN queue /\ Tail(queue)[i] = queue[i + 1]
    BY <1>1, <1>2
  <2> QED
    BY <1>1, <1>2, <2>1 DEF GraphInv, QueueIsAsked
<1>8. TypeOK'
  BY <1>1, <1>6, <1>7 DEF GraphInv, TypeOK
<1>9. WellFormed(thread)' /\ WellFormed(draft)' /\ Extends(thread, draft)'
  BY <1>1 DEF GraphInv
<1>10. Faithful(thread)' /\ Faithful(draft)'
  BY <1>1 DEF GraphInv, Faithful, AnswersAreTrue, IsTrue, StartedAreTaken
<1>11. Ready(pc, thread)' /\ Ready(next, draft)'
  BY <1>1 DEF GraphInv, Ready, MayRun
<1>12. DecisionIsTheUsers' /\ AsksAboutTheActiveCall' /\ NothingRunsUnapproved'
  BY <1>1 DEF GraphInv, DecisionIsTheUsers, AsksAboutTheActiveCall, NothingRunsUnapproved
<1> QED
  BY <1>1, <1>7, <1>8, <1>9, <1>10, <1>11, <1>12 DEF GraphInv

\* The update becomes the thread.  A call that was started keeps its name, because
\* the update changes no call.
LEMMA CommitStep == ASSUME GraphInv, Commit PROVE GraphInv'
<1>1. /\ pc = "publish" /\ queue = <<>> /\ thread' = draft /\ pc' = next
      /\ draft' = draft /\ next' = next /\ queue' = queue /\ steps' = steps
      /\ resume' = resume /\ seen' = seen /\ latest' = latest /\ run' = run /\ row' = row
      /\ ran' = ran /\ verdict' = verdict /\ callRows' = callRows /\ resultRows' = resultRows
  BY DEF Commit, factVars, historyVars
<1>2. next \in Nodes /\ resume = "none" /\ Ready(next, draft)
  BY <1>1 DEF GraphInv, TypeOK, DecisionIsTheUsers
<1>3. TypeOK'
  BY <1>1, <1>2 DEF GraphInv, TypeOK, Pcs, StreamPcs
<1>4. WellFormed(thread)' /\ WellFormed(draft)'
  BY <1>1 DEF GraphInv
<1>5. Extends(thread, draft)'
  <2>1. Len(draft.asked) \in Nat
    BY ChannelTypes DEF GraphInv, TypeOK
  <2> QED
    BY <1>1, <2>1 DEF Extends
<1>6. Faithful(thread)' /\ Faithful(draft)'
  BY <1>1 DEF GraphInv, Faithful, AnswersAreTrue, IsTrue, StartedAreTaken
<1>7. Ready(pc, thread)' /\ pc' # "publish"
  BY <1>1, <1>2 DEF Ready, MayRun, Nodes
<1>8. DecisionIsTheUsers' /\ QueueIsAsked' /\ AsksAboutTheActiveCall' /\ run' # 0
  BY <1>1, <1>2 DEF GraphInv, DecisionIsTheUsers, QueueIsAsked, AsksAboutTheActiveCall, Nodes
<1>9. NothingRunsUnapproved'
  <2>1. ASSUME NEW c \in Calls, ran[c] = 1
        PROVE  draft.asked[c] = thread.asked[c]
    <3>1. c \in Nat /\ c > 0
      BY ToolHistoryAssumption DEF Calls
    <3>2. ~(c > Taken(thread))
      BY <2>1, ThreadFacts DEF Faithful, StartedAreTaken
    <3>3. PICK n \in Nat : n = Len(thread.asked) /\ DOMAIN thread.asked = 1..n
      BY ThreadFacts, LengthIsNat
    <3>4. c \in 1..n
      BY <3>1, <3>2, <3>3, ThreadFacts
    <3> QED
      BY <3>3, <3>4 DEF GraphInv, Extends
  <2> QED
    BY <1>1, <2>1 DEF GraphInv, NothingRunsUnapproved
<1> QED
  BY <1>1, <1>3, <1>4, <1>5, <1>6, <1>7, <1>8, <1>9 DEF GraphInv

\* The final node changes nothing.
LEMMA FinalStep == ASSUME GraphInv, Final PROVE GraphInv'
<1>1. steps' \in 0..RecursionLimit /\ pc = "final" /\ pc # "idle"
  BY StepIsCounted DEF Final, Nodes
<1>2. /\ pc' = "complete" /\ thread' = thread
      /\ draft' = draft /\ next' = next /\ queue' = queue
      /\ resume' = resume /\ seen' = seen /\ latest' = latest /\ run' = run /\ row' = row
      /\ ran' = ran /\ verdict' = verdict /\ callRows' = callRows /\ resultRows' = resultRows
  BY DEF Final, factVars, historyVars
<1>3. TypeOK'
  BY <1>1, <1>2 DEF GraphInv, TypeOK, Pcs, StreamPcs
<1>4. WellFormed(thread)' /\ WellFormed(draft)' /\ Extends(thread, draft)'
  BY <1>2 DEF GraphInv
<1>5. Faithful(thread)' /\ Faithful(draft)'
  BY <1>2 DEF GraphInv, Faithful, AnswersAreTrue, IsTrue, StartedAreTaken
<1>6. draft' = thread' /\ run' # 0
  BY <1>1, <1>2 DEF GraphInv
<1>7. /\ Ready(pc, thread)' /\ DecisionIsTheUsers' /\ QueueIsAsked'
      /\ AsksAboutTheActiveCall' /\ NothingRunsUnapproved'
  BY <1>1, <1>2
  DEF GraphInv, Ready, DecisionIsTheUsers, QueueIsAsked, AsksAboutTheActiveCall,
      NothingRunsUnapproved
<1> QED
  BY <1>2, <1>3, <1>4, <1>5, <1>6, <1>7 DEF GraphInv

-----------------------------------------------------------------------------
\* An empty thread.
LEMMA InvHoldsAtFirst == Init => GraphInv
<1> SUFFICES ASSUME Init PROVE GraphInv
  OBVIOUS
<1>1. /\ thread.asked = <<>> /\ thread.answers = <<>> /\ thread.pending = <<>>
      /\ thread.active = NoCall /\ thread.completed = FALSE /\ draft = thread
      /\ thread = [asked |-> <<>>, answers |-> <<>>, pending |-> <<>>,
                   active |-> NoCall, completed |-> FALSE]
      /\ pc = "idle" /\ next = "memory" /\ queue = <<>> /\ steps = 0 /\ resume = "none"
      /\ latest = 0 /\ seen = [started |-> {}, answered |-> {}] /\ run = 0
      /\ ran = [c \in Calls |-> 0] /\ verdict = [c \in Calls |-> "none"]
      /\ row = [r \in Runs |-> [status |-> "ABSENT", pending |-> 0]]
      /\ callRows = {}
      /\ resultRows = [b \in Batches |-> [status |-> "ABSENT", results |-> {}]]
  BY DEF Init, HistoryInit
<1>2. thread \in Thread
  BY <1>1, NoCallIsActive DEF Thread
<1>3. TypeOK
  <2>1. 0 \in 0..RecursionLimit /\ 0 \in 0..MaxCalls /\ 0 \in 0..MaxRuns
    BY ToolHistoryAssumption, MainGraphAssumption
  <2>2. /\ [status |-> "ABSENT", pending |-> 0] \in RunRow
        /\ [status |-> "ABSENT", results |-> {}] \in ResultRow
    BY <2>1 DEF RunRow, ResultRow
  <2> QED
    BY <1>1, <1>2, <2>1, <2>2 DEF TypeOK, Pcs, Nodes, Decisions
<1>4. Len(thread.asked) = 0 /\ Len(thread.pending) = 0 /\ Taken(thread) = 0
  <2>1. Len(thread.asked) = 0 /\ Len(thread.pending) = 0
    BY <1>1
  <2> QED
    BY <2>1, TakenIs
<1>5. WellFormed(thread)
  BY <1>1, <1>2, <1>4, ToolHistoryAssumption
  DEF WellFormed, PendingAreLast, ActiveIsTaken, AnswersAreTaken, AnswersIncrease,
      BatchesAreBounded, NoCall
<1>6. Faithful(thread)
  BY <1>1 DEF Faithful, AnswersAreTrue, StartedAreTaken
<1>7. Extends(thread, draft)
  BY <1>1, <1>4 DEF Extends
<1>8. /\ Ready(pc, thread) /\ DecisionIsTheUsers /\ QueueIsAsked
      /\ AsksAboutTheActiveCall /\ NothingRunsUnapproved
  BY <1>1
  DEF Ready, DecisionIsTheUsers, QueueIsAsked, AsksAboutTheActiveCall, NothingRunsUnapproved
<1> QED
  BY <1>1, <1>3, <1>5, <1>6, <1>7, <1>8 DEF GraphInv

\* Each step of the stream, its user and its environment.
LEMMA InvIsInductive == GraphInv /\ [Next]_vars => GraphInv'
<1> SUFFICES ASSUME GraphInv, [Next]_vars PROVE GraphInv'
  OBVIOUS
<1>1. CASE Memory
  BY <1>1, MemoryStep
<1>2. CASE Reply
  BY <1>2, ReplyStep
<1>3. CASE Ask
  BY <1>3, AskStep
<1>4. CASE Dispatch
  <2>1. CASE thread.active.call # 0 \/ thread.pending = <<>>
    BY <1>4, <2>1, DispatchNothing
  <2>2. CASE thread.active.call = 0 /\ thread.pending # <<>>
    BY <1>4, <2>2, DispatchNext
  <2> QED
    BY <2>1, <2>2
<1>5. CASE Interrupt
  BY <1>5, InterruptStep
<1>6. CASE Approve
  BY <1>6, ApproveStep
<1>7. CASE Reject
  BY <1>7, RejectStep
<1>8. CASE RefuseTool
  BY <1>8, RefuseToolStep
<1>9. CASE CallTool \/ CallSubagent
  BY <1>9, CallStep
<1>10. CASE ToolReturns \/ ToolTimesOut \/ ChildReturns \/ ChildTimesOut
  BY <1>10, ReturnStep
<1>11. CASE Publish
  BY <1>11, PublishStep
<1>12. CASE Commit
  BY <1>12, CommitStep
<1>13. CASE Final
  BY <1>13, FinalStep
<1>14. CASE Complete \/ Settle \/ AbortResume
  BY <1>14, EndStep DEF Complete, Settle, AbortResume
<1>15. CASE OutOfSteps \/ Break \/ ChildRaisesTimeout
  BY <1>15, BrokenOff DEF OutOfSteps, Break, ChildRaisesTimeout, Nodes, StreamPcs
<1>16. CASE StartTurn
  BY <1>16, StartTurnStep
<1>17. CASE Resume("approved") \/ Resume("rejected")
  BY <1>17, ResumeStep
<1>18. CASE UNCHANGED vars
  <2>1. /\ thread' = thread /\ draft' = draft /\ pc' = pc /\ next' = next /\ queue' = queue
        /\ steps' = steps /\ resume' = resume /\ seen' = seen /\ latest' = latest
        /\ run' = run /\ row' = row /\ ran' = ran /\ verdict' = verdict
        /\ callRows' = callRows /\ resultRows' = resultRows
    BY <1>18 DEF vars, streamVars, factVars, historyVars
  <2>2. TypeOK'
    BY <2>1 DEF GraphInv, TypeOK
  <2>3. /\ WellFormed(thread)' /\ WellFormed(draft)' /\ Extends(thread, draft)'
    BY <2>1 DEF GraphInv
  <2>4. Faithful(thread)' /\ Faithful(draft)'
    BY <2>1 DEF GraphInv, Faithful, AnswersAreTrue, IsTrue, StartedAreTaken
  <2>5. Ready(pc, thread)' /\ (pc' = "publish" => Ready(next, draft)')
    BY <2>1 DEF GraphInv, Ready, MayRun
  <2>6. /\ DecisionIsTheUsers' /\ QueueIsAsked' /\ AsksAboutTheActiveCall'
        /\ NothingRunsUnapproved'
    BY <2>1
    DEF GraphInv, DecisionIsTheUsers, QueueIsAsked, AsksAboutTheActiveCall,
        NothingRunsUnapproved
  <2> QED
    BY <2>1, <2>2, <2>3, <2>4, <2>5, <2>6 DEF GraphInv
<1> QED
  BY <1>1, <1>2, <1>3, <1>4, <1>5, <1>6, <1>7, <1>8, <1>9, <1>10, <1>11, <1>12, <1>13,
     <1>14, <1>15, <1>16, <1>17, <1>18
  DEF Next, StreamStep

\* The inductive invariant holds in every reachable state, with any tools, any
\* confirmation policy, any number of turns and any size of batches.
THEOREM GraphInvHolds == Spec => []GraphInv
BY InvHoldsAtFirst, InvIsInductive, PTL DEF Spec

\* The channels, the rows and the history keep their types.
THEOREM GraphTypesHold == Spec => []TypeOK
<1>1. GraphInv => TypeOK
  BY DEF GraphInv
<1> QED
  BY <1>1, GraphInvHolds, PTL

\* A guarded tool or subagent is started only for a call its user approved
\* (confirm_node, dispatch_tool_call_node), and none is started twice for a call.
THEOREM NoCallWithoutApproval == Spec => []NothingRunsUnapproved
<1>1. GraphInv => NothingRunsUnapproved
  BY DEF GraphInv
<1> QED
  BY <1>1, GraphInvHolds, PTL

\* The thread has at most one tool message for each call, in the order of the calls
\* (build_action_result_update), however streams break off and are resumed.
THEOREM OneAnswerPerCall == Spec => []AnswersInOrder
<1>1. GraphInv => AnswersInOrder
  BY DEF GraphInv, WellFormed, AnswersIncrease, AnswersInOrder
<1> QED
  BY <1>1, GraphInvHolds, PTL

\* What the model is told of a call is what happened to it.
THEOREM NoFalseResult == Spec => []ResultsAreTrue
<1>1. GraphInv => ResultsAreTrue
  BY DEF GraphInv, Faithful, AnswersAreTrue, IsTrue, ResultsAreTrue
<1> QED
  BY <1>1, GraphInvHolds, PTL

\* The row of a waiting run names the call that the resumed graph goes on with
\* (_pending_action, confirm_node).
THEOREM WaitingAsksTheRightQuestion == Spec => []AsksAboutTheActiveCall
<1>1. GraphInv => AsksAboutTheActiveCall
  BY DEF GraphInv
<1> QED
  BY <1>1, GraphInvHolds, PTL

-----------------------------------------------------------------------------
(* Open calls.  First the channels as values again. *)

\* The numbers of a well formed thread.
LEMMA ShapeOf ==
  ASSUME NEW t, WellFormed(t)
  PROVE  \E n \in Nat :
           /\ n = Len(t.asked) /\ DOMAIN t.asked = 1..n
           /\ Taken(t) \in Nat /\ Taken(t) <= n /\ (t.pending = <<>> => Taken(t) = n)
           /\ t.active.call \in Nat /\ t.active.call <= Taken(t)
           /\ \A i \in DOMAIN t.answers : t.answers[i].call \in 1..n /\ t.answers[i].call <= Taken(t)
           /\ \A c \in 1..n : t.asked[c].batch \in Batches /\ t.asked[c].batch \in Nat
                              /\ t.asked[c].run \in Nat
<1>1. t \in Thread /\ PendingAreLast(t)
  BY DEF WellFormed
<1>2. /\ t.asked \in Seq(Asked) /\ t.answers \in Seq(ToolResults) /\ t.pending \in Seq(Calls)
      /\ t.active.call \in Nat
  BY <1>1, ChannelTypes
<1>3. PICK n \in Nat : n = Len(t.asked) /\ DOMAIN t.asked = 1..n
  BY <1>2, LengthIsNat
<1>4. PICK k \in Nat : k = Len(t.pending)
  BY <1>2, LengthIsNat
<1>5. k <= n /\ Taken(t) = n - k
  BY <1>1, <1>3, <1>4, TakenIs DEF PendingAreLast
<1>6. t.pending = <<>> => k = 0
  BY <1>4
<1>7. t.active.call <= Taken(t)
  BY DEF WellFormed, ActiveIsTaken
<1>8. \A i \in DOMAIN t.answers : t.answers[i].call \in 1..n /\ t.answers[i].call <= Taken(t)
  <2> SUFFICES ASSUME NEW i \in DOMAIN t.answers
               PROVE  t.answers[i].call \in 1..n /\ t.answers[i].call <= Taken(t)
    OBVIOUS
  <2>1. t.answers[i] \in ToolResults
    BY <1>2
  <2>2. t.answers[i].call \in Nat /\ t.answers[i].call > 0
    BY <2>1, ToolHistoryAssumption DEF ToolResults, Calls
  <2>3. t.answers[i].call <= Taken(t)
    BY DEF WellFormed, AnswersAreTaken
  <2> QED BY <1>5, <2>2, <2>3
<1>9. \A c \in 1..n : t.asked[c].batch \in Batches /\ t.asked[c].batch \in Nat
                      /\ t.asked[c].run \in Nat
  <2> SUFFICES ASSUME NEW c \in 1..n
               PROVE  t.asked[c].batch \in Batches /\ t.asked[c].batch \in Nat
                      /\ t.asked[c].run \in Nat
    OBVIOUS
  <2>1. t.asked[c] \in Asked
    BY <1>2, <1>3
  <2>2. t.asked[c].batch \in Batches /\ t.asked[c].run \in Runs
    BY <2>1 DEF Asked
  <2>3. Batches \subseteq Nat /\ Runs \subseteq Nat
    BY ToolHistoryAssumption, MainGraphAssumption DEF Batches, Runs
  <2> QED BY <2>2, <2>3
<1>10. Taken(t) \in Nat /\ Taken(t) <= n /\ (t.pending = <<>> => Taken(t) = n)
  BY <1>5, <1>6
<1> WITNESS n \in Nat
<1> QED BY <1>2, <1>3, <1>7, <1>8, <1>9, <1>10

\* One sequence behind another.
LEMMA Concatenated ==
  ASSUME NEW S, NEW s \in Seq(S), NEW r \in Seq(S),
         NEW n \in Nat, n = Len(s), NEW k \in Nat, k = Len(r)
  PROVE  /\ DOMAIN (s \o r) = 1..(n + k)
         /\ \A i \in 1..n : (s \o r)[i] = s[i]
         /\ \A i \in (n + 1)..(n + k) : (s \o r)[i] = r[i - n]
<1>1. s \o r \in Seq(S) /\ Len(s \o r) = n + k
  OBVIOUS
<1>2. DOMAIN s = 1..n /\ DOMAIN r = 1..k
  OBVIOUS
<1> QED BY <1>1, <1>2

\* Channels with the same calls fit when no call becomes due, and one that is due
\* no longer is answered.
LEMMA FitsStill ==
  ASSUME NEW t, NEW u, CallsFit(t), u.asked = t.asked,
         \A c \in DOMAIN t.asked : HasAnswer(t, c) => HasAnswer(u, c),
         \A c \in DOMAIN t.asked : Due(u, c) => Due(t, c),
         \A c \in DOMAIN t.asked : Due(t, c) => Due(u, c) \/ HasAnswer(u, c),
         u.completed => u.pending = <<>> /\ u.active.call = 0
  PROVE  CallsFit(u)
BY DEF CallsFit, AskedInOrder

\* What an update leads to keeps the rows and the calls in step.
LEMMA RunsUpdated ==
  ASSUME RunsInv, NEW t, NEW events, NEW edge, Update(t, events, edge),
         UNCHANGED <<thread, run, row>>,
         pc \notin {"idle", "waiting"}, CallsFit(t), Fits(edge, t)
  PROVE  RunsInv'
<1>1. pc' = "publish" /\ draft' = t /\ next' = edge /\ thread' = thread /\ run' = run /\ row' = row
  BY DEF Update
<1>2. RowsFit'
  BY <1>1 DEF RunsInv, RowsFit
<1>3. CallsFit(thread)' /\ CallsFit(draft)'
  BY <1>1 DEF RunsInv, CallsFit, AskedInOrder
<1>4. Fits(pc, thread)' /\ Fits(next, draft)'
  BY <1>1 DEF Fits, Nodes
<1> QED BY <1>1, <1>2, <1>3, <1>4 DEF RunsInv

\* Neither does a stream that goes, if the row says what became of its run.
LEMMA RunsGone ==
  ASSUME GraphInv, RunsInv, StreamGone, UNCHANGED <<thread, run>>,
         pc' \in {"broken", "idle", "waiting"}, pc # "idle", pc' = "waiting" => ~thread.completed,
         RowsFit', \A r \in Runs : r # run => row'[r] = row[r],
         pc' = "idle" => (row'[run].status = "SUCCEEDED" => thread.completed)
  PROVE  RunsInv'
<1>1. thread' = thread /\ draft' = thread /\ run' = run /\ pc' # "publish"
  BY DEF StreamGone
<1>2. CallsFit(thread)'
  <2>1. row[run].status # "FAILED"
    BY DEF GraphInv, RunsInv, RowsFit
  <2>2. \A c \in DOMAIN thread.asked :
          /\ thread.asked[c].run \in Runs
          /\ row[thread.asked[c].run].status = "FAILED" => row'[thread.asked[c].run].status = "FAILED"
    <3> SUFFICES ASSUME NEW c \in DOMAIN thread.asked
                 PROVE  /\ thread.asked[c].run \in Runs
                        /\ row[thread.asked[c].run].status = "FAILED" =>
                             row'[thread.asked[c].run].status = "FAILED"
      OBVIOUS
    <3>1. thread.asked[c] \in Asked
      BY ThreadFacts
    <3>2. thread.asked[c].run \in Runs
      BY <3>1 DEF Asked
    <3> QED BY <2>1, <3>2
  <2> QED BY <1>1, <2>2 DEF RunsInv, CallsFit, AskedInOrder
<1>3. CallsFit(draft)'
  BY <1>1, <1>2 DEF CallsFit, AskedInOrder
<1>4. Fits(pc, thread)'
  BY <1>1 DEF Fits, Nodes
<1> QED BY <1>1, <1>2, <1>3, <1>4 DEF RunsInv

\* What each node makes of the channels.
LEMMA ReplyFacts ==
  ASSUME GraphInv, RunsInv, Reply
  PROVE  /\ pc = "solve"
         /\ \E t : /\ Update(t, <<>>, "final") /\ WellFormed(t)
                   /\ t.asked = thread.asked /\ t.answers = thread.answers
                   /\ t.pending = <<>> /\ t.active.call = 0 /\ t.completed = TRUE
                   /\ Taken(t) = Taken(thread)
<1>1. pc = "solve" /\ thread.pending = <<>>
  BY DEF Reply, Begins, RunsInv, Fits
<1>2. PICK t : /\ t = [thread EXCEPT !.pending = <<>>, !.active = NoCall, !.completed = TRUE]
               /\ Update(t, <<>>, AfterSolve(t))
  BY DEF Reply
<1>3. /\ WellFormed(t) /\ t.asked = thread.asked /\ t.answers = thread.answers
      /\ t.pending = <<>> /\ t.active = NoCall
  BY <1>2, ThreadFacts, ResetIsWellFormed
<1>4. t.completed = TRUE /\ t.active.call = 0 /\ AfterSolve(t) = "final"
  BY <1>2, <1>3, ThreadFacts DEF WellFormed, Thread, NoCall, AfterSolve
<1>5. Taken(t) = Taken(thread)
  BY <1>1, <1>3 DEF Taken
<1> QED BY <1>1, <1>2, <1>3, <1>4, <1>5

\* Channels t are the thread, which has n calls, with a batch of the current run.
NewBatch(t, n) ==
  /\ \A c \in 1..n : t.asked[c] = thread.asked[c]
  /\ \E j \in Nat \ {0} :
       /\ DOMAIN t.asked = 1..(n + j)
       /\ \A c \in (n + 1)..(n + j) : t.asked[c].batch = NextBatch /\ t.asked[c].run = run

LEMMA AskFacts ==
  ASSUME GraphInv, RunsInv, Ask, NEW n, n = Len(thread.asked)
  PROVE  /\ pc = "solve"
         /\ \E t :
              /\ Update(t, <<>>, "dispatch") /\ WellFormed(t)
              /\ DOMAIN thread.asked = 1..n /\ n \in Nat
              /\ NewBatch(t, n)
              /\ t.answers = thread.answers /\ t.active.call = 0
              /\ Taken(t) = n /\ Taken(thread) = n /\ t.completed = thread.completed
<1>1. pc = "solve" /\ thread.pending = <<>>
  BY DEF Ask, Begins, RunsInv, Fits
<1>2. PICK k \in 1..MaxBatch : \E names \in [1..k -> Names] : AskFor(names)
  BY DEF Ask
<1>3. PICK names \in [1..k -> Names] : AskFor(names)
  BY <1>2
<1>4. k \in Nat /\ k > 0
  BY <1>2, MainGraphAssumption
<1>5. names \in Seq(Names) /\ Len(names) = k /\ DOMAIN names = 1..k
  BY <1>4, FunctionIsSeq
<1>6. PICK calls : calls = [i \in DOMAIN names |-> [name |-> names[i], batch |-> NextBatch,
                                                    run |-> run]]
  OBVIOUS
<1>7. PICK asked : asked = thread.asked \o calls
  OBVIOUS
<1>8. PICK pending : pending = [i \in DOMAIN calls |-> Len(thread.asked) + i]
  OBVIOUS
<1>9. PICK t : t = [thread EXCEPT !.asked = asked, !.pending = pending, !.active = NoCall]
  OBVIOUS
<1>10. Len(thread.asked) + k <= MaxCalls /\ Update(t, <<>>, AfterSolve(t))
  BY <1>3, <1>5, <1>6, <1>7, <1>8, <1>9 DEF AskFor
<1>11. \A i \in 1..k : /\ calls[i] \in Asked
                       /\ calls[i].batch = NextBatch /\ calls[i].run = run
  <2>1. NextBatch \in Batches
    BY <1>4, <1>10, NextBatchIsBounded, ThreadFacts, ToolHistoryAssumption DEF Batches
  <2>2. run \in Runs
    BY <1>1, MainGraphAssumption DEF GraphInv, TypeOK, Runs
  <2> QED BY <1>5, <1>6, <2>1, <2>2 DEF Asked
<1>12. calls \in Seq(Asked) /\ Len(calls) = k /\ DOMAIN calls = 1..k
  <2>1. calls = [i \in 1..k |-> calls[i]]
    BY <1>5, <1>6
  <2>2. calls \in [1..k -> Asked]
    BY <1>11, <2>1
  <2> QED BY <1>4, <2>2, FunctionIsSeq
<1>13. WellFormed(t) /\ t.answers = thread.answers /\ t.active = NoCall
  <2>1. calls # <<>>
    BY <1>4, <1>12
  <2>2. \A i \in DOMAIN calls : calls[i].batch <= Len(thread.asked) + 1
    BY <1>11, <1>12, NextBatchIsBounded
  <2> QED
    BY <1>7, <1>8, <1>9, <1>10, <1>12, <2>1, <2>2, ThreadFacts, BatchIsWellFormed
<1>14. t.asked = asked /\ t.pending = pending /\ t.completed = thread.completed
  BY <1>9, ThreadFacts DEF WellFormed, Thread
<1>15. /\ n \in Nat /\ DOMAIN thread.asked = 1..n
       /\ DOMAIN asked = 1..(n + k)
       /\ \A c \in 1..n : asked[c] = thread.asked[c]
       /\ \A c \in (n + 1)..(n + k) : asked[c] = calls[c - n]
  <2>1. PICK m \in Nat : m = n /\ DOMAIN thread.asked = 1..m
    BY ThreadFacts, LengthIsNat
  <2>2. thread.asked \in Seq(Asked)
    BY ThreadFacts
  <2>3. n \in Nat /\ n = Len(thread.asked) /\ DOMAIN thread.asked = 1..n
    BY <2>1
  <2>4. k \in Nat /\ k = Len(calls) /\ calls \in Seq(Asked)
    BY <1>4, <1>12
  <2>5. /\ DOMAIN (thread.asked \o calls) = 1..(n + k)
        /\ \A c \in 1..n : (thread.asked \o calls)[c] = thread.asked[c]
        /\ \A c \in (n + 1)..(n + k) : (thread.asked \o calls)[c] = calls[c - n]
    BY ONLY <2>2, <2>3, <2>4, Concatenated, SMTT(30)
  <2> QED BY <1>7, <2>3, <2>5
<1>16. \A c \in (n + 1)..(n + k) : t.asked[c].batch = NextBatch /\ t.asked[c].run = run
  <2> TAKE c \in (n + 1)..(n + k)
  <2>1. c - n \in 1..k
    BY <1>4, <1>15
  <2> QED BY <1>11, <1>14, <1>15, <2>1
<1>17. Taken(t) = n /\ pending # <<>>
  <2>1. pending \in [1..k -> Nat]
    BY <1>8, <1>12, <1>15
  <2>2. Len(pending) = k
    BY <1>4, <2>1, FunctionIsSeq
  <2>3. k # 0 => pending # <<>>
    BY <2>2
  <2> QED BY <1>4, <1>14, <1>15, <2>2, <2>3, TakenIs
<1>18. Taken(thread) = n
  BY <1>1, <1>15 DEF Taken
<1>19. AfterSolve(t) = "dispatch" /\ t.active.call = 0
  BY <1>13, <1>14, <1>17 DEF AfterSolve, NoCall
<1>20. k \in Nat \ {0}
  BY <1>4
<1>21. NewBatch(t, n)
  <2>1. \E j \in Nat \ {0} :
         /\ DOMAIN t.asked = 1..(n + j)
         /\ \A c \in (n + 1)..(n + j) : t.asked[c].batch = NextBatch /\ t.asked[c].run = run
    <3> WITNESS k \in Nat \ {0}
    <3> QED BY <1>14, <1>15, <1>16
  <2> QED BY <1>14, <1>15, <2>1 DEF NewBatch
<1> QED BY <1>1, <1>10, <1>13, <1>14, <1>15, <1>17, <1>18, <1>19, <1>21

\* The next call becomes the active one.
LEMMA DispatchFacts ==
  ASSUME GraphInv, Dispatch, thread.active.call = 0, thread.pending # <<>>
  PROVE  /\ pc = "dispatch"
         /\ \E t, active :
              /\ Update(t, Started(active), AfterDispatch(t)) /\ WellFormed(t)
              /\ AfterDispatch(t) \in {"confirm", "tool", "subagent"}
              /\ t.active = active /\ active.call = Taken(thread) + 1
              /\ Taken(t) = Taken(thread) + 1 /\ active.call \in DOMAIN thread.asked
              /\ t.answers = thread.answers /\ t.asked = thread.asked
              /\ t.completed = thread.completed
<1>1. PICK call : call = Head(thread.pending)
  OBVIOUS
<1>2. PICK b : b = (thread.asked[call].name \in Guarded)
  OBVIOUS
<1>3. PICK pending : pending = Tail(thread.pending)
  OBVIOUS
<1>4. PICK active : active = [call |-> call, confirm |-> b]
  OBVIOUS
<1>5. PICK t : t = [thread EXCEPT !.active = active, !.pending = pending]
  OBVIOUS
<1>6. Update(t, Started(active), AfterDispatch(t)) /\ pc = "dispatch"
  BY <1>1, <1>2, <1>3, <1>4, <1>5 DEF Dispatch, Begins
<1>7. /\ WellFormed(t) /\ active.call = Taken(thread) + 1 /\ Taken(t) = Taken(thread) + 1
      /\ active.call \in DOMAIN thread.asked /\ active.call \in Calls
      /\ t.answers = thread.answers /\ t.asked = thread.asked /\ t.active = active
  <2>1. b \in BOOLEAN
    <3>1. (thread.asked[call].name \in Guarded) \in BOOLEAN
      OBVIOUS
    <3> QED BY <1>2, <3>1
  <2>2. WellFormed(thread) /\ thread.pending \in Seq(Calls)
    BY ChannelTypes DEF GraphInv, WellFormed
  <2>3. call \in Calls
    BY <1>1, <2>2
  <2>4. active.call = call /\ active \in Active
    BY <1>4, <2>1, <2>3, ToolHistoryAssumption DEF Active, Calls
  <2>5. Len(thread.pending) > 0 /\ active.call = thread.pending[1]
    BY <1>1, <2>2, <2>4
  <2>6. /\ pending \in Seq(Calls) /\ Len(pending) = Len(thread.pending) - 1
        /\ \A i \in 1..Len(pending) : pending[i] = thread.pending[i + 1]
    BY <1>3, <2>2
  <2> QED BY <1>5, <2>2, <2>4, <2>5, <2>6, DispatchIsWellFormed
<1>8. t.completed = thread.completed
  BY <1>5, ThreadFacts DEF WellFormed, Thread
<1>9. t.active.call # 0
  BY <1>7, ToolHistoryAssumption DEF Calls
<1>10. AfterDispatch(t) \in {"confirm", "tool", "subagent"}
  BY <1>9 DEF AfterDispatch, ActiveTarget
<1> QED BY <1>6, <1>7, <1>8, <1>10

\* The active call gets its answer.
LEMMA ResultFacts ==
  ASSUME GraphInv, NEW status \in ActionStatus, ActionResultUpdate(status),
         thread.active.call # 0,
         NEW result, result = [call |-> thread.active.call, status |-> status]
  PROVE  /\ result \in ToolResults
         /\ \E t :
              /\ Update(t, Answered(result), "dispatch")
              /\ WellFormed(t) /\ t.active.call = 0 /\ Taken(t) = Taken(thread)
              /\ t.asked = thread.asked /\ t.answers = Append(thread.answers, result)
              /\ t.completed = thread.completed /\ t.pending = thread.pending
<1>2. PICK t : t = [thread EXCEPT !.answers = Append(@, result), !.active = NoCall]
  OBVIOUS
<1>3. Update(t, Answered(result), "dispatch")
  BY <1>2 DEF ActionResultUpdate
<1>4. result \in ToolResults /\ result.call <= Len(thread.asked)
  BY ThreadFacts, ToolHistoryAssumption DEF ToolResults, Calls
<1>5. /\ WellFormed(t) /\ Taken(t) = Taken(thread)
      /\ t.active = NoCall /\ t.answers = Append(thread.answers, result)
  BY <1>2, <1>4, ThreadFacts, AnswerIsWellFormed
<1>6. /\ t.asked = thread.asked /\ t.completed = thread.completed
      /\ t.pending = thread.pending
  BY <1>2, ThreadFacts DEF WellFormed, Thread
<1>7. t.active.call = 0
  BY <1>5 DEF NoCall
<1> QED BY <1>3, <1>4, <1>5, <1>6, <1>7

\* The call need not be confirmed any more.
LEMMA ApproveFacts ==
  ASSUME GraphInv, Approve
  PROVE  /\ pc = "confirm"
         /\ \E t : /\ Update(t, Started(t.active), AfterConfirm(t)) /\ WellFormed(t)
                   /\ AfterConfirm(t) \in {"tool", "subagent"}
                   /\ t.active.call = thread.active.call /\ Taken(t) = Taken(thread)
                   /\ t.asked = thread.asked /\ t.answers = thread.answers
                   /\ t.pending = thread.pending /\ t.completed = thread.completed
<1>1. pc = "confirm"
  BY DEF Approve, Begins
<1>2. PICK t : t = [thread EXCEPT !.active.confirm = FALSE]
  OBVIOUS
<1>3. Update(t, Started(t.active), AfterConfirm(t))
  BY <1>2 DEF Approve
<1>4. /\ WellFormed(t) /\ Taken(t) = Taken(thread)
      /\ t.active = [call |-> thread.active.call, confirm |-> FALSE]
      /\ t.asked = thread.asked /\ t.answers = thread.answers
  BY <1>2, ThreadFacts, ConfirmedIsWellFormed
<1>5. t.pending = thread.pending /\ t.completed = thread.completed
  BY <1>2, ThreadFacts DEF WellFormed, Thread
<1>6. t.active.call = thread.active.call /\ t.active.call # 0 /\ ~t.active.confirm
  BY <1>1, <1>4 DEF GraphInv, Ready
<1>7. AfterConfirm(t) \in {"tool", "subagent"}
  BY <1>6 DEF AfterConfirm, ActiveTarget
<1> QED BY <1>1, <1>3, <1>4, <1>5, <1>6, <1>7

\* Batches are numbered one after the other.
LEMMA NextBatchIsNew ==
  ASSUME GraphInv, AskedInOrder(thread), NEW c \in DOMAIN thread.asked
  PROVE  thread.asked[c].batch < NextBatch /\ NextBatch \in Nat
<1>1. PICK n \in Nat : /\ n = Len(thread.asked) /\ DOMAIN thread.asked = 1..n
                       /\ \A d \in 1..n : thread.asked[d].batch \in Nat
  BY ThreadFacts, ShapeOf
<1>2. n \in 1..n /\ c <= n /\ c \in 1..n
  BY <1>1
<1>3. thread.asked[c].batch <= thread.asked[n].batch
  BY <1>1, <1>2 DEF AskedInOrder
<1>4. thread.asked # <<>>
  BY <1>1, <1>2
<1>5. NextBatch = thread.asked[n].batch + 1
  BY <1>1, <1>4 DEF NextBatch
<1> QED BY <1>1, <1>2, <1>3, <1>5

\* The calls of an update that asks for a batch fit.
LEMMA AskedFits ==
  ASSUME GraphInv, RunsInv, Ask, run \in 1..run, NEW t, WellFormed(t),
         NEW n \in Nat, DOMAIN thread.asked = 1..n, NewBatch(t, n),
         t.answers = thread.answers, t.active.call = 0,
         Taken(t) = n, Taken(thread) = n, t.completed = thread.completed
  PROVE  CallsFit(t)
<1>j. PICK j \in Nat \ {0} :
        /\ DOMAIN t.asked = 1..(n + j)
        /\ \A c \in (n + 1)..(n + j) : t.asked[c].batch = NextBatch /\ t.asked[c].run = run
  BY DEF NewBatch
<1>n. \A c \in 1..n : t.asked[c] = thread.asked[c]
  BY DEF NewBatch
<1>1. CallsFit(thread) /\ AskedInOrder(thread) /\ ~thread.completed
  BY DEF RunsInv, CallsFit, Ask, Begins, Fits, Nodes
<1>2. thread.active.call = 0
  BY DEF RunsInv, Ask, Begins, Fits
<1>3. \A c \in 1..(n + j) : c \notin 1..n => c \in (n + 1)..(n + j) /\ c > n
  OBVIOUS
<1>4. \A c \in 1..n : /\ c \in Nat /\ c # 0 /\ ~(c > n)
                      /\ thread.asked[c].batch < NextBatch /\ thread.asked[c].batch \in Nat
  BY <1>j, <1>n, <1>1, NextBatchIsNew, ThreadFacts, ShapeOf
<1>5. NextBatch \in Nat
  BY NextBatchIsBounded
<1>6. AskedInOrder(t)
  <2>1. \A c \in 1..(n + j) : t.asked[c].run \in 1..run
    BY <1>j, <1>n, <1>1, <1>3 DEF AskedInOrder
  <2>2. ASSUME NEW c \in 1..(n + j), NEW d \in 1..(n + j), c <= d
        PROVE  /\ t.asked[c].batch <= t.asked[d].batch
               /\ t.asked[c].batch = t.asked[d].batch => t.asked[c].run = t.asked[d].run
    <3>1. CASE d \in 1..n
      <4>1. c \in 1..n
        BY <1>j, <1>n, <2>2, <3>1
      <4>2. /\ thread.asked[c].batch <= thread.asked[d].batch
            /\ thread.asked[c].batch = thread.asked[d].batch =>
                 thread.asked[c].run = thread.asked[d].run
        BY <1>j, <1>n, <1>1, <2>2, <3>1, <4>1 DEF AskedInOrder
      <4>3. t.asked[c] = thread.asked[c] /\ t.asked[d] = thread.asked[d]
        BY <1>j, <1>n, <3>1, <4>1
      <4> QED BY <1>j, <1>n, <4>2, <4>3
    <3>2. CASE d \notin 1..n /\ c \in 1..n
      BY <1>j, <1>n, <1>3, <1>4, <1>5, <3>2
    <3>3. CASE d \notin 1..n /\ c \notin 1..n
      BY <1>j, <1>n, <1>3, <1>5, <3>3
    <3> QED BY <1>j, <1>n, <3>1, <3>2, <3>3
  <2> QED BY <1>j, <1>n, <2>1, <2>2 DEF AskedInOrder
<1>7. \A c \in 1..(n + j) : Due(t, c) => t.asked[c].run = run
  BY <1>j, <1>n, <1>3, <1>4 DEF Due
<1>8. \A c \in 1..(n + j) :
        Due(t, c) \/ HasAnswer(t, c) \/ row[t.asked[c].run].status = "FAILED"
  <2> SUFFICES ASSUME NEW c \in 1..(n + j), ~Due(t, c)
               PROVE  HasAnswer(t, c) \/ row[t.asked[c].run].status = "FAILED"
    OBVIOUS
  <2>1. c \in 1..n
    BY <1>j, <1>n, <1>3 DEF Due
  <2>2. ~Due(thread, c)
    BY <1>j, <1>n, <1>2, <1>4, <2>1 DEF Due
  <2> QED BY <1>j, <1>n, <1>1, <2>1, <2>2 DEF CallsFit, HasAnswer
<1> QED BY <1>j, <1>n, <1>1, <1>6, <1>7, <1>8 DEF CallsFit

\* The steps that put an update on its way.
LEMMA RunsUpdateStep ==
  ASSUME GraphInv, RunsInv, Memory \/ Reply \/ Ask \/ Dispatch \/ Approve
  PROVE  RunsInv'
<1>0. UNCHANGED <<thread, run, row>> /\ CallsFit(thread) /\ WellFormed(thread)
  BY DEF Memory, Reply, Ask, Dispatch, Approve, RunsInv, GraphInv
<1>n. PICK n \in Nat : /\ n = Len(thread.asked) /\ DOMAIN thread.asked = 1..n
                       /\ Taken(thread) \in Nat /\ Taken(thread) <= n
                       /\ thread.active.call \in Nat /\ thread.active.call <= Taken(thread)
  BY <1>0, ShapeOf
<1>1. CASE Memory
  <2>1. pc = "memory" /\ Fits("solve", thread) /\ Update(thread, <<>>, "solve")
    BY <1>1 DEF Memory, Begins, RunsInv, Fits, Nodes
  <2> QED BY <1>0, <2>1, RunsUpdated
<1>2. CASE Reply
  <2>1. PICK t : /\ Update(t, <<>>, "final") /\ WellFormed(t)
                 /\ t.asked = thread.asked /\ t.answers = thread.answers
                 /\ t.pending = <<>> /\ t.active.call = 0 /\ t.completed = TRUE
                 /\ Taken(t) = Taken(thread)
    BY <1>2, ReplyFacts
  <2>2. pc = "solve" /\ thread.active.call = 0 /\ Fits("final", t)
    BY <1>2 DEF Reply, Begins, RunsInv, Fits, Nodes
  <2>3. CallsFit(t)
    BY <1>0, <2>1, <2>2, FitsStill DEF HasAnswer, Due
  <2> QED BY <1>0, <2>1, <2>2, <2>3, RunsUpdated
<1>3. CASE Ask
  <2>1. PICK t :
          /\ Update(t, <<>>, "dispatch") /\ WellFormed(t)
          /\ DOMAIN thread.asked = 1..n /\ n \in Nat
          /\ NewBatch(t, n)
          /\ t.answers = thread.answers /\ t.active.call = 0
          /\ Taken(t) = n /\ Taken(thread) = n /\ t.completed = thread.completed
    BY <1>3, <1>n, AskFacts
  <2>2. pc = "solve" /\ Fits("dispatch", t)
    BY <1>3, <2>1 DEF Ask, Begins, RunsInv, Fits, Nodes
  <2>3. run \in 1..run
    BY <2>2, MainGraphAssumption DEF GraphInv, TypeOK
  <2>4. CallsFit(t)
    BY <1>3, <1>n, <2>1, <2>3, AskedFits
  <2> QED BY <1>0, <2>1, <2>2, <2>4, RunsUpdated
<1>4. CASE Dispatch /\ thread.active.call = 0 /\ thread.pending # <<>>
  <2>1. PICK t, active :
          /\ Update(t, Started(active), AfterDispatch(t)) /\ WellFormed(t)
          /\ AfterDispatch(t) \in {"confirm", "tool", "subagent"}
          /\ t.active = active /\ active.call = Taken(thread) + 1
          /\ Taken(t) = Taken(thread) + 1 /\ active.call \in DOMAIN thread.asked
          /\ t.answers = thread.answers /\ t.asked = thread.asked
          /\ t.completed = thread.completed
    BY <1>4, DispatchFacts
  <2>2. pc = "dispatch" /\ ~t.completed /\ Fits(AfterDispatch(t), t)
    BY <1>4, <2>1 DEF Dispatch, Begins, RunsInv, Fits, Nodes
  <2>3. \A c \in 1..n : Due(t, c) <=> Due(thread, c)
    BY <1>4, <1>n, <2>1 DEF Due
  <2>4. CallsFit(t)
    BY <1>0, <1>n, <2>1, <2>2, <2>3, FitsStill DEF HasAnswer
  <2> QED BY <1>0, <2>1, <2>2, <2>4, RunsUpdated
<1>5. CASE Dispatch /\ ~(thread.active.call = 0 /\ thread.pending # <<>>)
  <2>1. pc = "dispatch" /\ thread.active.call = 0 /\ thread.pending = <<>> /\ ~thread.completed
    BY <1>5 DEF Dispatch, Begins, RunsInv, Fits, Nodes, GraphInv, Ready
  <2>2. Update(thread, <<>>, "solve") /\ Fits("solve", thread)
    BY <1>5, <2>1 DEF Dispatch, AfterDispatch, Fits
  <2> QED BY <1>0, <2>1, <2>2, RunsUpdated
<1>6. CASE Approve
  <2>1. PICK t : /\ Update(t, Started(t.active), AfterConfirm(t)) /\ WellFormed(t)
                 /\ AfterConfirm(t) \in {"tool", "subagent"}
                 /\ t.active.call = thread.active.call /\ Taken(t) = Taken(thread)
                 /\ t.asked = thread.asked /\ t.answers = thread.answers
                 /\ t.pending = thread.pending /\ t.completed = thread.completed
    BY <1>6, ApproveFacts
  <2>2. pc = "confirm" /\ ~t.completed /\ Fits(AfterConfirm(t), t)
    BY <1>6, <2>1 DEF Approve, Begins, RunsInv, Fits, Nodes
  <2>3. CallsFit(t)
    BY <1>0, <2>1, <2>2, FitsStill DEF HasAnswer, Due
  <2> QED BY <1>0, <2>1, <2>2, <2>3, RunsUpdated
<1> QED BY <1>1, <1>2, <1>3, <1>4, <1>5, <1>6

\* A result is put on its way.
LEMMA RunsResult ==
  ASSUME GraphInv, RunsInv, NEW status \in ActionStatus, ActionResultUpdate(status),
         UNCHANGED <<thread, run, row>>, thread.active.call # 0, ~thread.completed,
         pc \notin {"idle", "waiting"}
  PROVE  RunsInv'
<1>1. PICK result : result = [call |-> thread.active.call, status |-> status]
  OBVIOUS
<1>2. PICK t :
        /\ Update(t, Answered(result), "dispatch")
        /\ WellFormed(t) /\ t.active.call = 0 /\ Taken(t) = Taken(thread)
        /\ t.asked = thread.asked /\ t.answers = Append(thread.answers, result)
        /\ t.completed = thread.completed /\ t.pending = thread.pending
  BY <1>1, ResultFacts
<1>3. result \in ToolResults /\ thread.answers \in Seq(ToolResults)
  BY <1>1, ResultFacts, ChannelTypes DEF GraphInv, TypeOK
<1>4. PICK m \in Nat : m = Len(thread.answers) /\ DOMAIN thread.answers = 1..m
  BY <1>3, LengthIsNat
<1>5. /\ DOMAIN t.answers = 1..(m + 1) /\ t.answers[m + 1] = result
      /\ \A i \in 1..m : t.answers[i] = thread.answers[i]
  BY <1>2, <1>3, <1>4
<1>6. PICK n \in Nat : n = Len(thread.asked) /\ DOMAIN thread.asked = 1..n
  BY ThreadFacts, LengthIsNat
<1>7. HasAnswer(t, thread.active.call)
  <2>1. m + 1 \in DOMAIN t.answers /\ t.answers[m + 1].call = thread.active.call
    BY <1>1, <1>5
  <2> QED BY <2>1 DEF HasAnswer
<1>8. \A c \in DOMAIN thread.asked :
        /\ HasAnswer(thread, c) => HasAnswer(t, c)
        /\ Due(t, c) => Due(thread, c)
        /\ Due(thread, c) => Due(t, c) \/ HasAnswer(t, c)
  <2> SUFFICES ASSUME NEW c \in DOMAIN thread.asked
               PROVE  /\ HasAnswer(thread, c) => HasAnswer(t, c)
                      /\ Due(t, c) => Due(thread, c)
                      /\ Due(thread, c) => Due(t, c) \/ HasAnswer(t, c)
    OBVIOUS
  <2>1. HasAnswer(thread, c) => HasAnswer(t, c)
    BY <1>4, <1>5 DEF HasAnswer
  <2>2. c # 0
    BY <1>6
  <2> QED BY <1>2, <1>7, <2>1, <2>2 DEF Due
<1>9. CallsFit(t)
  BY <1>2, <1>8, FitsStill DEF RunsInv
<1>10. Fits("dispatch", t)
  BY <1>2 DEF Fits
<1> QED BY <1>2, <1>9, <1>10, RunsUpdated

\* The steps that end a call.
LEMMA RunsResultStep ==
  ASSUME GraphInv, RunsInv,
         Reject \/ RefuseTool \/ ToolReturns \/ ToolTimesOut \/ ChildReturns \/ ChildTimesOut
  PROVE  RunsInv'
<1>1. /\ pc \in {"confirm", "tool", "calling", "child"} /\ UNCHANGED <<thread, run, row>>
      /\ \E status \in ActionStatus : ActionResultUpdate(status)
  <2>1. CASE Reject
    BY <2>1 DEF Reject, Begins, ActionStatus
  <2>2. CASE RefuseTool
    BY <2>2 DEF RefuseTool, Begins, ActionStatus
  <2>3. CASE ToolReturns \/ ToolTimesOut
    BY <2>3 DEF ToolReturns, ToolTimesOut, ActionStatus
  <2>4. CASE ChildReturns \/ ChildTimesOut
    BY <2>4 DEF ChildReturns, ChildTimesOut, ActionStatus
  <2> QED BY <2>1, <2>2, <2>3, <2>4
<1>2. thread.active.call # 0 /\ ~thread.completed
  BY <1>1 DEF GraphInv, Ready, RunsInv, Fits, Nodes
<1> QED BY <1>1, <1>2, RunsResult

\* The other steps.
LEMMA RunsOtherStep ==
  ASSUME GraphInv, RunsInv,
         CallTool \/ CallSubagent \/ Publish \/ Commit \/ Final
  PROVE  RunsInv'
<1>1. CASE CallTool \/ CallSubagent
  <2>1. /\ UNCHANGED <<thread, draft, run, row>> /\ pc' \in {"calling", "child"}
        /\ pc \in {"tool", "subagent"}
    BY <1>1 DEF CallTool, CallSubagent, Begins
  <2>2. RowsFit' /\ CallsFit(thread)' /\ CallsFit(draft)'
    BY <2>1 DEF RunsInv, RowsFit, CallsFit, AskedInOrder
  <2> QED BY <2>1, <2>2 DEF RunsInv, Fits, Nodes
<1>2. CASE Publish
  <2>1. UNCHANGED <<thread, draft, run, row, pc, next>>
    BY <1>2 DEF Publish
  <2> QED BY <2>1 DEF RunsInv, RowsFit, CallsFit, AskedInOrder, Fits
<1>3. CASE Commit
  <2>1. /\ thread' = draft /\ draft' = draft /\ run' = run /\ row' = row
        /\ pc = "publish" /\ pc' = next /\ next \in Nodes
    BY <1>3 DEF Commit, GraphInv, TypeOK
  <2>2. RowsFit' /\ CallsFit(thread)' /\ CallsFit(draft)'
    BY <2>1 DEF RunsInv, RowsFit, CallsFit, AskedInOrder, Nodes
  <2> QED BY <2>1, <2>2 DEF RunsInv, Fits, Nodes
<1>4. CASE Final
  <2>1. UNCHANGED <<thread, draft, run, row>> /\ pc' = "complete" /\ pc = "final"
    BY <1>4 DEF Final, Begins
  <2>2. RowsFit' /\ CallsFit(thread)' /\ CallsFit(draft)'
    BY <2>1 DEF RunsInv, RowsFit, CallsFit, AskedInOrder
  <2> QED BY <2>1, <2>2 DEF RunsInv, Fits, Nodes
<1> QED BY <1>1, <1>2, <1>3, <1>4

\* A stream breaks off, waits, or its run ends.
LEMMA RunsEndStep ==
  ASSUME GraphInv, RunsInv,
         \/ Interrupt \/ Complete \/ Settle \/ AbortResume
         \/ OutOfSteps \/ Break \/ ChildRaisesTimeout
  PROVE  RunsInv'
<1>0. row \in [Runs -> RunRow] /\ run \in 0..MaxRuns /\ Runs \subseteq Nat /\ Runs = 1..MaxRuns
  BY MainGraphAssumption DEF GraphInv, TypeOK, Runs
<1>1. CASE OutOfSteps \/ Break \/ ChildRaisesTimeout
  <2>1. /\ StreamGone /\ UNCHANGED <<thread, run, row>> /\ pc' = "broken"
        /\ pc \notin {"idle", "waiting"}
    BY <1>1 DEF OutOfSteps, Break, ChildRaisesTimeout, Breaks, Nodes, StreamPcs
  <2>2. RowsFit'
    BY <2>1 DEF RunsInv, RowsFit
  <2> QED BY <2>1, <2>2, RunsGone
<1>2. CASE Interrupt
  <2>1. /\ StreamGone /\ UNCHANGED <<thread, run>> /\ pc = "confirm" /\ run # 0
        /\ ~thread.completed
    BY <1>2 DEF Interrupt, GraphInv, RunsInv, Fits, Nodes
  <2>2. \/ pc' = "broken" /\ row' = row
        \/ /\ pc' = "waiting"
           /\ row' = [row EXCEPT ![run] = [status |-> "WAITING_INPUT", pending |-> latest]]
    BY <1>2 DEF Interrupt, PendingAction
  <2>3. RowsFit' /\ \A r \in Runs : r # run => row'[r] = row[r]
    <3>1. CASE pc' = "broken" /\ row' = row
      BY <2>1, <3>1 DEF RunsInv, RowsFit
    <3>2. CASE /\ pc' = "waiting"
               /\ row' = [row EXCEPT ![run] = [status |-> "WAITING_INPUT", pending |-> latest]]
      <4>1. run \in Runs
        BY <1>0, <2>1
      <4>2. /\ row'[run].status = "WAITING_INPUT"
            /\ \A r \in Runs : r # run => row'[r] = row[r]
        BY <1>0, <3>2, <4>1
      <4> QED BY <1>0, <2>1, <3>2, <4>2 DEF RunsInv, RowsFit
    <3> QED BY <2>2, <3>1, <3>2
  <2> QED BY <2>1, <2>2, <2>3, RunsGone
<1>3. ASSUME NEW status \in {"SUCCEEDED", "FAILED"}, EndRun(status), pc # "idle",
             status = "SUCCEEDED" => thread.completed
      PROVE  RunsInv'
  <2>1. /\ StreamGone /\ UNCHANGED <<thread, run>> /\ pc' = "idle" /\ run # 0
        /\ row' = [row EXCEPT ![run] = [status |-> status, pending |-> 0]]
    BY <1>3 DEF EndRun, GraphInv
  <2>2. RowsFit' /\ (\A r \in Runs : r # run => row'[r] = row[r]) /\ row'[run].status = status
    BY <1>0, <2>1 DEF RunsInv, RowsFit
  <2> QED BY <1>3, <2>1, <2>2, RunsGone
<1>4. CASE Complete \/ Settle \/ AbortResume
  BY <1>3, <1>4 DEF Complete, Settle, AbortResume
<1> QED BY <1>1, <1>2, <1>4

\* The user decides.
LEMMA RunsResumeStep ==
  ASSUME GraphInv, RunsInv, NEW decision, Resume(decision)
  PROVE  RunsInv'
<1>1. /\ UNCHANGED <<thread, draft, run>> /\ pc = "waiting" /\ pc' = "confirm" /\ run # 0
      /\ row' = [row EXCEPT ![run] = [status |-> "RUNNING", pending |-> 0]]
      /\ row \in [Runs -> RunRow] /\ run \in 0..MaxRuns /\ draft = thread
  BY DEF Resume, GraphInv, TypeOK
<1>2. /\ run \in Runs /\ Runs \subseteq Nat /\ row[run].status = "WAITING_INPUT"
      /\ row'[run].status = "RUNNING" /\ \A r \in Runs : r # run => row'[r] = row[r]
  BY <1>1, MainGraphAssumption DEF Runs, RunsInv, RowsFit
<1>3. RowsFit'
  BY <1>1, <1>2 DEF RunsInv, RowsFit
<1>4. CallsFit(thread)'
  <2>1. \A c \in DOMAIN thread.asked :
          /\ thread.asked[c].run \in 1..run
          /\ row[thread.asked[c].run].status = "FAILED" => row'[thread.asked[c].run].status = "FAILED"
    <3> SUFFICES ASSUME NEW c \in DOMAIN thread.asked
                 PROVE  /\ thread.asked[c].run \in 1..run
                        /\ row[thread.asked[c].run].status = "FAILED" =>
                             row'[thread.asked[c].run].status = "FAILED"
      OBVIOUS
    <3>1. thread.asked[c].run \in 1..run
      BY DEF RunsInv, CallsFit, AskedInOrder
    <3>2. thread.asked[c].run \in Runs
      BY <1>1, <3>1, MainGraphAssumption DEF Runs
    <3> QED BY <1>2, <3>1, <3>2
  <2> QED BY <1>1, <2>1 DEF RunsInv, CallsFit, AskedInOrder
<1>5. CallsFit(draft)'
  BY <1>1, <1>4 DEF CallsFit, AskedInOrder
<1> QED BY <1>1, <1>3, <1>4, <1>5 DEF RunsInv, Fits, Nodes

\* A new turn: what was still due was of a run that failed.
LEMMA RunsStartStep ==
  ASSUME GraphInv, RunsInv, StartTurn
  PROVE  RunsInv'
<1>1. /\ pc = "idle" /\ pc' = "memory" /\ run' = run + 1 /\ run < MaxRuns
      /\ row' = [row EXCEPT ![run + 1].status = "RUNNING"] /\ draft' = thread'
      /\ thread' = [thread EXCEPT !.pending = <<>>, !.active = NoCall, !.completed = FALSE]
      /\ row \in [Runs -> RunRow] /\ run \in Nat
  BY MainGraphAssumption DEF StartTurn, GraphInv, TypeOK
<1>2. PICK t : t = thread'
  OBVIOUS
<1>3. /\ WellFormed(t) /\ t.answers = thread.answers /\ t.asked = thread.asked
      /\ t.pending = <<>> /\ t.active.call = 0 /\ ~t.completed
  <2>1. /\ WellFormed(t) /\ t.answers = thread.answers /\ t.asked = thread.asked
        /\ t.pending = <<>> /\ t.active = NoCall
    BY <1>1, <1>2, ThreadFacts, ResetIsWellFormed
  <2>2. t.completed = FALSE
    BY <1>1, <1>2, ThreadFacts DEF WellFormed, Thread
  <2> QED BY <2>1, <2>2 DEF NoCall
<1>4. run + 1 \in Runs /\ Runs \subseteq Nat /\ 0 \notin Runs
  BY <1>1, MainGraphAssumption DEF Runs
<1>5. row'[run + 1].status = "RUNNING" /\ \A r \in Runs : r # run + 1 => row'[r] = row[r]
  BY <1>1, <1>4 DEF RunRow
<1>6. RowsFit'
  <2>1. ASSUME NEW r \in Runs
        PROVE  /\ r > run + 1 => row'[r].status = "ABSENT"
               /\ r < run + 1 => row'[r].status \in {"SUCCEEDED", "FAILED"}
    <3>1. r \in Nat /\ r # 0
      BY <1>4
    <3>2. CASE r > run + 1
      BY <1>1, <1>5, <3>1, <3>2 DEF RunsInv, RowsFit
    <3>3. CASE r = run
      BY <1>1, <1>5, <3>1, <3>3 DEF RunsInv, RowsFit
    <3>4. CASE r < run
      BY <1>1, <1>5, <3>1, <3>4 DEF RunsInv, RowsFit
    <3> QED BY <1>1, <3>1, <3>2, <3>3, <3>4
  <2> QED BY <1>1, <1>5, <2>1 DEF RowsFit
<1>7. PICK n \in Nat : n = Len(t.asked) /\ DOMAIN t.asked = 1..n /\ Taken(t) = n
  BY <1>3, ShapeOf
<1>8. \A c \in DOMAIN t.asked :
        /\ t.asked[c].run \in 1..run
        /\ HasAnswer(t, c) \/ row[t.asked[c].run].status = "FAILED"
  <2> SUFFICES ASSUME NEW c \in DOMAIN t.asked
               PROVE  /\ t.asked[c].run \in 1..run
                      /\ HasAnswer(t, c) \/ row[t.asked[c].run].status = "FAILED"
    OBVIOUS
  <2>1. t.asked[c].run \in 1..run
    BY <1>3 DEF RunsInv, CallsFit, AskedInOrder
  <2>2. CASE ~Due(thread, c)
    BY <1>3, <2>1, <2>2 DEF RunsInv, CallsFit, HasAnswer
  <2>3. CASE Due(thread, c)
    <3>1. thread.asked[c].run = run /\ run # 0
      BY <1>3, <2>1, <2>3 DEF RunsInv, CallsFit
    <3>2. ~(thread.pending = <<>> /\ thread.active.call = 0)
      <4>1. PICK m \in Nat : /\ m = Len(thread.asked) /\ DOMAIN thread.asked = 1..m
                             /\ (thread.pending = <<>> => Taken(thread) = m)
        BY ThreadFacts, ShapeOf
      <4>2. c \in 1..m
        BY <1>3, <4>1
      <4> QED BY <2>3, <4>1, <4>2 DEF Due
    <3>3. ~thread.completed
      BY <3>2 DEF RunsInv, CallsFit
    <3>4. row[run].status = "FAILED"
      BY <1>1, <3>1, <3>3 DEF RunsInv, RowsFit
    <3> QED BY <1>3, <2>1, <3>1, <3>4
  <2> QED BY <2>2, <2>3
<1>9. \A c \in DOMAIN t.asked : ~Due(t, c) /\ t.asked[c].run \in Runs /\ t.asked[c].run # run + 1
                                /\ t.asked[c].run \in 1..(run + 1)
  <2> SUFFICES ASSUME NEW c \in DOMAIN t.asked
               PROVE  ~Due(t, c) /\ t.asked[c].run \in Runs /\ t.asked[c].run # run + 1
                      /\ t.asked[c].run \in 1..(run + 1)
    OBVIOUS
  <2>1. ~Due(t, c)
    BY <1>3, <1>7 DEF Due
  <2>2. t.asked[c].run \in 1..run
    BY <1>8
  <2> QED BY <1>1, <2>1, <2>2, MainGraphAssumption DEF Runs
<1>10. CallsFit(t)'
  <2>1. AskedInOrder(t)'
    BY <1>1, <1>3, <1>9 DEF RunsInv, CallsFit, AskedInOrder
  <2>2. \A c \in DOMAIN t.asked : HasAnswer(t, c) \/ row'[t.asked[c].run].status = "FAILED"
    BY <1>5, <1>8, <1>9
  <2> QED BY <1>3, <1>9, <2>1, <2>2 DEF CallsFit
<1>11. CallsFit(thread)' /\ CallsFit(draft)'
  BY <1>1, <1>2, <1>10 DEF CallsFit, AskedInOrder
<1> QED BY <1>1, <1>2, <1>3, <1>6, <1>11 DEF RunsInv, Fits, Nodes

LEMMA RunsStart == Init => RunsInv
<1> SUFFICES ASSUME Init PROVE RunsInv
  OBVIOUS
<1>1. /\ thread.asked = <<>> /\ DOMAIN thread.asked = {} /\ thread.completed = FALSE
      /\ draft = thread /\ pc = "idle" /\ run = 0
      /\ \A r \in Runs : row[r].status = "ABSENT" /\ r \in Nat /\ r # 0
  BY MainGraphAssumption DEF Init, Runs
<1>2. RowsFit
  BY <1>1 DEF RowsFit
<1>3. CallsFit(thread)
  BY <1>1 DEF CallsFit, AskedInOrder
<1> QED BY <1>1, <1>2, <1>3 DEF RunsInv, Fits, Nodes

LEMMA RunsStep == GraphInv /\ RunsInv /\ [Next]_vars => RunsInv'
<1> SUFFICES ASSUME GraphInv, RunsInv, [Next]_vars PROVE RunsInv'
  OBVIOUS
<1>1. CASE Memory \/ Reply \/ Ask \/ Dispatch \/ Approve
  BY <1>1, RunsUpdateStep
<1>2. CASE Reject \/ RefuseTool \/ ToolReturns \/ ToolTimesOut \/ ChildReturns \/ ChildTimesOut
  BY <1>2, RunsResultStep
<1>3. CASE CallTool \/ CallSubagent \/ Publish \/ Commit \/ Final
  BY <1>3, RunsOtherStep
<1>4. CASE \/ Interrupt \/ Complete \/ Settle \/ AbortResume
           \/ OutOfSteps \/ Break \/ ChildRaisesTimeout
  BY <1>4, RunsEndStep
<1>5. CASE StartTurn
  BY <1>5, RunsStartStep
<1>6. CASE Resume("approved") \/ Resume("rejected")
  BY <1>6, RunsResumeStep
<1>7. CASE UNCHANGED vars
  <2>1. UNCHANGED <<thread, draft, pc, next, run, row>>
    BY <1>7 DEF vars, streamVars
  <2> QED BY <2>1 DEF RunsInv, RowsFit, CallsFit, AskedInOrder, Fits
<1> QED BY <1>1, <1>2, <1>3, <1>4, <1>5, <1>6, <1>7 DEF Next, StreamStep

\* When the model is asked, a call without its tool message is of a run that failed
\* (nothing else leaves one behind: dispatch empties the batch before solve).
THEOREM OpenCallsFailed == Spec => []OpenCallsAreOfFailedRuns
<1>1. GraphInv /\ RunsInv => OpenCallsAreOfFailedRuns
  <2> SUFFICES ASSUME GraphInv, RunsInv, pc = "solve", NEW c \in DOMAIN thread.asked,
                      AnswersTo(c) = {}
               PROVE  row[thread.asked[c].run].status = "FAILED"
    BY DEF OpenCallsAreOfFailedRuns
  <2>1. ~HasAnswer(thread, c)
    BY DEF AnswersTo, HasAnswer
  <2>2. thread.pending = <<>> /\ thread.active.call = 0
    BY DEF RunsInv, Fits
  <2>3. ~Due(thread, c)
    <3>1. PICK n \in Nat : /\ DOMAIN thread.asked = 1..n
                           /\ (thread.pending = <<>> => Taken(thread) = n)
      BY ThreadFacts, ShapeOf
    <3> QED BY <2>2, <3>1 DEF Due
  <2> QED BY <2>1, <2>3 DEF RunsInv, CallsFit
<1> QED BY <1>1, GraphInvHolds, RunsStart, RunsStep, PTL DEF Spec

-----------------------------------------------------------------------------
(* The history. *)

\* Between updates nothing is queued, and the draft is the thread.
LEMMA NothingQueued ==
  ASSUME GraphInv, HistoryInv, pc # "publish"
  PROVE  queue = <<>> /\ Queued = {} /\ draft = thread /\ Published = thread
BY DEF GraphInv, HistoryInv, QueueFits, Queued, Published

LEMMA CallsWithOne ==
  ASSUME NEW type, NEW e
  PROVE  /\ CallsWith(type, <<>>) = {}
         /\ CallsWith(type, <<e>>) = IF e.type = type THEN {e.call} ELSE {}
<1>1. CallsWith(type, <<>>) = {}
  BY DEF CallsWith
<1>2. DOMAIN <<e>> = {1} /\ <<e>>[1] = e
  OBVIOUS
<1>3. CallsWith(type, <<e>>) = IF e.type = type THEN {e.call} ELSE {}
  BY <1>2 DEF CallsWith
<1> QED BY <1>1, <1>3

\* An update that is put on its way keeps the history in step, if it says the same
\* as its event, and what it says of the rows is so.
LEMMA HistoryUpdated ==
  ASSUME HistoryInv, NEW t, NEW events, NEW edge, Update(t, events, edge),
         UNCHANGED <<thread, run, row, historyVars>>, pc \notin {"idle", "broken"},
         NEW e, events \in {<<>>, <<e>>},
         events # <<>> =>
           /\ t.asked = thread.asked
           /\ IF e.type = "action_started"
              THEN e.call = t.active.call /\ t.answers = thread.answers
              ELSE /\ e.call = thread.active.call
                   /\ t.answers = Append(thread.answers, [call |-> e.call, status |-> e.status]),
         \A c \in seen.started \cup CallsWith("action_started", events) : c <= Taken(t),
         \A c \in seen.answered \cup CallsWith("action_result", events) : HasAnswer(t, c),
         \A c \in DOMAIN t.asked :
           t.asked[c].run # run =>
             c \in DOMAIN thread.asked /\ AnswersOf(t, c) = AnswersOf(thread, c),
         NEW except,
         except = IF events # <<>> /\ e.type = "action_started" THEN {e.call} ELSE {},
         Announced(t, except),
         NEW p, p = IF events = <<>> THEN t ELSE thread,
         \A c \in DOMAIN p.asked : p.asked[c].run = run => RowHolds(p, p.asked[c].batch)
  PROVE  HistoryInv'
<1>1. /\ thread' = thread /\ run' = run /\ row' = row /\ callRows' = callRows
      /\ resultRows' = resultRows /\ pc' = "publish" /\ draft' = t /\ queue' = events
      /\ seen'.started = seen.started \cup CallsWith("action_started", events)
      /\ seen'.answered = seen.answered \cup CallsWith("action_result", events)
  BY DEF historyVars, Update
<1>2. Len(<<e>>) = 1 /\ Head(<<e>>) = e
  OBVIOUS
<1>3. QueueFits'
  BY <1>1, <1>2 DEF QueueFits
<1>4. SeenFits'
  BY <1>1 DEF SeenFits, HasAnswer, Taken
<1>5. OnlyCurrent'
  <2>1. \A c : AnswersOf(draft, c)' = AnswersOf(t, c)
    BY <1>1 DEF AnswersOf
  <2>2. \A c : AnswersOf(thread, c)' = AnswersOf(thread, c)
    BY <1>1 DEF AnswersOf
  <2> QED BY <1>1, <2>1, <2>2 DEF OnlyCurrent
<1>6. Announced(thread, {})'
  BY <1>1 DEF HistoryInv, Announced, Taken
<1>7. Announced(draft, Queued)'
  <2>1. Queued' = except
    BY <1>1, <1>2 DEF Queued
  <2> QED BY <1>1, <2>1 DEF Announced, Taken
<1>8. RowsHold'
  <2>1. Published' = p
    BY <1>1 DEF Published
  <2>2. \A b : RowHolds(Published, b)' <=> RowHolds(p, b)
    <3>1. \A b : AnswersIn(Published, b)' = AnswersIn(p, b)
      BY <2>1 DEF AnswersIn
    <3>2. \A b : BatchIn(Published, b)' = BatchIn(p, b)
      BY <2>1 DEF BatchIn
    <3> QED BY <1>1, <3>1, <3>2 DEF RowHolds
  <2> QED BY <1>1, <2>1, <2>2 DEF RowsHold
<1>9. RowsAreOfBatches' /\ HistoryIsTrue'
  BY <1>1
  DEF HistoryInv, RowsAreOfBatches, BatchIn, BatchesOf, HistoryIsTrue, HistoryIsComplete, NoOpenResults,
      CallsOf, BatchOf, AnswersTo
<1> QED BY <1>3, <1>4, <1>5, <1>6, <1>7, <1>8, <1>9 DEF HistoryInv

\* Updates that add neither call nor answer; what they take is announced.
LEMMA HistorySame ==
  ASSUME GraphInv, HistoryInv, NEW t, NEW events, NEW edge, Update(t, events, edge),
         UNCHANGED <<thread, run, row, historyVars>>,
         pc \notin {"idle", "broken", "publish"}, WellFormed(t),
         t.asked = thread.asked, t.answers = thread.answers, Taken(thread) <= Taken(t),
         NEW call, call <= Taken(t), t.active.call = call \/ events = <<>>,
         events \in {<<>>, <<[type |-> "action_started", call |-> call]>>},
         \A c \in DOMAIN thread.asked :
           c <= Taken(t) => c <= Taken(thread) \/ (events # <<>> /\ c = call)
  PROVE  HistoryInv'
<1> DEFINE e == [type |-> "action_started", call |-> call]
<1>1. queue = <<>> /\ Queued = {} /\ draft = thread /\ Published = thread
  BY NothingQueued
<1>2. Taken(t) \in Int /\ Taken(thread) \in Int
  BY ChannelTypes DEF GraphInv, WellFormed
<1>3. \A c \in seen.started \cup CallsWith("action_started", events) : c <= Taken(t)
  <2>1. seen.started \subseteq Nat
    BY ToolHistoryAssumption DEF GraphInv, TypeOK, Calls
  <2>2. \A c \in seen.started : c <= Taken(thread)
    BY <1>1 DEF HistoryInv, SeenFits
  <2>3. CallsWith("action_started", events) \subseteq {call}
    BY CallsWithOne
  <2> QED BY <1>2, <2>1, <2>2, <2>3
<1>4. \A c \in seen.answered \cup CallsWith("action_result", events) : HasAnswer(t, c)
  <2>1. CallsWith("action_result", events) = {}
    BY CallsWithOne
  <2> QED BY <1>1, <2>1 DEF HistoryInv, SeenFits, HasAnswer
<1>5. \A c \in DOMAIN t.asked :
        t.asked[c].run # run =>
          c \in DOMAIN thread.asked /\ AnswersOf(t, c) = AnswersOf(thread, c)
  BY DEF AnswersOf
<1>6. PICK except :
        except = IF events # <<>> /\ e.type = "action_started" THEN {e.call} ELSE {}
  OBVIOUS
<1>14. Announced(t, except)
  <2>1. Announced(thread, {})
    BY DEF HistoryInv
  <2> QED BY <1>6, <2>1 DEF Announced
<1>7. \A p \in {t, thread} :
        \A c \in DOMAIN p.asked : p.asked[c].run = run => RowHolds(p, p.asked[c].batch)
  <2>1. \A c \in DOMAIN thread.asked :
          thread.asked[c].run = run => RowHolds(thread, thread.asked[c].batch)
    BY <1>1 DEF HistoryInv, RowsHold
  <2>2. \A b : RowHolds(t, b) <=> RowHolds(thread, b)
    BY DEF RowHolds, AnswersIn, BatchIn
  <2> QED BY <2>1, <2>2
<1>8. e.type = "action_started" /\ e.call = call
  OBVIOUS
<1>9. events \in {<<>>, <<e>>}
  OBVIOUS
<1> HIDE DEF e
<1>10. events # <<>> =>
         /\ t.asked = thread.asked
         /\ IF e.type = "action_started"
            THEN e.call = t.active.call /\ t.answers = thread.answers
            ELSE /\ e.call = thread.active.call
                 /\ t.answers = Append(thread.answers, [call |-> e.call, status |-> e.status])
  BY <1>8
<1>11. PICK p : p = IF events = <<>> THEN t ELSE thread
  OBVIOUS
<1>12. \A c \in DOMAIN p.asked : p.asked[c].run = run => RowHolds(p, p.asked[c].batch)
  BY <1>7, <1>11
<1>13. pc \notin {"idle", "broken"}
  OBVIOUS
<1> QED BY <1>3, <1>4, <1>5, <1>6, <1>9, <1>10, <1>11, <1>12, <1>13, <1>14, HistoryUpdated

\* The steps that put such an update on its way.
LEMMA HistorySameStep ==
  ASSUME GraphInv, RunsInv, HistoryInv, Memory \/ Reply \/ Dispatch \/ Approve
  PROVE  HistoryInv'
<1>0. UNCHANGED <<thread, run, row, historyVars>> /\ WellFormed(thread)
  BY DEF Memory, Reply, Dispatch, Approve, GraphInv
<1>n. PICK n \in Nat : /\ n = Len(thread.asked) /\ DOMAIN thread.asked = 1..n
                       /\ Taken(thread) \in Nat /\ Taken(thread) <= n
                       /\ thread.active.call \in Nat /\ thread.active.call <= Taken(thread)
  BY <1>0, ShapeOf
<1>1. ASSUME NEW t, NEW edge, Update(t, <<>>, edge), pc \notin {"idle", "broken", "publish"},
             WellFormed(t), t.asked = thread.asked, t.answers = thread.answers,
             Taken(t) = Taken(thread)
      PROVE  HistoryInv'
  <2>1. 0 <= Taken(t) /\ Taken(thread) <= Taken(t)
    BY <1>1, <1>n
  <2>2. PICK events : events = <<>>
    OBVIOUS
  <2>3. events \in {<<>>, <<[type |-> "action_started", call |-> 0]>>}
    BY <2>2
  <2>4. \A c \in DOMAIN thread.asked :
          c <= Taken(t) => c <= Taken(thread) \/ (events # <<>> /\ c = 0)
    BY <1>1
  <2>5. Update(t, events, edge) /\ pc \notin {"idle", "broken", "publish"}
    BY <1>1, <2>2
  <2> QED BY <1>0, <1>1, <2>1, <2>2, <2>3, <2>4, <2>5, HistorySame
<1>2. CASE Memory
  BY <1>0, <1>1, <1>2 DEF Memory, Begins
<1>3. CASE Reply
  BY <1>1, <1>3, ReplyFacts
<1>4. CASE Dispatch /\ ~(thread.active.call = 0 /\ thread.pending # <<>>)
  <2>1. pc = "dispatch" /\ Update(thread, <<>>, AfterDispatch(thread))
    BY <1>4 DEF Dispatch, Begins
  <2> QED BY <1>0, <1>1, <2>1
<1>5. CASE Dispatch /\ thread.active.call = 0 /\ thread.pending # <<>>
  <2>1. PICK t, active :
          /\ Update(t, Started(active), AfterDispatch(t)) /\ WellFormed(t)
          /\ AfterDispatch(t) \in {"confirm", "tool", "subagent"}
          /\ t.active = active /\ active.call = Taken(thread) + 1
          /\ Taken(t) = Taken(thread) + 1 /\ active.call \in DOMAIN thread.asked
          /\ t.answers = thread.answers /\ t.asked = thread.asked
          /\ t.completed = thread.completed
    BY <1>5, DispatchFacts
  <2>2. pc = "dispatch"
    BY <1>5 DEF Dispatch, Begins
  <2>3. active.call \notin {0} \cup seen.started
    <3>1. draft = thread
      BY <2>2, NothingQueued
    <3>2. \A c \in seen.started : c <= Taken(thread)
      BY <3>1 DEF HistoryInv, SeenFits
    <3> QED BY <1>n, <2>1, <3>2
  <2>4. PICK call : call = active.call
    OBVIOUS
  <2>5. Started(active) = <<[type |-> "action_started", call |-> call]>>
    BY <2>3, <2>4 DEF Started
  <2>6. \A c \in DOMAIN thread.asked : c <= Taken(t) => c <= Taken(thread) \/ c = call
    BY <1>n, <2>1, <2>4
  <2>7. call <= Taken(t) /\ Taken(thread) <= Taken(t) /\ t.active.call = call
    BY <1>n, <2>1, <2>4
  <2>8. <<[type |-> "action_started", call |-> call]>> # <<>>
    OBVIOUS
  <2> QED BY <1>0, <2>1, <2>2, <2>5, <2>6, <2>7, <2>8, HistorySame
<1>6. CASE Approve
  <2>1. PICK t : /\ Update(t, Started(t.active), AfterConfirm(t)) /\ WellFormed(t)
                 /\ AfterConfirm(t) \in {"tool", "subagent"}
                 /\ t.active.call = thread.active.call /\ Taken(t) = Taken(thread)
                 /\ t.asked = thread.asked /\ t.answers = thread.answers
                 /\ t.pending = thread.pending /\ t.completed = thread.completed
    BY <1>6, ApproveFacts
  <2>2. pc = "confirm"
    BY <1>6 DEF Approve, Begins
  <2>3. PICK call : call = t.active.call
    OBVIOUS
  <2>4. Started(t.active) \in {<<>>, <<[type |-> "action_started", call |-> call]>>}
    BY <2>3 DEF Started
  <2>5. call <= Taken(t) /\ Taken(thread) <= Taken(t)
    BY <1>n, <2>1, <2>3
  <2>6. PICK events : events = Started(t.active)
    OBVIOUS
  <2>7. \A c \in DOMAIN thread.asked :
          c <= Taken(t) => c <= Taken(thread) \/ (events # <<>> /\ c = call)
    BY <2>1
  <2>8. pc \notin {"idle", "broken", "publish"}
    BY <2>2
  <2>9. Update(t, events, AfterConfirm(t)) /\ t.active.call = call
    BY <2>1, <2>3, <2>6
  <2>10. events \in {<<>>, <<[type |-> "action_started", call |-> call]>>}
    BY <2>4, <2>6
  <2> QED BY <1>0, <2>1, <2>5, <2>7, <2>8, <2>9, <2>10, HistorySame
<1> QED BY <1>2, <1>3, <1>4, <1>5, <1>6

\* A new batch has no answers, and its row does not exist.
LEMMA HistoryAskStep ==
  ASSUME GraphInv, RunsInv, HistoryInv, Ask
  PROVE  HistoryInv'
<1>0. UNCHANGED <<thread, run, row, historyVars>> /\ pc = "solve" /\ WellFormed(thread)
  BY DEF Ask, Begins, GraphInv
<1>n. PICK n \in Nat :
        /\ n = Len(thread.asked) /\ DOMAIN thread.asked = 1..n
        /\ \A i \in DOMAIN thread.answers : thread.answers[i].call \in 1..n
  BY <1>0, ShapeOf
<1>1. PICK t :
        /\ Update(t, <<>>, "dispatch") /\ WellFormed(t)
        /\ DOMAIN thread.asked = 1..n /\ n \in Nat
        /\ NewBatch(t, n)
        /\ t.answers = thread.answers /\ t.active.call = 0
        /\ Taken(t) = n /\ Taken(thread) = n /\ t.completed = thread.completed
  BY <1>n, AskFacts
<1>2. /\ \A c \in 1..n : t.asked[c] = thread.asked[c]
  BY <1>1 DEF NewBatch
<1>3. PICK j \in Nat \ {0} :
        /\ DOMAIN t.asked = 1..(n + j)
        /\ \A c \in (n + 1)..(n + j) : t.asked[c].batch = NextBatch /\ t.asked[c].run = run
  BY <1>1 DEF NewBatch
<1>4. \A c \in 1..(n + j) : c \in 1..n \/ (c \in (n + 1)..(n + j) /\ c > n)
  OBVIOUS
<1>5. 1..n \subseteq 1..(n + j)
  OBVIOUS
<1>6. queue = <<>> /\ Queued = {} /\ draft = thread /\ Published = thread
  BY <1>0, NothingQueued
<1>7. \A c \in seen.started \cup CallsWith("action_started", <<>>) : c <= Taken(t)
  BY <1>1, <1>6, CallsWithOne DEF HistoryInv, SeenFits
<1>8. \A c \in seen.answered \cup CallsWith("action_result", <<>>) : HasAnswer(t, c)
  BY <1>1, <1>6, CallsWithOne DEF HistoryInv, SeenFits, HasAnswer
<1>9. \A c \in DOMAIN t.asked :
        t.asked[c].run # run =>
          c \in DOMAIN thread.asked /\ AnswersOf(t, c) = AnswersOf(thread, c)
  BY <1>1, <1>3, <1>4 DEF AnswersOf
<1>10. Announced(t, {})
  <2>1. Announced(thread, {})
    BY DEF HistoryInv
  <2> QED BY <1>1, <1>2, <1>3, <1>4, <2>1 DEF Announced
<1>11. \A b : AnswersIn(t, b) = AnswersIn(thread, b)
  <2>1. \A i \in DOMAIN thread.answers :
          t.asked[thread.answers[i].call] = thread.asked[thread.answers[i].call]
    BY <1>n, <1>2
  <2> QED BY <1>1, <2>1 DEF AnswersIn
<1>12. \A c \in 1..n : thread.asked[c].batch # NextBatch
  <2>1. \A c \in 1..n : thread.asked[c].batch \in Nat
    BY <1>0, <1>n, ShapeOf
  <2> QED BY <1>n, <2>1, NextBatchIsNew DEF RunsInv, CallsFit
<1>13. ASSUME NEW c \in DOMAIN t.asked, t.asked[c].run = run
       PROVE  RowHolds(t, t.asked[c].batch)
  <2>1. CASE c \in 1..n
    <3>1. PICK b : b = thread.asked[c].batch
      OBVIOUS
    <3>2. RowHolds(thread, b) /\ t.asked[c].batch = b
      BY <1>0, <1>2, <1>6, <1>13, <1>n, <2>1, <3>1 DEF HistoryInv, RowsHold
    <3>3. BatchIn(t, b) = BatchIn(thread, b)
      BY <1>n, <1>2, <1>3, <1>4, <1>5, <1>12, <2>1, <3>1 DEF BatchIn
    <3> QED BY <1>11, <3>2, <3>3 DEF RowHolds
  <2>2. CASE c \notin 1..n
    <3>1. t.asked[c].batch = NextBatch
      BY <1>3, <1>4, <2>2
    <3>2. BatchIn(thread, NextBatch) = {}
      BY <1>n, <1>12 DEF BatchIn
    <3>3. NextBatch \in Batches
      <4>1. t.asked[c].batch \in Batches
        BY <1>1, ShapeOf
      <4> QED BY <3>1, <4>1
    <3>4. AnswersIn(thread, NextBatch) = {}
      BY <1>n, <1>12 DEF AnswersIn
    <3>5. resultRows[NextBatch] = [status |-> "ABSENT", results |-> {}]
      BY <3>2, <3>3 DEF HistoryInv, RowsAreOfBatches
    <3> QED BY <1>11, <3>1, <3>4, <3>5 DEF RowHolds
  <2> QED BY <2>1, <2>2
<1> QED BY <1>0, <1>1, <1>7, <1>8, <1>9, <1>10, <1>13, HistoryUpdated


\* What one more answer changes.
LEMMA AnswerAdded ==
  ASSUME NEW u, u.answers \in Seq(ToolResults), NEW result \in ToolResults, NEW t,
         t.asked = u.asked, t.answers = Append(u.answers, result)
  PROVE  /\ HasAnswer(t, result.call)
         /\ \A c : HasAnswer(u, c) => HasAnswer(t, c)
         /\ \A c : c # result.call => AnswersOf(t, c) = AnswersOf(u, c)
         /\ \A b : AnswersIn(t, b) = IF u.asked[result.call].batch = b
                                     THEN AnswersIn(u, b) \cup {result} ELSE AnswersIn(u, b)
<1>1. PICK m \in Nat : m = Len(u.answers) /\ DOMAIN u.answers = 1..m
  BY LengthIsNat
<1>2. /\ DOMAIN t.answers = 1..(m + 1) /\ t.answers[m + 1] = result
      /\ \A i \in 1..m : t.answers[i] = u.answers[i]
  BY <1>1
<1>3. m + 1 \in 1..(m + 1) /\ 1..m \subseteq 1..(m + 1)
      /\ \A i \in 1..(m + 1) : i \in 1..m \/ i = m + 1
  OBVIOUS
<1>4. HasAnswer(t, result.call)
  BY <1>2, <1>3 DEF HasAnswer
<1>5. \A c : HasAnswer(u, c) => HasAnswer(t, c)
  BY <1>1, <1>2, <1>3 DEF HasAnswer
<1>6. ASSUME NEW c, c # result.call
      PROVE  AnswersOf(t, c) = AnswersOf(u, c)
  <2>1. \A a : a \in AnswersOf(t, c) => a \in AnswersOf(u, c)
    BY <1>1, <1>2, <1>3, <1>6 DEF AnswersOf
  <2>2. \A a : a \in AnswersOf(u, c) => a \in AnswersOf(t, c)
    BY <1>1, <1>2, <1>3, <1>6 DEF AnswersOf
  <2> QED BY <2>1, <2>2
<1>7. ASSUME NEW b
      PROVE  AnswersIn(t, b) = IF u.asked[result.call].batch = b
                               THEN AnswersIn(u, b) \cup {result} ELSE AnswersIn(u, b)
  <2>1. AnswersIn(u, b) \subseteq AnswersIn(t, b)
    BY <1>1, <1>2, <1>3 DEF AnswersIn
  <2>2. u.asked[result.call].batch = b => result \in AnswersIn(t, b)
    BY <1>2, <1>3 DEF AnswersIn
  <2>3. \A a \in AnswersIn(t, b) :
          a \in AnswersIn(u, b) \/ (a = result /\ u.asked[result.call].batch = b)
    BY <1>1, <1>2, <1>3 DEF AnswersIn
  <2> QED BY <2>1, <2>2, <2>3
<1> QED BY <1>4, <1>5, <1>6, <1>7

\* A result is put on its way: its call has none yet, so its event is too.
LEMMA HistoryResult ==
  ASSUME GraphInv, RunsInv, HistoryInv, NEW status \in ActionStatus, ActionResultUpdate(status),
         UNCHANGED <<thread, run, row, historyVars>>, thread.active.call # 0,
         pc \notin {"idle", "broken", "publish"}
  PROVE  HistoryInv'
<1>1. PICK result : result = [call |-> thread.active.call, status |-> status]
  OBVIOUS
<1>2. PICK t :
        /\ Update(t, Answered(result), "dispatch")
        /\ WellFormed(t) /\ t.active.call = 0 /\ Taken(t) = Taken(thread)
        /\ t.asked = thread.asked /\ t.answers = Append(thread.answers, result)
        /\ t.completed = thread.completed /\ t.pending = thread.pending
  BY <1>1, ResultFacts
<1>3. result \in ToolResults /\ thread.answers \in Seq(ToolResults)
  BY <1>1, ResultFacts, ChannelTypes DEF GraphInv, TypeOK
<1>4. queue = <<>> /\ draft = thread /\ Published = thread
  BY NothingQueued
<1>5. PICK n \in Nat : n = Len(thread.asked) /\ DOMAIN thread.asked = 1..n
  BY ThreadFacts, LengthIsNat
<1>6. result.call = thread.active.call /\ result.status = status
  BY <1>1
<1>7. result.call \notin seen.answered
  <2>1. ~HasAnswer(thread, thread.active.call)
    BY AnsweredIsNotActive DEF HasAnswer
  <2> QED BY <1>4, <1>6, <2>1 DEF HistoryInv, SeenFits
<1>8. PICK e : e = [type |-> "action_result", call |-> result.call, status |-> result.status]
  OBVIOUS
<1>9. PICK events : events = <<e>>
  OBVIOUS
<1>10. Answered(result) = events
  BY <1>7, <1>8, <1>9 DEF Answered
<1>11. e.type = "action_result" /\ e.call = result.call /\ e.status = result.status
       /\ events # <<>> /\ events \in {<<>>, <<e>>}
  BY <1>8, <1>9
<1>12. t.answers = Append(thread.answers, [call |-> e.call, status |-> e.status])
  BY <1>1, <1>2, <1>6, <1>11
<1>13. events # <<>> =>
         /\ t.asked = thread.asked
         /\ IF e.type = "action_started"
            THEN e.call = t.active.call /\ t.answers = thread.answers
            ELSE /\ e.call = thread.active.call
                 /\ t.answers = Append(thread.answers, [call |-> e.call, status |-> e.status])
  BY <1>2, <1>6, <1>11, <1>12
<1>14. /\ CallsWith("action_started", events) = {}
       /\ CallsWith("action_result", events) = {result.call}
  BY <1>9, <1>11, CallsWithOne
<1>15. \A c \in seen.started \cup CallsWith("action_started", events) : c <= Taken(t)
  BY <1>2, <1>4, <1>14 DEF HistoryInv, SeenFits
<1>16. /\ HasAnswer(t, result.call)
       /\ \A c : HasAnswer(thread, c) => HasAnswer(t, c)
       /\ \A c : c # result.call => AnswersOf(t, c) = AnswersOf(thread, c)
  BY <1>2, <1>3, AnswerAdded
<1>17. \A c \in seen.answered \cup CallsWith("action_result", events) : HasAnswer(t, c)
  BY <1>4, <1>14, <1>16 DEF HistoryInv, SeenFits
<1>18. \A c \in DOMAIN t.asked :
         t.asked[c].run # run =>
           c \in DOMAIN thread.asked /\ AnswersOf(t, c) = AnswersOf(thread, c)
  <2> SUFFICES ASSUME NEW c \in DOMAIN thread.asked, thread.asked[c].run # run
               PROVE  AnswersOf(t, c) = AnswersOf(thread, c)
    BY <1>2
  <2>1. ~Due(thread, c)
    BY DEF RunsInv, CallsFit
  <2> QED BY <1>6, <1>16, <2>1 DEF Due
<1>19. PICK except :
         except = IF events # <<>> /\ e.type = "action_started" THEN {e.call} ELSE {}
  OBVIOUS
<1>20. Announced(t, except)
  <2>1. Announced(thread, {})
    BY DEF HistoryInv
  <2> QED BY <1>2, <1>11, <1>19, <2>1 DEF Announced
<1>21. PICK p : p = IF events = <<>> THEN t ELSE thread
  OBVIOUS
<1>22. \A c \in DOMAIN p.asked : p.asked[c].run = run => RowHolds(p, p.asked[c].batch)
  <2>1. p = thread
    BY <1>11, <1>21
  <2> QED BY <1>4, <2>1 DEF HistoryInv, RowsHold
<1>23. Update(t, events, "dispatch") /\ pc \notin {"idle", "broken"}
  BY <1>2, <1>10
<1> QED BY <1>11, <1>13, <1>15, <1>17, <1>18, <1>19, <1>20, <1>21, <1>22, <1>23, HistoryUpdated

\* The steps that end a call.
LEMMA HistoryResultStep ==
  ASSUME GraphInv, RunsInv, HistoryInv,
         Reject \/ RefuseTool \/ ToolReturns \/ ToolTimesOut \/ ChildReturns \/ ChildTimesOut
  PROVE  HistoryInv'
<1>1. /\ pc \in {"confirm", "tool", "calling", "child"}
      /\ UNCHANGED <<thread, run, row, historyVars>>
      /\ \E status \in ActionStatus : ActionResultUpdate(status)
  <2>1. CASE Reject
    BY <2>1 DEF Reject, Begins, ActionStatus
  <2>2. CASE RefuseTool
    BY <2>2 DEF RefuseTool, Begins, ActionStatus
  <2>3. CASE ToolReturns \/ ToolTimesOut
    BY <2>3 DEF ToolReturns, ToolTimesOut, ActionStatus
  <2>4. CASE ChildReturns \/ ChildTimesOut
    BY <2>4 DEF ChildReturns, ChildTimesOut, ActionStatus
  <2> QED BY <2>1, <2>2, <2>3, <2>4
<1>2. thread.active.call # 0
  BY <1>1 DEF GraphInv, Ready
<1> QED BY <1>1, <1>2, HistoryResult

\* Steps that leave alone what the history depends on.
LEMMA HistoryIdleStep ==
  ASSUME GraphInv, HistoryInv, CallTool \/ CallSubagent \/ Final \/ UNCHANGED vars
  PROVE  HistoryInv'
<1>1. /\ thread' = thread /\ draft' = draft /\ queue' = queue /\ seen' = seen /\ run' = run
      /\ row' = row /\ callRows' = callRows /\ resultRows' = resultRows
  BY DEF CallTool, CallSubagent, Final, vars, streamVars, historyVars
<1>2. \/ UNCHANGED pc
      \/ pc \notin {"idle", "broken", "publish"} /\ pc' \notin {"idle", "broken", "publish"}
  BY DEF CallTool, CallSubagent, Final, Begins, vars, streamVars
<1>3. queue # <<>> => pc' = "publish"
  BY <1>2 DEF HistoryInv, QueueFits
<1>4. Queued' = Queued /\ Published' = Published
  BY <1>1 DEF Queued, Published
<1>5. QueueFits' /\ SeenFits'
  BY <1>1, <1>3 DEF HistoryInv, QueueFits, SeenFits, Taken, HasAnswer
<1>6. OnlyCurrent' /\ Announced(thread, {})' /\ Announced(draft, Queued)'
  <2>1. \A c : AnswersOf(draft, c)' = AnswersOf(draft, c)
    BY <1>1 DEF AnswersOf
  <2>2. \A c : AnswersOf(thread, c)' = AnswersOf(thread, c)
    BY <1>1 DEF AnswersOf
  <2>3. OnlyCurrent'
    BY <1>1, <2>1, <2>2 DEF HistoryInv, OnlyCurrent
  <2>4. Taken(thread)' = Taken(thread) /\ Taken(draft)' = Taken(draft)
    BY <1>1 DEF Taken
  <2>5. Announced(thread, {})'
    BY <1>1, <2>4 DEF HistoryInv, Announced
  <2>6. Announced(draft, Queued)'
    BY <1>1, <1>4, <2>4 DEF HistoryInv, Announced
  <2> QED BY <2>3, <2>5, <2>6
<1>7. RowsHold'
  <2>1. PICK p : p = Published
    OBVIOUS
  <2>2. Published' = p
    BY <1>4, <2>1
  <2>3. \A b : RowHolds(Published, b)' <=> RowHolds(p, b)
    BY <1>1, <2>2 DEF RowHolds, AnswersIn, BatchIn
  <2> QED BY <1>1, <1>2, <2>1, <2>2, <2>3 DEF HistoryInv, RowsHold
<1>8. RowsAreOfBatches' /\ HistoryIsTrue'
  BY <1>1
  DEF HistoryInv, RowsAreOfBatches, BatchIn, BatchesOf, HistoryIsTrue, HistoryIsComplete, NoOpenResults,
      CallsOf, BatchOf, AnswersTo
<1> QED BY <1>5, <1>6, <1>7, <1>8 DEF HistoryInv

\* The two parts of the history in terms of the thread's values.
LEMMA HistoryIsTrueOf ==
  /\ HistoryIsComplete <=>
       \A r \in 1..run : row[r].status = "SUCCEEDED" =>
         \A b \in BatchesOf(r) :
           /\ b \in callRows
           /\ resultRows[b] = [ status  |-> "COMPLETED",
                                results |-> UNION {AnswersOf(thread, c) : c \in BatchIn(thread, b)} ]
  /\ \A r, b : b \in BatchesOf(r) <=>
                 \E c \in DOMAIN thread.asked : thread.asked[c].run = r /\ thread.asked[c].batch = b
<1>1. \A b : CallsOf(b) = BatchIn(thread, b)
  BY DEF CallsOf, BatchOf, BatchIn
<1>2. \A c : AnswersTo(c) = AnswersOf(thread, c)
  BY DEF AnswersTo, AnswersOf
<1>3. \A b : {AnswersTo(c) : c \in CallsOf(b)} = {AnswersOf(thread, c) : c \in BatchIn(thread, b)}
  BY <1>1, <1>2
<1>4. \A r, b : b \in BatchesOf(r) <=>
                  \E c \in DOMAIN thread.asked : thread.asked[c].run = r /\ thread.asked[c].batch = b
  BY DEF BatchesOf
<1> QED BY <1>3, <1>4 DEF HistoryIsComplete

\* Rows that only go from running to waiting, or back.
LEMMA RowsChange ==
  ASSUME HistoryInv, run \in Nat, UNCHANGED <<thread, run, historyVars>>,
         \A r \in 1..run : \/ row'[r].status = row[r].status
                           \/ /\ row[r].status \in {"RUNNING", "WAITING_INPUT"}
                              /\ row'[r].status \in {"RUNNING", "WAITING_INPUT"}
  PROVE  RowsAreOfBatches' /\ HistoryIsTrue'
<1>1. thread' = thread /\ run' = run /\ callRows' = callRows /\ resultRows' = resultRows
  BY DEF historyVars
<1>2. \A r : BatchesOf(r)' = BatchesOf(r)
  BY <1>1 DEF BatchesOf
<1>3. RowsAreOfBatches'
  <2>1. \A b : BatchIn(thread, b)' = BatchIn(thread, b)
    BY <1>1 DEF BatchIn
  <2>2. run # 0 => run \in 1..run
    OBVIOUS
  <2>3. BatchesOf(run)' = BatchesOf(run)
    BY <1>1, <1>2 DEF BatchesOf
  <2> QED BY <1>1, <2>1, <2>2, <2>3 DEF HistoryInv, RowsAreOfBatches
<1>4. HistoryIsComplete'
  <2>1. \A b : CallsOf(b)' = CallsOf(b)
    BY <1>1 DEF CallsOf, BatchOf
  <2>2. \A c : AnswersTo(c)' = AnswersTo(c)
    BY <1>1 DEF AnswersTo
  <2> QED BY <1>1, <1>2, <2>1, <2>2 DEF HistoryInv, HistoryIsTrue, HistoryIsComplete
<1>5. NoOpenResults'
  BY <1>1, <1>2 DEF HistoryInv, HistoryIsTrue, NoOpenResults
<1> QED BY <1>3, <1>4, <1>5 DEF HistoryIsTrue

\* A stream goes: nothing is queued, announced or answered any more.
LEMMA HistoryGone ==
  ASSUME GraphInv, HistoryInv, StreamGone, UNCHANGED <<thread, run, callRows>>,
         pc' \in {"broken", "idle", "waiting"},
         pc' = "waiting" => resultRows' = resultRows /\ pc \notin {"idle", "broken", "publish"},
         RowsAreOfBatches', HistoryIsTrue'
  PROVE  HistoryInv'
<1>1. /\ thread' = thread /\ draft' = thread /\ run' = run /\ callRows' = callRows
      /\ queue' = <<>> /\ seen' = [started |-> {}, answered |-> {}]
  BY DEF StreamGone
<1>2. QueueFits' /\ SeenFits'
  BY <1>1 DEF QueueFits, SeenFits
<1>3. Queued' = {} /\ Published' = thread
  BY <1>1 DEF Queued, Published
<1>4. OnlyCurrent'
  BY <1>1 DEF OnlyCurrent, AnswersOf
<1>5. Announced(thread, {})'
  BY <1>1 DEF HistoryInv, Announced, Taken
<1>6. Announced(draft, Queued)'
  <2>1. Announced(draft, {})'
    BY <1>1, <1>5 DEF Announced, Taken
  <2> QED BY <1>3, <2>1 DEF Announced
<1>7. RowsHold'
  <2>1. CASE pc' = "waiting"
    <3>1. Published = thread /\ resultRows' = resultRows
      BY <2>1, NothingQueued
    <3>2. PICK p : p = thread
      OBVIOUS
    <3>3. Published' = p
      BY <1>3, <3>2
    <3>4. \A b : RowHolds(Published, b)' <=> RowHolds(p, b)
      <4>1. \A b : AnswersIn(Published, b)' = AnswersIn(p, b)
        BY <3>3 DEF AnswersIn
      <4>2. \A b : BatchIn(Published, b)' = BatchIn(p, b)
        BY <3>3 DEF BatchIn
      <4> QED BY <3>1, <4>1, <4>2 DEF RowHolds
    <3>5. Published = p /\ pc \notin {"idle", "broken"}
      BY <2>1, <3>1, <3>2
    <3> QED BY <1>1, <3>3, <3>4, <3>5 DEF HistoryInv, RowsHold
  <2>2. CASE pc' # "waiting"
    BY <2>2 DEF RowsHold
  <2> QED BY <2>1, <2>2
<1> QED BY <1>2, <1>4, <1>5, <1>6, <1>7 DEF HistoryInv

\* A stream breaks off, or waits for its user.
LEMMA HistoryBreakStep ==
  ASSUME GraphInv, RunsInv, HistoryInv, OutOfSteps \/ Break \/ ChildRaisesTimeout \/ Interrupt
  PROVE  HistoryInv'
<1>1. run \in Nat /\ row \in [Runs -> RunRow] /\ 1..run \subseteq Runs
  BY MainGraphAssumption DEF GraphInv, TypeOK, Runs
<1>2. CASE OutOfSteps \/ Break \/ ChildRaisesTimeout
  <2>1. StreamGone /\ UNCHANGED <<thread, run, row, historyVars>> /\ pc' = "broken"
    BY <1>2 DEF OutOfSteps, Break, ChildRaisesTimeout, Breaks
  <2>2. RowsAreOfBatches' /\ HistoryIsTrue'
    BY <1>1, <2>1, RowsChange
  <2> QED BY <2>1, <2>2, HistoryGone DEF historyVars
<1>3. CASE Interrupt
  <2>1. /\ StreamGone /\ UNCHANGED <<thread, run, historyVars>> /\ pc = "confirm"
        /\ pc' \in {"broken", "waiting"} /\ row[run].status = "RUNNING"
        /\ \/ row' = row
           \/ row' = [row EXCEPT ![run] = [status |-> "WAITING_INPUT", pending |-> PendingAction]]
    BY <1>3 DEF Interrupt, GraphInv, RunsInv, RowsFit
  <2>2. \A r \in 1..run : \/ row'[r].status = row[r].status
                          \/ /\ row[r].status \in {"RUNNING", "WAITING_INPUT"}
                             /\ row'[r].status \in {"RUNNING", "WAITING_INPUT"}
    BY <1>1, <2>1
  <2>3. RowsAreOfBatches' /\ HistoryIsTrue'
    BY <1>1, <2>1, <2>2, RowsChange
  <2> QED BY <2>1, <2>3, HistoryGone DEF historyVars
<1> QED BY <1>2, <1>3

\* The user decides.
LEMMA HistoryResumeStep ==
  ASSUME GraphInv, RunsInv, HistoryInv, NEW decision, Resume(decision)
  PROVE  HistoryInv'
<1>1. /\ thread' = thread /\ draft' = draft /\ queue' = queue /\ seen' = seen /\ run' = run
      /\ callRows' = callRows /\ resultRows' = resultRows
      /\ pc = "waiting" /\ pc' = "confirm" /\ row[run].status = "WAITING_INPUT"
      /\ row' = [row EXCEPT ![run] = [status |-> "RUNNING", pending |-> 0]]
  BY DEF Resume, historyVars, GraphInv, RunsInv, RowsFit
<1>2. run \in Nat /\ row \in [Runs -> RunRow] /\ 1..run \subseteq Runs
  BY MainGraphAssumption DEF GraphInv, TypeOK, Runs
<1>3. queue = <<>> /\ Queued = {} /\ Published = thread /\ draft = thread
  BY <1>1, NothingQueued
<1>4. Queued' = {} /\ Published' = thread
  BY <1>1, <1>3 DEF Queued, Published
<1>5. QueueFits' /\ SeenFits'
  BY <1>1, <1>3 DEF HistoryInv, QueueFits, SeenFits, Taken, HasAnswer
<1>6. OnlyCurrent'
  BY <1>1, <1>3 DEF OnlyCurrent, AnswersOf
<1>7. Announced(thread, {})'
  BY <1>1 DEF HistoryInv, Announced, Taken
<1>8. Announced(draft, Queued)'
  <2>1. Announced(draft, {})'
    BY <1>1, <1>3, <1>7 DEF Announced, Taken
  <2> QED BY <1>4, <2>1 DEF Announced
<1>9. RowsHold'
  <2>1. PICK p : p = thread
    OBVIOUS
  <2>2. Published' = p /\ Published = p
    BY <1>3, <1>4, <2>1
  <2>3. \A b : RowHolds(Published, b)' <=> RowHolds(p, b)
    <3>1. \A b : AnswersIn(Published, b)' = AnswersIn(p, b)
      BY <2>2 DEF AnswersIn
    <3>2. \A b : BatchIn(Published, b)' = BatchIn(p, b)
      BY <2>2 DEF BatchIn
    <3> QED BY <1>1, <3>1, <3>2 DEF RowHolds
  <2> QED BY <1>1, <2>2, <2>3 DEF HistoryInv, RowsHold
<1>10. \A r \in 1..run : \/ row'[r].status = row[r].status
                         \/ /\ row[r].status \in {"RUNNING", "WAITING_INPUT"}
                            /\ row'[r].status \in {"RUNNING", "WAITING_INPUT"}
  BY <1>1, <1>2
<1>11. RowsAreOfBatches' /\ HistoryIsTrue'
  BY <1>1, <1>2, <1>10, RowsChange DEF historyVars
<1> QED BY <1>5, <1>6, <1>7, <1>8, <1>9, <1>11 DEF HistoryInv

\* A new turn: no result is open, and nothing of the new run is asked for yet.
LEMMA HistoryStartStep ==
  ASSUME GraphInv, RunsInv, HistoryInv, StartTurn
  PROVE  HistoryInv'
<1>1. /\ pc = "idle" /\ pc' = "memory" /\ run' = run + 1 /\ run < MaxRuns /\ run \in Nat
      /\ row' = [row EXCEPT ![run + 1].status = "RUNNING"] /\ draft' = thread'
      /\ thread' = [thread EXCEPT !.pending = <<>>, !.active = NoCall, !.completed = FALSE]
      /\ queue' = queue /\ seen' = seen /\ callRows' = callRows /\ resultRows' = resultRows
      /\ row \in [Runs -> RunRow]
  BY MainGraphAssumption DEF StartTurn, GraphInv, TypeOK, historyVars
<1>2. PICK t : t = thread'
  OBVIOUS
<1>3. /\ WellFormed(t) /\ t.answers = thread.answers /\ t.asked = thread.asked
      /\ Taken(thread) <= Taken(t)
  BY <1>1, <1>2, ThreadFacts, ResetIsWellFormed
<1>4. queue = <<>> /\ draft = thread /\ Queued' = {} /\ Published' = t
  BY <1>1, <1>2, NothingQueued DEF Queued, Published
<1>5. thread' = t /\ draft' = t
  BY <1>1, <1>2
<1>6. QueueFits'
  BY <1>1, <1>4 DEF QueueFits
<1>7. SeenFits'
  <2>1. Taken(thread) \in Int /\ Taken(t) \in Int
    BY <1>3, ChannelTypes, ThreadFacts DEF WellFormed
  <2>2. seen.started \subseteq Nat
    BY ToolHistoryAssumption DEF GraphInv, TypeOK, Calls
  <2>3. \A c \in seen.started : c <= Taken(t)
    BY <1>3, <1>4, <2>1, <2>2 DEF HistoryInv, SeenFits
  <2>4. \A c \in seen.answered : HasAnswer(t, c)
    BY <1>3, <1>4 DEF HistoryInv, SeenFits, HasAnswer
  <2> QED BY <1>1, <1>5, <2>3, <2>4 DEF SeenFits, HasAnswer, Taken
<1>8. OnlyCurrent'
  BY <1>5 DEF OnlyCurrent, AnswersOf
<1>9. \A c \in DOMAIN t.asked : t.asked[c].run \in 1..run /\ t.asked[c].run # run + 1
  <2>1. \A c \in DOMAIN t.asked : t.asked[c].run \in 1..run
    BY <1>3 DEF RunsInv, CallsFit, AskedInOrder
  <2>2. \A r \in 1..run : r # run + 1
    BY <1>1
  <2> QED BY <2>1, <2>2
<1>10. Announced(thread, {})' /\ Announced(draft, Queued)'
  BY <1>1, <1>5, <1>9 DEF Announced
<1>11. RowsHold'
  BY <1>1, <1>4, <1>9 DEF RowsHold
<1>12. \A b \in Batches : resultRows[b].status # "STREAMING"
  BY <1>1 DEF RunsInv, RowsFit, HistoryInv, RowsAreOfBatches
<1>13. \A b : BatchIn(thread, b)' = BatchIn(thread, b)
  BY <1>3, <1>5 DEF BatchIn
<1>14. RowsAreOfBatches'
  BY <1>1, <1>12, <1>13 DEF HistoryInv, RowsAreOfBatches
<1>15. HistoryIsComplete'
  <2>1. \A b : CallsOf(b)' = CallsOf(b)
    BY <1>3, <1>5 DEF CallsOf, BatchOf
  <2>2. \A c : AnswersTo(c)' = AnswersTo(c)
    BY <1>3, <1>5 DEF AnswersTo
  <2>3. \A r : BatchesOf(r)' = BatchesOf(r)
    BY <1>3, <1>5 DEF BatchesOf
  <2>4. \A r \in 1..(run + 1) : row'[r].status = "SUCCEEDED" =>
          r \in 1..run /\ row[r].status = "SUCCEEDED"
    <3>1. run + 1 \in Runs /\ 1..(run + 1) \subseteq Runs
      BY <1>1, MainGraphAssumption DEF Runs
    <3>2. row'[run + 1].status = "RUNNING"
      BY <1>1, <3>1 DEF RunRow
    <3>3. \A r \in 1..(run + 1) : r # run + 1 => row'[r] = row[r] /\ r \in 1..run
      BY <1>1, <3>1
    <3> QED BY <3>2, <3>3
  <2> QED BY <1>1, <2>1, <2>2, <2>3, <2>4 DEF HistoryInv, HistoryIsTrue, HistoryIsComplete
<1>16. NoOpenResults'
  BY <1>1, <1>12 DEF HistoryInv, HistoryIsTrue, NoOpenResults
<1> QED BY <1>6, <1>7, <1>8, <1>10, <1>11, <1>14, <1>15, <1>16 DEF HistoryInv, HistoryIsTrue

\* The checkpoint catches up with the history: finished runs are not concerned.
LEMMA HistoryCommitStep ==
  ASSUME GraphInv, RunsInv, HistoryInv, Commit
  PROVE  HistoryInv'
<1>1. /\ pc = "publish" /\ queue = <<>> /\ thread' = draft /\ draft' = draft /\ queue' = queue
      /\ pc' = next /\ next \in Nodes /\ seen' = seen /\ run' = run /\ row' = row
      /\ callRows' = callRows /\ resultRows' = resultRows
      /\ run # 0 /\ row[run].status = "RUNNING"
  BY DEF Commit, historyVars, GraphInv, TypeOK, RunsInv, RowsFit
<1>2. PICK t : t = draft
  OBVIOUS
<1>3. /\ thread' = t /\ draft' = t /\ Queued = {} /\ Queued' = {}
      /\ Published = t /\ Published' = t
  BY <1>1, <1>2 DEF Queued, Published
<1>4. /\ DOMAIN thread.asked \subseteq DOMAIN t.asked
      /\ \A c \in DOMAIN thread.asked : t.asked[c] = thread.asked[c]
  <2>1. PICK n \in Nat : n = Len(thread.asked) /\ DOMAIN thread.asked = 1..n
    BY ThreadFacts, ShapeOf
  <2>2. PICK m \in Nat : m = Len(t.asked) /\ DOMAIN t.asked = 1..m
    BY <1>2, ShapeOf DEF GraphInv
  <2>3. n <= m
    BY <1>2, <2>1, <2>2 DEF GraphInv, Extends
  <2> QED BY <1>2, <2>1, <2>2, <2>3 DEF GraphInv, Extends
<1>5. QueueFits' /\ SeenFits'
  BY <1>1 DEF HistoryInv, QueueFits, SeenFits, Taken, HasAnswer
<1>6. OnlyCurrent'
  BY <1>3 DEF OnlyCurrent, AnswersOf
<1>7. Announced(thread, {})' /\ Announced(draft, Queued)'
  <2>1. Announced(t, {})
    BY <1>2, <1>3 DEF HistoryInv
  <2> QED BY <1>1, <1>3, <2>1 DEF Announced, Taken
<1>8. RowsHold'
  <2>1. \A b : RowHolds(Published, b)' <=> RowHolds(t, b)
    <3>1. \A b : AnswersIn(Published, b)' = AnswersIn(t, b)
      BY <1>3 DEF AnswersIn
    <3>2. \A b : BatchIn(Published, b)' = BatchIn(t, b)
      BY <1>3 DEF BatchIn
    <3> QED BY <1>1, <3>1, <3>2 DEF RowHolds
  <2> QED BY <1>1, <1>3, <2>1 DEF HistoryInv, RowsHold
<1>9. \A r, b : b \in BatchesOf(r) => b \in BatchesOf(r)'
  BY <1>3, <1>4 DEF BatchesOf
<1>10. RowsAreOfBatches'
  <2>1. \A b : BatchIn(thread, b)' = BatchIn(t, b)
    BY <1>3 DEF BatchIn
  <2>2. \A b : BatchIn(t, b) = {} => BatchIn(thread, b) = {}
    BY <1>4 DEF BatchIn
  <2>3. \A b : b \in BatchesOf(run) => b \in BatchesOf(run)'
    BY <1>1, <1>3, <1>4 DEF BatchesOf
  <2> QED BY <1>1, <2>1, <2>2, <2>3 DEF HistoryInv, RowsAreOfBatches
<1>11. NoOpenResults'
  BY <1>1, <1>9 DEF HistoryInv, HistoryIsTrue, NoOpenResults
<1>12. HistoryIsComplete'
  <2> SUFFICES ASSUME NEW r \in 1..run, row[r].status = "SUCCEEDED", NEW b \in BatchesOf(r)'
               PROVE  /\ b \in callRows
                      /\ resultRows[b] = [ status  |-> "COMPLETED",
                                           results |-> UNION {AnswersTo(c)' : c \in CallsOf(b)'} ]
    BY <1>1 DEF HistoryIsComplete
  <2>1. PICK d \in DOMAIN t.asked : t.asked[d].run = r /\ t.asked[d].batch = b
    BY <1>3 DEF BatchesOf
  <2>2. PICK n \in Nat : DOMAIN t.asked = 1..n
    BY <1>2, ShapeOf DEF GraphInv
  <2>3. \A c \in DOMAIN t.asked : t.asked[c].batch = b => t.asked[c].run = r
    <3> SUFFICES ASSUME NEW c \in DOMAIN t.asked, t.asked[c].batch = b
                 PROVE  t.asked[c].run = r
      OBVIOUS
    <3>1. c \in Nat /\ d \in Nat
      BY <2>2
    <3>2. c <= d \/ d <= c
      BY <3>1
    <3> QED BY <1>2, <2>1, <3>2 DEF RunsInv, CallsFit, AskedInOrder
  <2>4. r # run
    BY <1>1
  <2>5. \A c \in DOMAIN t.asked : t.asked[c].batch = b =>
          c \in DOMAIN thread.asked /\ AnswersOf(t, c) = AnswersOf(thread, c)
    BY <1>2, <2>3, <2>4 DEF HistoryInv, OnlyCurrent
  <2>6. BatchIn(t, b) = BatchIn(thread, b)
    BY <1>4, <2>5 DEF BatchIn
  <2>7. CallsOf(b)' = CallsOf(b)
    <3>1. CallsOf(b)' = BatchIn(t, b) /\ CallsOf(b) = BatchIn(thread, b)
      BY <1>3 DEF CallsOf, BatchOf, BatchIn
    <3> QED BY <2>6, <3>1
  <2>8. \A c \in CallsOf(b) : AnswersTo(c)' = AnswersTo(c)
    <3> SUFFICES ASSUME NEW c \in CallsOf(b)
                 PROVE  AnswersTo(c)' = AnswersTo(c)
      OBVIOUS
    <3>1. c \in DOMAIN t.asked /\ t.asked[c].batch = b
      BY <1>4 DEF CallsOf, BatchOf
    <3>2. AnswersTo(c)' = AnswersOf(t, c) /\ AnswersTo(c) = AnswersOf(thread, c)
      BY <1>3 DEF AnswersTo, AnswersOf
    <3> QED BY <2>5, <3>1, <3>2
  <2>9. b \in BatchesOf(r)
    BY <1>4, <2>1, <2>5 DEF BatchesOf
  <2>10. {AnswersTo(c)' : c \in CallsOf(b)'} = {AnswersTo(c) : c \in CallsOf(b)}
    BY <2>7, <2>8
  <2> QED BY <2>9, <2>10 DEF HistoryInv, HistoryIsTrue, HistoryIsComplete
<1> QED BY <1>5, <1>6, <1>7, <1>8, <1>10, <1>11, <1>12 DEF HistoryInv, HistoryIsTrue

\* At the end of a completed run every call of its batches has been answered.
LEMMA AllAnswered ==
  ASSUME GraphInv, RunsInv, HistoryInv, pc = "complete", thread.completed,
         NEW b \in BatchesOf(run)
  PROVE  /\ b \in callRows
         /\ resultRows[b] = [status |-> "COMPLETED", results |-> AnswersIn(thread, b)]
         /\ AnswersIn(thread, b) = UNION {AnswersOf(thread, c) : c \in BatchIn(thread, b)}
<1>1. PICK n \in Nat : /\ DOMAIN thread.asked = 1..n /\ Taken(thread) = n
                       /\ thread.active.call = 0
                       /\ \A i \in DOMAIN thread.answers : thread.answers[i].call \in 1..n
  <2>1. thread.pending = <<>> /\ thread.active.call = 0
    BY DEF RunsInv, CallsFit
  <2> QED BY <2>1, ThreadFacts, ShapeOf
<1>2. row[run].status = "RUNNING"
  BY DEF GraphInv, RunsInv, RowsFit
<1>3. PICK d \in 1..n : thread.asked[d].run = run /\ thread.asked[d].batch = b
  BY <1>1 DEF BatchesOf
<1>4. \A c \in BatchIn(thread, b) : c \in 1..n /\ thread.asked[c].run = run
  <2> SUFFICES ASSUME NEW c \in 1..n, thread.asked[c].batch = b
               PROVE  thread.asked[c].run = run
    BY <1>1 DEF BatchIn
  <2>1. c <= d \/ d <= c
    BY <1>1
  <2> QED BY <1>1, <1>3, <2>1 DEF RunsInv, CallsFit, AskedInOrder
<1>5. \A c \in BatchIn(thread, b) : HasAnswer(thread, c)
  <2> SUFFICES ASSUME NEW c \in BatchIn(thread, b)
               PROVE  HasAnswer(thread, c)
    OBVIOUS
  <2>1. c \in 1..n /\ thread.asked[c].run = run
    BY <1>4
  <2>2. ~Due(thread, c)
    BY <1>1, <2>1 DEF Due
  <2> QED BY <1>1, <1>2, <2>1, <2>2 DEF RunsInv, CallsFit
<1>6. CallsIn(AnswersIn(thread, b)) = BatchIn(thread, b)
  <2>1. \A c \in CallsIn(AnswersIn(thread, b)) : c \in BatchIn(thread, b)
    BY <1>1 DEF CallsIn, AnswersIn, BatchIn
  <2>2. \A c \in BatchIn(thread, b) : c \in CallsIn(AnswersIn(thread, b))
    <3> SUFFICES ASSUME NEW c \in BatchIn(thread, b)
                 PROVE  c \in CallsIn(AnswersIn(thread, b))
      OBVIOUS
    <3>1. PICK i \in DOMAIN thread.answers : thread.answers[i].call = c
      BY <1>5 DEF HasAnswer
    <3>2. thread.asked[c].batch = b
      BY DEF BatchIn
    <3>3. thread.answers[i] \in AnswersIn(thread, b)
      BY <3>1, <3>2 DEF AnswersIn
    <3> QED BY <3>1, <3>3 DEF CallsIn
  <2> QED BY <2>1, <2>2
<1>7. d \in BatchIn(thread, b) /\ AnswersIn(thread, b) # {}
  <2>1. d \in BatchIn(thread, b)
    BY <1>1, <1>3 DEF BatchIn
  <2>2. d \in CallsIn(AnswersIn(thread, b))
    BY <1>6, <2>1
  <2> QED BY <2>1, <2>2 DEF CallsIn
<1>8. RowHolds(thread, b)
  BY <1>1, <1>3, NothingQueued DEF HistoryInv, RowsHold
<1>9. resultRows[b] = [status |-> "COMPLETED", results |-> AnswersIn(thread, b)]
  BY <1>6, <1>7, <1>8 DEF RowHolds
<1>10. b \in callRows
  <2>1. d <= Taken(thread)
    BY <1>1
  <2> QED BY <1>1, <1>3, <2>1 DEF HistoryInv, Announced
<1>11. AnswersIn(thread, b) = UNION {AnswersOf(thread, c) : c \in BatchIn(thread, b)}
  <2>1. \A i \in DOMAIN thread.answers :
          thread.asked[thread.answers[i].call].batch = b <=>
            thread.answers[i].call \in BatchIn(thread, b)
    BY <1>1 DEF BatchIn
  <2>2. \A a \in AnswersIn(thread, b) :
          \E c \in BatchIn(thread, b) : a \in AnswersOf(thread, c)
    BY <2>1 DEF AnswersIn, AnswersOf
  <2>3. \A c \in BatchIn(thread, b) : \A a \in AnswersOf(thread, c) : a \in AnswersIn(thread, b)
    BY <2>1 DEF AnswersIn, AnswersOf
  <2> QED BY <2>2, <2>3
<1> QED BY <1>9, <1>10, <1>11

\* A run ends.
LEMMA HistoryEndStep ==
  ASSUME GraphInv, RunsInv, HistoryInv, NEW status \in {"SUCCEEDED", "FAILED"}, EndRun(status),
         pc # "idle", status = "SUCCEEDED" => pc = "complete" /\ thread.completed
  PROVE  HistoryInv'
<1>1. /\ StreamGone /\ thread' = thread /\ run' = run /\ callRows' = callRows /\ pc' = "idle"
      /\ row' = [row EXCEPT ![run] = [status |-> status, pending |-> 0]]
      /\ row \in [Runs -> RunRow] /\ run \in Runs /\ run \in Nat /\ 1..run \subseteq Runs
      /\ run # 0 /\ resultRows \in [Batches -> ResultRow]
  BY MainGraphAssumption
  DEF EndRun, FailIncompleteToolResults, historyVars, GraphInv, TypeOK, Runs
<1>2. /\ row'[run].status = status /\ \A r \in 1..run : r # run => row'[r] = row[r]
      /\ row[run].status \notin {"SUCCEEDED", "FAILED"}
  BY <1>1 DEF GraphInv, RunsInv, RowsFit
<1>3. \A b \in Batches :
        /\ resultRows'[b].status # "STREAMING"
        /\ resultRows[b].status # "STREAMING" => resultRows'[b] = resultRows[b]
        /\ resultRows'[b].status # "ABSENT" => resultRows[b].status # "ABSENT"
  <2>1. CASE status = "FAILED"
    <3>1. \A b \in Batches : resultRows[b].status = "STREAMING" => b \in BatchesOf(run)
      BY DEF HistoryInv, RowsAreOfBatches
    <3>2. resultRows' = [b \in Batches |->
                           IF b \in BatchesOf(run) /\ resultRows[b].status = "STREAMING"
                           THEN [resultRows[b] EXCEPT !.status = "FAILED"]
                           ELSE resultRows[b]]
      BY <2>1 DEF EndRun, FailIncompleteToolResults
    <3> SUFFICES ASSUME NEW b \in Batches
                 PROVE  /\ resultRows'[b].status # "STREAMING"
                        /\ resultRows[b].status # "STREAMING" => resultRows'[b] = resultRows[b]
                        /\ resultRows'[b].status # "ABSENT" => resultRows[b].status # "ABSENT"
      OBVIOUS
    <3>3. CASE resultRows[b].status = "STREAMING"
      <4>1. resultRows'[b] = [resultRows[b] EXCEPT !.status = "FAILED"]
        BY <3>1, <3>2, <3>3
      <4>2. resultRows[b] \in ResultRow
        BY <1>1
      <4>3. resultRows'[b].status = "FAILED"
        BY <4>1, <4>2 DEF ResultRow
      <4> QED BY <3>3, <4>3
    <3>4. CASE resultRows[b].status # "STREAMING"
      <4>1. resultRows'[b] = resultRows[b]
        BY <3>2, <3>4
      <4> QED BY <3>4, <4>1
    <3> QED BY <3>3, <3>4
  <2>2. CASE status = "SUCCEEDED"
    <3>1. resultRows' = resultRows
      BY <2>2 DEF EndRun, historyVars
    <3>2. \A b \in Batches : resultRows[b].status # "STREAMING"
      <4> SUFFICES ASSUME NEW b \in Batches, resultRows[b].status = "STREAMING"
                   PROVE  FALSE
        OBVIOUS
      <4>1. b \in BatchesOf(run)
        BY DEF HistoryInv, RowsAreOfBatches
      <4>2. pc = "complete" /\ thread.completed
        BY <2>2
      <4>3. resultRows[b] = [status |-> "COMPLETED", results |-> AnswersIn(thread, b)]
        BY <4>1, <4>2, AllAnswered
      <4> QED BY <4>3
    <3> QED BY <3>1, <3>2
  <2> QED BY <2>1, <2>2
<1>4. \A b : BatchIn(thread, b)' = BatchIn(thread, b)
  BY <1>1 DEF BatchIn
<1>5. RowsAreOfBatches'
  <2>1. ASSUME NEW b \in Batches, BatchIn(thread, b) = {}
        PROVE  resultRows'[b] = [status |-> "ABSENT", results |-> {}]
    <3>1. resultRows[b] = [status |-> "ABSENT", results |-> {}]
      BY <2>1 DEF HistoryInv, RowsAreOfBatches
    <3> QED BY <1>3, <3>1
  <2> QED BY <1>3, <1>4, <2>1 DEF RowsAreOfBatches
<1>6. NoOpenResults'
  BY <1>1, <1>3 DEF HistoryInv, HistoryIsTrue, NoOpenResults
<1>7. \A r \in 1..run : \A b \in BatchesOf(r) : b \in Batches
  <2>1. \A c \in DOMAIN thread.asked : thread.asked[c].batch \in Batches
    BY ThreadFacts, ShapeOf
  <2> QED BY <2>1, HistoryIsTrueOf
<1>8. ASSUME NEW r \in 1..run, row'[r].status = "SUCCEEDED", NEW b \in BatchesOf(r)
      PROVE  /\ b \in callRows
             /\ resultRows'[b] = [ status  |-> "COMPLETED",
                                   results |-> UNION {AnswersOf(thread, c) : c \in BatchIn(thread, b)} ]
  <2>1. CASE r = run
    <3>1. status = "SUCCEEDED"
      BY <1>2, <1>8, <2>1
    <3>2. resultRows' = resultRows
      BY <3>1 DEF EndRun, historyVars
    <3>3. /\ b \in callRows
          /\ resultRows[b] = [status |-> "COMPLETED", results |-> AnswersIn(thread, b)]
          /\ AnswersIn(thread, b) = UNION {AnswersOf(thread, c) : c \in BatchIn(thread, b)}
      BY <1>8, <2>1, <3>1, AllAnswered
    <3> QED BY <3>2, <3>3
  <2>2. CASE r # run
    <3>1. row[r].status = "SUCCEEDED"
      BY <1>2, <1>8, <2>2
    <3>2. /\ b \in callRows
          /\ resultRows[b] = [ status  |-> "COMPLETED",
                               results |-> UNION {AnswersOf(thread, c) : c \in BatchIn(thread, b)} ]
      BY <1>8, <3>1, HistoryIsTrueOf DEF HistoryInv, HistoryIsTrue
    <3>3. resultRows[b].status # "STREAMING"
      BY <3>2
    <3> QED BY <1>3, <1>7, <1>8, <3>2, <3>3
  <2> QED BY <2>1, <2>2
<1>9. HistoryIsComplete'
  <2>1. \A r : BatchesOf(r)' = BatchesOf(r)
    BY <1>1 DEF BatchesOf
  <2>2. \A b : CallsOf(b)' = BatchIn(thread, b)
    BY <1>1 DEF CallsOf, BatchOf, BatchIn
  <2>3. \A c : AnswersTo(c)' = AnswersOf(thread, c)
    BY <1>1 DEF AnswersTo, AnswersOf
  <2>4. \A b : {AnswersTo(c)' : c \in CallsOf(b)'} = {AnswersOf(thread, c) : c \in BatchIn(thread, b)}
    BY <2>2, <2>3
  <2> QED BY <1>1, <1>8, <2>1, <2>4 DEF HistoryIsComplete
<1> QED BY <1>1, <1>5, <1>6, <1>9, HistoryGone DEF HistoryIsTrue

\* The head of the queue reaches the history, which then is as far as the draft.
LEMMA HistoryPublishStep ==
  ASSUME GraphInv, RunsInv, HistoryInv, Publish
  PROVE  HistoryInv'
<1>1. /\ pc = "publish" /\ queue # <<>> /\ queue' = Tail(queue)
      /\ pc' = pc /\ thread' = thread /\ draft' = draft /\ seen' = seen /\ run' = run
      /\ row' = row /\ run # 0 /\ row[run].status = "RUNNING" /\ run \in Nat
      /\ resultRows \in [Batches -> ResultRow]
  BY MainGraphAssumption DEF Publish, GraphInv, TypeOK, RunsInv, RowsFit
<1>2. PICK e : e = Head(queue)
  OBVIOUS
<1>3. /\ Len(queue) = 1 /\ draft.asked = thread.asked
      /\ IF e.type = "action_started"
         THEN e.call = draft.active.call /\ draft.answers = thread.answers
         ELSE /\ e.call = thread.active.call
              /\ draft.answers = Append(thread.answers, [call |-> e.call, status |-> e.status])
  BY <1>1, <1>2 DEF HistoryInv, QueueFits
<1>4. queue \in Seq(Event) /\ queue' = <<>> /\ e \in Event /\ e.call \in Calls
      /\ e.call <= Len(thread.asked)
  <2>1. queue \in Seq(Event)
    BY DEF GraphInv, TypeOK
  <2>2. 1 \in DOMAIN queue /\ e = queue[1] /\ queue' = <<>>
    BY <1>1, <1>2, <1>3, <2>1
  <2>3. e \in Event
    BY <2>1, <2>2
  <2> QED BY <2>1, <2>2, <2>3 DEF Event, GraphInv, QueueIsAsked
<1>5. PICK n \in Nat : /\ n = Len(thread.asked) /\ DOMAIN thread.asked = 1..n
                       /\ thread.active.call <= Taken(thread)
                       /\ \A c \in 1..n : thread.asked[c].batch \in Batches
  BY ThreadFacts, ShapeOf
<1>6. e.call \in 1..n /\ e.call # 0
  BY <1>4, <1>5, ToolHistoryAssumption DEF Calls
<1>7. PICK b \in Batches : b = thread.asked[e.call].batch
  BY <1>5, <1>6
<1>8. BatchOf(e.call) = b /\ CallsOf(b) = BatchIn(thread, b)
  BY <1>7 DEF BatchOf, CallsOf, BatchIn
<1>9. Queued' = {} /\ QueueFits' /\ Published = thread /\ Published' = draft
  BY <1>1, <1>4 DEF Queued, QueueFits, Published
<1>10. SeenFits'
  BY <1>1 DEF HistoryInv, SeenFits, HasAnswer, Taken
<1>11. OnlyCurrent'
  <2>1. \A c : AnswersOf(draft, c)' = AnswersOf(draft, c) /\ AnswersOf(thread, c)' = AnswersOf(thread, c)
    BY <1>1 DEF AnswersOf
  <2> QED BY <1>1, <2>1 DEF HistoryInv, OnlyCurrent
<1>12. callRows \subseteq callRows' => Announced(thread, {})'
  BY <1>1 DEF HistoryInv, Announced, Taken
<1>13. \A r : BatchesOf(r)' = BatchesOf(r)
  BY <1>1 DEF BatchesOf
<1>14. \A x : BatchIn(thread, x)' = BatchIn(thread, x) /\ BatchIn(draft, x)' = BatchIn(draft, x)
              /\ BatchIn(draft, x) = BatchIn(thread, x)
  BY <1>1, <1>3 DEF BatchIn
<1>15. \A x : AnswersIn(draft, x)' = AnswersIn(draft, x)
  BY <1>1 DEF AnswersIn
<1>16. PICK p : p = draft
  OBVIOUS
<1>17. Published' = p /\ Published' = draft'
  BY <1>1, <1>9, <1>16
<1>18. \A x : (/\ resultRows'[x] =
                  [ status  |-> IF AnswersIn(p, x) = {} THEN "ABSENT"
                                ELSE IF CallsIn(AnswersIn(p, x)) = BatchIn(p, x) THEN "COMPLETED"
                                ELSE "STREAMING",
                    results |-> AnswersIn(p, x) ]) => RowHolds(Published, x)'
  <2>1. \A x : AnswersIn(Published, x)' = AnswersIn(p, x)
    BY <1>17 DEF AnswersIn
  <2>2. \A x : BatchIn(Published, x)' = BatchIn(p, x)
    BY <1>17 DEF BatchIn
  <2> QED BY <2>1, <2>2 DEF RowHolds
<1>19. CASE e.type = "action_started"
  <2>1. callRows' = callRows \cup {b} /\ resultRows' = resultRows
    BY <1>2, <1>8, <1>19 DEF Publish, AppendToolBatch
  <2>2. Queued = {e.call}
    BY <1>1, <1>2, <1>19 DEF Queued
  <2>3. Announced(draft, Queued)'
    <3>1. \A c \in DOMAIN draft.asked :
            draft.asked[c].run = run /\ c <= Taken(draft) => draft.asked[c].batch \in callRows'
      BY <1>3, <1>7, <2>1, <2>2 DEF HistoryInv, Announced
    <3> QED BY <1>1, <1>9, <3>1 DEF Announced, Taken
  <2>4. RowsHold'
    <3>1. \A x : AnswersIn(draft, x) = AnswersIn(thread, x)
      BY <1>3, <1>19 DEF AnswersIn
    <3>2. \A c \in DOMAIN thread.asked :
            thread.asked[c].run = run => RowHolds(thread, thread.asked[c].batch)
      BY <1>1, <1>9 DEF HistoryInv, RowsHold
    <3>3. \A c \in DOMAIN p.asked :
            p.asked[c].run = run => RowHolds(Published, p.asked[c].batch)'
      <4> SUFFICES ASSUME NEW c \in DOMAIN p.asked, p.asked[c].run = run
                   PROVE  RowHolds(Published, p.asked[c].batch)'
        OBVIOUS
      <4>1. PICK x : x = p.asked[c].batch
        OBVIOUS
      <4>2. RowHolds(thread, x)
        BY <1>3, <1>16, <3>2, <4>1
      <4>3. RowHolds(Published, x)'
        BY <1>14, <1>16, <1>18, <2>1, <3>1, <4>2 DEF RowHolds
      <4> QED BY <4>1, <4>3
    <3> QED BY <1>1, <1>17, <3>3 DEF RowsHold
  <2>5. RowsAreOfBatches' /\ NoOpenResults'
    BY <1>1, <1>13, <1>14, <2>1
    DEF HistoryInv, RowsAreOfBatches, HistoryIsTrue, NoOpenResults
  <2>6. HistoryIsComplete'
    <3>1. \A x : CallsOf(x)' = CallsOf(x)
      BY <1>1 DEF CallsOf, BatchOf
    <3>2. \A c : AnswersTo(c)' = AnswersTo(c)
      BY <1>1 DEF AnswersTo
    <3>5. \A x : {AnswersTo(c)' : c \in CallsOf(x)'} = {AnswersTo(c) : c \in CallsOf(x)}
      BY <3>1, <3>2
    <3> QED BY <1>1, <1>13, <2>1, <3>5 DEF HistoryInv, HistoryIsTrue, HistoryIsComplete
  <2>7. Announced(thread, {})'
    BY <1>12, <2>1
  <2> QED BY <1>9, <1>10, <1>11, <2>3, <2>4, <2>5, <2>6, <2>7 DEF HistoryInv, HistoryIsTrue
<1>20. CASE e.type # "action_started"
  <2>1. PICK result : result = [call |-> e.call, status |-> e.status]
    OBVIOUS
  <2>2. AppendToolResult(b, BatchIn(thread, b), result)
    BY <1>2, <1>8, <1>20, <2>1 DEF Publish
  <2>3. callRows' = callRows
    BY <2>2 DEF AppendToolResult
  <2>4. /\ e.call = thread.active.call /\ draft.answers = Append(thread.answers, result)
        /\ result \in ToolResults /\ result.call = e.call
    <3>1. result \in ToolResults
      BY <1>4, <1>20, <2>1 DEF Event, ToolResults
    <3> QED BY <1>3, <1>20, <2>1, <3>1
  <2>5. thread.answers \in Seq(ToolResults)
    BY ChannelTypes DEF GraphInv, TypeOK
  <2>6. \A x : AnswersIn(p, x) = IF x = b THEN AnswersIn(thread, x) \cup {result}
                                 ELSE AnswersIn(thread, x)
    BY <1>3, <1>7, <1>16, <2>4, <2>5, AnswerAdded
  <2>7. e.call \in DOMAIN thread.asked /\ e.call <= Taken(thread) /\ thread.asked[e.call].run = run
    <3>1. Due(thread, e.call)
      BY <2>4 DEF Due
    <3> QED BY <1>5, <1>6, <2>4, <3>1 DEF RunsInv, CallsFit
  <2>8. b \in callRows /\ b \in BatchesOf(run)
    BY <1>7, <2>7 DEF HistoryInv, Announced, BatchesOf
  <2>9. \A c \in DOMAIN thread.asked :
          thread.asked[c].run = run => RowHolds(thread, thread.asked[c].batch)
    BY <1>1, <1>9 DEF HistoryInv, RowsHold
  <2>10. RowHolds(thread, b) /\ resultRows[b].results = AnswersIn(thread, b)
    <3>1. RowHolds(thread, b)
      BY <1>7, <2>7, <2>9
    <3> QED BY <3>1 DEF RowHolds
  <2>11. result \notin resultRows[b].results
    <3>1. \A i \in DOMAIN thread.answers : thread.answers[i].call # e.call
      BY <1>6, <2>4, AnsweredIsNotActive
    <3> QED BY <2>4, <2>10, <3>1 DEF AnswersIn
  <2>12. /\ resultRows'[b] = ResultRowWith(resultRows[b], BatchIn(thread, b), result)
         /\ \A x \in Batches : x # b => resultRows'[x] = resultRows[x]
    <3>1. resultRows' = [resultRows EXCEPT ![b] = ResultRowWith(@, BatchIn(thread, b), result)]
      BY <2>2, <2>11 DEF AppendToolResult
    <3> QED BY <1>1, <1>7, <3>1
  <2>13. resultRows'[b] =
           [ status  |-> IF CallsIn(AnswersIn(p, b)) = BatchIn(p, b) THEN "COMPLETED" ELSE "STREAMING",
             results |-> AnswersIn(p, b) ]
    BY <1>14, <1>16, <2>6, <2>10, <2>12 DEF ResultRowWith
  <2>14. RowsHold'
    <3>1. \A c \in DOMAIN p.asked :
            p.asked[c].run = run => RowHolds(Published, p.asked[c].batch)'
      <4> SUFFICES ASSUME NEW c \in DOMAIN p.asked, p.asked[c].run = run
                   PROVE  RowHolds(Published, p.asked[c].batch)'
        OBVIOUS
      <4>1. PICK x \in Batches : x = p.asked[c].batch
        BY <1>3, <1>5, <1>16
      <4>2. CASE x = b
        <5>1. AnswersIn(p, b) # {}
          BY <2>6
        <5> QED BY <1>18, <2>13, <4>1, <4>2, <5>1
      <4>3. CASE x # b
        <5>1. RowHolds(thread, x)
          BY <1>3, <1>16, <2>9, <4>1
        <5>2. AnswersIn(p, x) = AnswersIn(thread, x) /\ BatchIn(p, x) = BatchIn(thread, x)
          BY <1>14, <1>16, <2>6, <4>3
        <5>3. resultRows'[x] = resultRows[x]
          BY <2>12, <4>3
        <5>4. RowHolds(Published, x)'
          BY <1>18, <5>1, <5>2, <5>3 DEF RowHolds
        <5> QED BY <4>1, <5>4
      <4> QED BY <4>2, <4>3
    <3> QED BY <1>1, <1>17, <3>1 DEF RowsHold
  <2>15. b \in BatchesOf(run)' /\ BatchIn(thread, b) # {}
    <3>1. e.call \in BatchIn(thread, b)
      BY <1>7, <2>7 DEF BatchIn
    <3>2. BatchesOf(run)' = BatchesOf(run)
      BY <1>1 DEF BatchesOf
    <3> QED BY <2>8, <3>1, <3>2
  <2>16. RowsAreOfBatches'
    <3>1. BatchesOf(run)' = BatchesOf(run)
      BY <1>1 DEF BatchesOf
    <3> QED BY <1>1, <1>14, <2>12, <2>15, <3>1 DEF HistoryInv, RowsAreOfBatches
  <2>17. NoOpenResults'
    <3>1. \E r \in 1..run : b \in BatchesOf(r)' /\ row'[r].status \in {"RUNNING", "WAITING_INPUT"}
      BY <1>1, <1>13, <2>8
    <3> QED BY <1>1, <1>13, <2>3, <2>8, <2>12, <3>1
        DEF HistoryInv, HistoryIsTrue, NoOpenResults
  <2>18. HistoryIsComplete'
    <3>1. \A x : CallsOf(x)' = CallsOf(x)
      BY <1>1 DEF CallsOf, BatchOf
    <3>2. \A c : AnswersTo(c)' = AnswersTo(c)
      BY <1>1 DEF AnswersTo
    <3>3. ASSUME NEW r \in 1..run, row[r].status = "SUCCEEDED", NEW x \in BatchesOf(r)
          PROVE  x # b /\ x \in Batches
      <4>1. PICK d \in 1..n : thread.asked[d].run = r /\ thread.asked[d].batch = x
        BY <1>5, <3>3 DEF BatchesOf
      <4>2. r # run
        BY <1>1, <3>3
      <4>3. d <= e.call \/ e.call <= d
        BY <1>5, <1>6
      <4>4. thread.asked[d].batch = thread.asked[e.call].batch =>
              thread.asked[d].run = thread.asked[e.call].run
        BY <1>5, <1>6, <4>3 DEF RunsInv, CallsFit, AskedInOrder
      <4> QED BY <1>5, <1>7, <2>7, <4>1, <4>2, <4>4
    <3>4. \A r \in 1..run : row[r].status = "SUCCEEDED" =>
            \A x \in BatchesOf(r) : resultRows'[x] = resultRows[x]
      BY <2>12, <3>3
    <3>5. \A x : {AnswersTo(c)' : c \in CallsOf(x)'} = {AnswersTo(c) : c \in CallsOf(x)}
      BY <3>1, <3>2
    <3>6. \A r \in 1..run : row[r].status = "SUCCEEDED" =>
            \A x \in BatchesOf(r) :
              /\ x \in callRows
              /\ resultRows[x] = [ status  |-> "COMPLETED",
                                   results |-> UNION {AnswersTo(c) : c \in CallsOf(x)} ]
      BY DEF HistoryInv, HistoryIsTrue, HistoryIsComplete
    <3>7. \A r \in 1..run : row'[r].status = "SUCCEEDED" =>
            \A x \in BatchesOf(r) :
              /\ x \in callRows'
              /\ resultRows'[x] = [ status  |-> "COMPLETED",
                                    results |-> UNION {AnswersTo(c)' : c \in CallsOf(x)'} ]
      BY <1>1, <2>3, <3>4, <3>5, <3>6
    <3> QED BY <1>1, <1>13, <3>7 DEF HistoryIsComplete
  <2>19. Announced(thread, {})' /\ Announced(draft, Queued)'
    <3>1. Queued = {}
      BY <1>1, <1>2, <1>20 DEF Queued
    <3> QED BY <1>1, <1>9, <2>3, <3>1 DEF HistoryInv, Announced, Taken
  <2> QED BY <1>9, <1>10, <1>11, <2>14, <2>16, <2>17, <2>18, <2>19 DEF HistoryInv, HistoryIsTrue
<1> QED BY <1>19, <1>20

LEMMA HistoryStart == Init => HistoryInv
<1> SUFFICES ASSUME Init PROVE HistoryInv
  OBVIOUS
<1>1. /\ thread.asked = <<>> /\ DOMAIN thread.asked = {} /\ draft = thread /\ queue = <<>>
      /\ pc = "idle" /\ run = 0 /\ seen = [started |-> {}, answered |-> {}]
      /\ callRows = {} /\ \A b \in Batches : resultRows[b] = [status |-> "ABSENT", results |-> {}]
  BY DEF Init, HistoryInit
<1>2. QueueFits /\ SeenFits /\ OnlyCurrent
  BY <1>1 DEF QueueFits, SeenFits, OnlyCurrent
<1>3. Announced(thread, {}) /\ Announced(draft, Queued) /\ RowsHold
  BY <1>1 DEF Announced, RowsHold
<1>4. RowsAreOfBatches
  BY <1>1 DEF RowsAreOfBatches
<1>5. HistoryIsTrue
  BY <1>1 DEF HistoryIsTrue, HistoryIsComplete, NoOpenResults
<1> QED BY <1>2, <1>3, <1>4, <1>5 DEF HistoryInv

LEMMA HistoryStep == GraphInv /\ RunsInv /\ HistoryInv /\ [Next]_vars => HistoryInv'
<1> SUFFICES ASSUME GraphInv, RunsInv, HistoryInv, [Next]_vars PROVE HistoryInv'
  OBVIOUS
<1>1. CASE Memory \/ Reply \/ Dispatch \/ Approve
  BY <1>1, HistorySameStep
<1>2. CASE Ask
  BY <1>2, HistoryAskStep
<1>3. CASE Reject \/ RefuseTool \/ ToolReturns \/ ToolTimesOut \/ ChildReturns \/ ChildTimesOut
  BY <1>3, HistoryResultStep
<1>4. CASE CallTool \/ CallSubagent \/ Final \/ UNCHANGED vars
  BY <1>4, HistoryIdleStep
<1>5. CASE OutOfSteps \/ Break \/ ChildRaisesTimeout \/ Interrupt
  BY <1>5, HistoryBreakStep
<1>6. CASE Complete \/ Settle \/ AbortResume
  BY <1>6, HistoryEndStep DEF Complete, Settle, AbortResume
<1>7. CASE StartTurn
  BY <1>7, HistoryStartStep
<1>8. CASE Resume("approved") \/ Resume("rejected")
  BY <1>8, HistoryResumeStep
<1>9. CASE Publish
  BY <1>9, HistoryPublishStep
<1>10. CASE Commit
  BY <1>10, HistoryCommitStep
<1> QED BY <1>1, <1>2, <1>3, <1>4, <1>5, <1>6, <1>7, <1>8, <1>9, <1>10 DEF Next, StreamStep

\* The whole inductive invariant.
THEOREM MainGraphInvHolds == Spec => []MainGraphInv
BY GraphInvHolds, RunsStart, RunsStep, HistoryStart, HistoryStep, PTL DEF Spec, MainGraphInv

\* The history of a run that succeeded has every batch with exactly the results the
\* model was given, and no finished run leaves a result message open: whatever
\* stream breaks between an event's publication and its checkpoint.
THEOREM HistoryIsKept == Spec => []HistoryIsTrue
<1>1. MainGraphInv => HistoryIsTrue
  BY DEF MainGraphInv, HistoryInv
<1> QED BY <1>1, MainGraphInvHolds, PTL
=============================================================================
