----------------------------- MODULE MemoryProofs -----------------------------
(***************************************************************************)
(* Theorems about MemoryConsolidation for all conversations, facts,        *)
(* thresholds and numbers of tasks: every turn is used once, deletion      *)
(* empties, and what was forgotten stays forgotten.                        *)
(***************************************************************************)
EXTENDS MemoryConsolidation, FiniteSetTheorems, TLAPS

-----------------------------------------------------------------------------
(* The invariant.                                                          *)

JobRecords == [phase : {"idle", "started", "reading", "extracting", "indexing"},
               conv : Conversations \cup {None}, after : Nat, batch : SUBSET TurnIds,
               seen : SUBSET Keys, points : SUBSET Points]

Types ==
  /\ TypeOK
  /\ job \in [Jobs -> JobRecords]
  /\ \A c \in Conversations : turns[c] <= MaxTurns[c]
  /\ added \in 0..MaxFacts
  /\ used \in [Conversations -> [TurnIds -> Nat]]
  /\ asks \in [Conversations -> Nat] /\ raced \in [Conversations -> BOOLEAN]
  /\ sync \in [Conversations -> [op : {"none", "upsert", "delete"}, points : SUBSET Points]]

Active(j) == job[j].phase # "idle"

(* A conversation has one consolidation at a time; between its cursor and   *)
(* its commit it works on the turns right after the cursor.                 *)
JobsInv ==
  /\ \A i, j \in Jobs : Active(i) /\ Active(j) /\ job[i].conv = job[j].conv => i = j
  /\ \A j \in Jobs : Active(j) => job[j].conv \in Conversations
  /\ \A j \in Jobs : job[j].phase = "extracting" =>
       job[j].batch = job[j].after + 1 .. job[j].after + Threshold
  /\ \A j \in Jobs : job[j].phase \in {"reading", "extracting"} /\ phase[job[j].conv] = "live"
       => job[j].after = cursor[job[j].conv]

\* A conversation deleted in peace has no consolidation and will have none.
QuietInv ==
  \A c \in Conversations : phase[c] # "live" /\ ~raced[c] =>
    asks[c] = 0 /\ \A j \in Jobs : Active(j) => job[j].conv # c

MInv == Types /\ JobsInv /\ QuietInv /\ EachTurnOnce /\ EpisodesAreUsed /\ OneRowPerKey
              /\ DeletionEmpties

-----------------------------------------------------------------------------
(* Numbers and shapes.                                                     *)

LEMMA TurnFacts ==
  /\ \A t \in TurnIds : t \in Nat /\ t > 0
  /\ \A c \in Conversations : \A t \in 1..MaxTurns[c] : t \in TurnIds
BY MemoryAssumption DEF TurnIds

LEMMA IdleIsRecord == Idle \in JobRecords /\ Idle.phase = "idle"
BY DEF Idle, JobRecords

\* The last turn of a batch.
LEMMA MaxOfBatch == ASSUME NEW a \in Nat, NEW n \in Nat \ {0} PROVE Max(a + 1 .. a + n) = a + n
<1>1. a + n \in a + 1 .. a + n /\ \A y \in a + 1 .. a + n : a + n >= y
  OBVIOUS
<1>2. ASSUME NEW x \in a + 1 .. a + n, \A y \in a + 1 .. a + n : x >= y PROVE x = a + n
  BY <1>1, <1>2
<1> QED BY <1>1, <1>2 DEF Max

\* A batch that is due is the Threshold turns after the cursor.
LEMMA DueBatch ==
  ASSUME NEW c \in Conversations, Types, NEW last \in Nat,
         ~ (Cardinality(TurnsAfter(c, last)) < Threshold)
  PROVE  /\ TurnsAfter(c, last) = last + 1 .. last + Threshold
         /\ TurnsAfter(c, last) \subseteq TurnIds
<1>1. turns[c] \in Nat /\ turns[c] <= MaxTurns[c] /\ MaxTurns[c] \in Nat
      /\ Threshold \in Nat \ {0}
  <2>1. turns[c] \in TurnIds \cup {0} /\ turns[c] <= MaxTurns[c]
    BY DEF Types, TypeOK
  <2>2. MaxTurns[c] \in Nat /\ Threshold \in Nat \ {0}
    BY MemoryAssumption
  <2>3. turns[c] \in Nat
    <3>1. CASE turns[c] \in TurnIds BY <3>1, TurnFacts
    <3>2. CASE turns[c] = 0 BY <3>2
    <3> QED BY <2>1, <3>1, <3>2
  <2> QED BY <2>1, <2>2, <2>3
<1>2. last + Threshold <= turns[c]
  <2>1. SUFFICES ASSUME turns[c] < last + Threshold PROVE FALSE
    BY <1>1
  <2>2. TurnsAfter(c, last) = last + 1 .. turns[c]
    BY <1>1, <2>1 DEF TurnsAfter
  <2> DEFINE from == last + 1
  <2>3. Cardinality(from .. turns[c]) = IF from > turns[c] THEN 0 ELSE turns[c] - from + 1
    <3>1. from \in Int /\ turns[c] \in Int BY <1>1
    <3> HIDE DEF from
    <3> QED BY <3>1, FS_Interval
  <2>4. Cardinality(last + 1 .. turns[c]) < Threshold
    BY <1>1, <2>1, <2>3
  <2> QED BY <2>2, <2>4
<1>3. TurnsAfter(c, last) = last + 1 .. last + Threshold
  BY <1>1, <1>2 DEF TurnsAfter
<1>4. \A t \in last + 1 .. last + Threshold : t \in 1..MaxTurns[c]
  BY <1>1, <1>2
<1> QED BY <1>3, <1>4, TurnFacts

\* New rows get distinct keys: as many ids as keys, and every key an id.
LEMMA RowsAreDistinct ==
  ASSUME NEW n \in Nat, NEW new, IsFiniteSet(new),
         NEW rowOf \in [n + 1 .. n + Cardinality(new) -> new],
         {rowOf[i] : i \in n + 1 .. n + Cardinality(new)} = new
  PROVE  \A i, k \in n + 1 .. n + Cardinality(new) : rowOf[i] = rowOf[k] => i = k
<1> DEFINE ids == n + 1 .. n + Cardinality(new)
<1>1. Cardinality(new) \in Nat
  BY FS_CardinalityType
<1>2. IsFiniteSet(ids) /\ Cardinality(ids) = Cardinality(new)
  <2> DEFINE from == n + 1
             to   == n + Cardinality(new)
  <2>1. IsFiniteSet(from .. to)
        /\ Cardinality(from .. to) = IF from > to THEN 0 ELSE to - from + 1
    <3>1. from \in Int /\ to \in Int BY <1>1
    <3> HIDE DEF from, to
    <3> QED BY <3>1, FS_Interval
  <2> QED BY <1>1, <2>1
<1>3. rowOf \in Surjection(ids, new)
  BY DEF Surjection
<1>4. rowOf \in Injection(ids, new)
  BY <1>2, <1>3, FS_SurjSameCardinalityImpliesInj
<1> QED BY <1>4 DEF Injection, IsInjective

-----------------------------------------------------------------------------
(* What a commit of a consolidation does.                                  *)

LEMMA CommitOfTurns ==
  ASSUME Types, JobsInv, NEW j \in Jobs, Consolidate(j)
  PROVE  LET c == job[j].conv
             last == job[j].after + Threshold
         IN /\ job[j].phase = "extracting" /\ c \in Conversations /\ last \in TurnIds
            /\ job[j].after \in Nat /\ job[j].batch = job[j].after + 1 .. last
            /\ cursor' = [cursor EXCEPT ![c] = last]
            /\ used' = [used EXCEPT ![c] = [t \in TurnIds |->
                          used[c][t] + IF t \in job[j].batch THEN 1 ELSE 0]]
            /\ UNCHANGED <<turns, phase, asks, index, sync, raced>>
<1> DEFINE c == job[j].conv
           last == job[j].after + Threshold
<1>1. job[j].phase = "extracting" /\ UNCHANGED <<turns, phase, asks, index, sync, raced>>
  BY DEF Consolidate
<1>2. job[j] \in JobRecords
  BY DEF Types
<1>3. job[j].after \in Nat /\ job[j].batch \subseteq TurnIds
  BY <1>2 DEF JobRecords
<1>4. c \in Conversations /\ job[j].batch = job[j].after + 1 .. last
  BY <1>1 DEF JobsInv, Active
<1>5. Max(job[j].batch) = last
  BY <1>3, <1>4, MaxOfBatch, MemoryAssumption
<1>6. last \in job[j].batch
  <2>1. Threshold \in Nat \ {0} BY MemoryAssumption
  <2> QED BY <1>3, <1>4, <2>1
<1>7. cursor' = [cursor EXCEPT ![c] = last]
  BY <1>5 DEF Consolidate, AdvanceCursor
<1>8. used' = [used EXCEPT ![c] = [t \in TurnIds |->
                 used[c][t] + IF t \in job[j].batch THEN 1 ELSE 0]]
  BY DEF Consolidate
<1> QED BY <1>1, <1>3, <1>4, <1>6, <1>7, <1>8

LEMMA CommitOfRows ==
  ASSUME Types, JobsInv, NEW j \in Jobs, Consolidate(j)
  PROVE  LET c == job[j].conv
             last == job[j].after + Threshold
         IN /\ added' \in 0..MaxFacts
            /\ facts' \subseteq Facts /\ facts \subseteq facts'
            /\ \A f \in facts' \ facts : f.conv = c /\ f.key \notin KeysOf(facts)
            /\ \A f, g \in facts' \ facts : f.key = g.key => f = g
            /\ episodes \subseteq episodes'
            /\ \A e \in episodes' \ episodes : e = [conv |-> c, turn |-> last]
            /\ \E r \in JobRecords : /\ r.phase = "indexing" /\ r.conv = c
                                     /\ job' = [job EXCEPT ![j] = r]
<1> DEFINE c == job[j].conv
           last == job[j].after + Threshold
<1>1. Max(job[j].batch) = last /\ c \in Conversations /\ last \in TurnIds
  <2>1. job[j].after \in Nat /\ job[j].batch = job[j].after + 1 .. last
    BY CommitOfTurns
  <2>2. Threshold \in Nat \ {0} BY MemoryAssumption
  <2> QED BY <2>1, <2>2, MaxOfBatch, CommitOfTurns
<1>2. PICK candidates \in SUBSET Keys, view \in {KeysOf(facts), job[j].seen}, noted \in BOOLEAN :
        LET new  == Staged(j, candidates, view)
            ids  == added + 1 .. added + Cardinality(new)
            ep   == IF noted /\ [conv |-> c, turn |-> last] \notin episodes
                      THEN {[conv |-> c, turn |-> last]} ELSE {}
        IN /\ new \cap KeysOf(facts) = {}
           /\ added + Cardinality(new) <= MaxFacts
           /\ added' = added + Cardinality(new)
           /\ \E rowOf \in [ids -> new] :
                /\ {rowOf[i] : i \in ids} = new
                /\ facts' = facts \cup {[id |-> i, key |-> rowOf[i], status |-> "active",
                                         conv |-> c] : i \in ids}
           /\ episodes' = episodes \cup ep
           /\ Moves(j, "extracting", [job[j] EXCEPT !.phase = "indexing",
                 !.points = {FactPoint(i) : i \in ids} \cup {EpisodePoint(e) : e \in ep}])
  BY <1>1, Zenon DEF Consolidate
<1> DEFINE new  == Staged(j, candidates, view)
           ids  == added + 1 .. added + Cardinality(new)
           ep   == IF noted /\ [conv |-> c, turn |-> last] \notin episodes
                     THEN {[conv |-> c, turn |-> last]} ELSE {}
           row(i, k) == [id |-> i, key |-> k, status |-> "active", conv |-> c]
<1>3. new \in SUBSET Keys /\ IsFiniteSet(new) /\ Cardinality(new) \in Nat
  <2>1. new \in SUBSET Keys BY DEF Staged
  <2>2. IsFiniteSet(Keys) BY MemoryAssumption
  <2> HIDE DEF new
  <2>3. IsFiniteSet(new) BY <2>1, <2>2, FS_Subset
  <2> QED BY <2>1, <2>3, FS_CardinalityType
<1>4. PICK rowOf \in [ids -> new] :
        /\ {rowOf[i] : i \in ids} = new
        /\ facts' = facts \cup {row(i, rowOf[i]) : i \in ids}
  BY <1>2
<1>5. new \cap KeysOf(facts) = {} /\ added' = added + Cardinality(new) /\ added' <= MaxFacts
      /\ episodes' = episodes \cup ep
  BY <1>2
<1>6. added \in Nat /\ MaxFacts \in Nat
  BY MemoryAssumption DEF Types
<1>7. added' \in 0..MaxFacts /\ \A i \in ids : i \in 1..MaxFacts
  BY <1>3, <1>5, <1>6
<1>8. \A i, k \in ids : rowOf[i] = rowOf[k] => i = k
  <2> HIDE DEF new
  <2> QED BY <1>3, <1>4, <1>6, RowsAreDistinct
<1>9. facts' \subseteq Facts /\ facts \subseteq facts'
  <2>1. facts \subseteq Facts BY DEF Types, TypeOK
  <2>2. \A i \in ids : row(i, rowOf[i]) \in Facts
    BY <1>1, <1>3, <1>7 DEF Facts
  <2> QED BY <1>4, <2>1, <2>2
<1>10. ASSUME NEW f \in facts' \ facts
       PROVE  f.conv = c /\ f.key \notin KeysOf(facts) /\ \E i \in ids : f = row(i, rowOf[i])
  <2>1. PICK i \in ids : f = row(i, rowOf[i])
    BY <1>4
  <2> QED BY <2>1, <1>5
<1>11. ASSUME NEW f \in facts' \ facts, NEW g \in facts' \ facts, f.key = g.key
       PROVE  f = g
  <2>1. PICK i \in ids : f = row(i, rowOf[i])
    BY <1>10
  <2>2. PICK k \in ids : g = row(k, rowOf[k])
    BY <1>10
  <2>3. rowOf[i] = rowOf[k]
    BY <2>1, <2>2, <1>11
  <2> QED BY <2>1, <2>2, <2>3, <1>8
<1>12. \E r \in JobRecords : r.phase = "indexing" /\ r.conv = c /\ job' = [job EXCEPT ![j] = r]
  <2> DEFINE pts == {FactPoint(i) : i \in ids} \cup {EpisodePoint(e) : e \in ep}
             r == [job[j] EXCEPT !.phase = "indexing", !.points = pts]
  <2>1. pts \in SUBSET Points
    <3>1. \A i \in ids : FactPoint(i) \in Points
      BY <1>7 DEF Points, FactPoints
    <3>2. ep \subseteq Episodes
      BY <1>1 DEF Episodes
    <3>3. \A e \in ep : EpisodePoint(e) \in Points
      BY <3>2 DEF Points
    <3> QED BY <3>1, <3>3
  <2>2. job[j] \in JobRecords
    BY DEF Types
  <2>3. job' = [job EXCEPT ![j] = r]
    BY <1>2 DEF Moves
  <2> HIDE DEF pts
  <2>4. r \in JobRecords /\ r.phase = "indexing" /\ r.conv = c
    BY <2>1, <2>2 DEF JobRecords
  <2> QED BY <2>3, <2>4
<1>13. \A e \in episodes' \ episodes : e = [conv |-> c, turn |-> last]
  BY <1>5
<1> QED BY <1>5, <1>7, <1>9, <1>10, <1>11, <1>12, <1>13

-----------------------------------------------------------------------------
(* The steps.                                                              *)

\* What the steps of a conversation do, as far as rows are not concerned.
CallStep(c) ==
  \/ \E k \in Keys : RememberExplicit(c, k)
  \/ \E f \in facts, k \in Keys : Correct(c, f, k)
  \/ \E f \in facts : Forget(c, f)

RequestStep(c) ==
  CompleteTurn(c) \/ ScheduleConsolidation(c) \/ SyncIndex(c) \/ Retrieve(c) \/ RetrieveRecords(c)

DeletionStep(c) ==
  BeginDeletion(c) \/ DeleteConversationMemory(c) \/ DeleteHistory(c) \/ RetryDeletion(c)

JobStep(j) ==
  GetCursor(j) \/ ListCompletedTurns(j) \/ ConsolidationFails(j) \/ UpsertMemories(j)

LEMMA Steps ==
  ASSUME [Next]_vars
  PROVE  \/ \E c \in Conversations : CallStep(c) \/ RequestStep(c) \/ DeletionStep(c)
         \/ \E j \in Jobs : JobStep(j) \/ Consolidate(j)
         \/ UNCHANGED vars
BY DEF Next, CallStep, RequestStep, DeletionStep, JobStep

\* A fact a call adds, corrects or forgets is a fact.
LEMMA CallKeepsTypes ==
  ASSUME Types, NEW c \in Conversations, CallStep(c) PROVE Types'
<1> USE DEF rows, past, vars
<1>1. UNCHANGED <<episodes, cursor, turns, phase, asks, job, index, used, raced>>
  BY DEF CallStep, RememberExplicit, Correct, Forget
<1>2. facts' \subseteq Facts /\ added' \in 0..MaxFacts
      /\ \E s \in [op : {"none", "upsert", "delete"}, points : SUBSET Points] :
           sync' = [sync EXCEPT ![c] = s]
  <2>1. MaxFacts \in Nat /\ added \in 0..MaxFacts /\ facts \subseteq Facts
    BY MemoryAssumption DEF Types, TypeOK
  <2>2. \A i \in 1..MaxFacts : FactPoint(i) \in Points
    BY DEF Points, FactPoints
  <2>3. NoSync \in [op : {"none", "upsert", "delete"}, points : SUBSET Points]
    BY DEF NoSync
  <2>4. CASE \E k \in Keys : RememberExplicit(c, k)
    <3>1. PICK k \in Keys : RememberExplicit(c, k) BY <2>4
    <3>2. CASE k \notin KeysOf(facts)
      <4>1. /\ added < MaxFacts /\ facts' = facts \cup {NewFact(k, c)} /\ added' = added + 1
            /\ sync' = [sync EXCEPT ![c] = [op |-> "upsert", points |-> {FactPoint(added')}]]
        BY <3>1, <3>2 DEF RememberExplicit
      <4>2. added + 1 \in 1..MaxFacts /\ added' \in 0..MaxFacts BY <4>1, <2>1
      <4>3. NewFact(k, c) \in Facts BY <4>2 DEF NewFact, Facts
      <4>4. FactPoint(added') \in Points BY <4>1, <4>2, <2>2
      <4> QED BY <4>1, <4>2, <4>3, <4>4, <2>1
    <3>3. CASE k \in KeysOf(facts)
      <4>1. PICK f \in facts :
              /\ facts' = (facts \ {f}) \cup {[f EXCEPT !.status = "active"]}
              /\ sync' = [sync EXCEPT ![c] =
                   IF f.status = "active" THEN NoSync
                   ELSE [op |-> "upsert", points |-> {FactPoint(f.id)}]]
              /\ UNCHANGED added
        BY <3>1, <3>3 DEF RememberExplicit
      <4>2. [f EXCEPT !.status = "active"] \in Facts /\ f.id \in 1..MaxFacts
        BY <2>1 DEF Facts
      <4>3. FactPoint(f.id) \in Points BY <4>2, <2>2
      <4>4. facts' \subseteq Facts BY <4>1, <4>2, <2>1
      <4>5. CASE f.status = "active" BY <4>1, <4>4, <4>5, <2>1, <2>3
      <4>6. CASE f.status # "active" BY <4>1, <4>3, <4>4, <4>6, <2>1
      <4> QED BY <4>5, <4>6
    <3> QED BY <3>2, <3>3
  <2>5. CASE \E f \in facts, k \in Keys : Correct(c, f, k)
    <3>1. PICK f \in facts, k \in Keys : Correct(c, f, k) BY <2>5
    <3>2. /\ facts' = (facts \ {f}) \cup {[f EXCEPT !.key = k]} /\ UNCHANGED added
          /\ sync' = [sync EXCEPT ![c] = [op |-> "upsert", points |-> {FactPoint(f.id)}]]
      BY <3>1 DEF Correct
    <3>3. [f EXCEPT !.key = k] \in Facts /\ f.id \in 1..MaxFacts BY <2>1 DEF Facts
    <3>4. FactPoint(f.id) \in Points BY <3>3, <2>2
    <3> QED BY <3>2, <3>3, <3>4, <2>1
  <2>6. CASE \E f \in facts : Forget(c, f)
    <3>1. PICK f \in facts : Forget(c, f) BY <2>6
    <3>2. /\ facts' = (facts \ {f}) \cup {[f EXCEPT !.status = "deleted"]} /\ UNCHANGED added
          /\ sync' = [sync EXCEPT ![c] = [op |-> "delete", points |-> {FactPoint(f.id)}]]
      BY <3>1 DEF Forget
    <3>3. [f EXCEPT !.status = "deleted"] \in Facts /\ f.id \in 1..MaxFacts BY <2>1 DEF Facts
    <3>4. FactPoint(f.id) \in Points BY <3>3, <2>2
    <3> QED BY <3>2, <3>3, <3>4, <2>1
  <2> QED BY <2>4, <2>5, <2>6 DEF CallStep
<1>3. sync' \in [Conversations -> [op : {"none", "upsert", "delete"}, points : SUBSET Points]]
  BY <1>2 DEF Types
<1> QED BY <1>1, <1>2, <1>3 DEF Types, TypeOK

LEMMA RequestKeepsTypes ==
  ASSUME Types, NEW c \in Conversations, RequestStep(c) PROVE Types'
<1> USE DEF rows, past, vars
<1>1. CASE CompleteTurn(c)
  <2>1. /\ turns[c] < MaxTurns[c] /\ turns' = [turns EXCEPT ![c] = turns[c] + 1]
        /\ asks' = [asks EXCEPT ![c] = asks[c] + 1]
        /\ UNCHANGED <<facts, episodes, cursor, phase, job, index, sync, used, raced, added>>
    BY <1>1 DEF CompleteTurn
  <2>2. turns[c] + 1 \in TurnIds /\ turns[c] + 1 <= MaxTurns[c]
    <3>1. MaxTurns[c] \in Nat BY MemoryAssumption
    <3>2. turns[c] \in TurnIds \/ turns[c] = 0 BY DEF Types, TypeOK
    <3>3. turns[c] \in Nat BY <3>2, TurnFacts
    <3>4. turns[c] + 1 \in 1..MaxTurns[c] BY <2>1, <3>1, <3>3
    <3> QED BY <3>4, TurnFacts
  <2> QED BY <2>1, <2>2 DEF Types, TypeOK
<1>2. CASE ScheduleConsolidation(c)
  <2>1. /\ asks[c] > 0 /\ asks' = [asks EXCEPT ![c] = asks[c] - 1]
        /\ UNCHANGED <<facts, episodes, cursor, turns, phase, index, sync, used, raced, added>>
    BY <1>2 DEF ScheduleConsolidation
  <2>2. job' \in [Jobs -> JobRecords]
    <3>1. [Idle EXCEPT !.phase = "started", !.conv = c] \in JobRecords
      BY DEF Idle, JobRecords
    <3> QED BY <1>2, <3>1 DEF ScheduleConsolidation, Types
  <2>3. asks' \in [Conversations -> Nat] BY <2>1 DEF Types
  <2>4. \A j \in Jobs : job'[j].conv \in Conversations \cup {None} BY <2>2 DEF JobRecords
  <2> QED BY <2>1, <2>2, <2>3, <2>4 DEF Types, TypeOK
<1>3. CASE SyncIndex(c)
  <2>1. index' \subseteq Points BY <1>3 DEF SyncIndex, Apply, Types, TypeOK
  <2>2. sync' \in [Conversations -> [op : {"none", "upsert", "delete"}, points : SUBSET Points]]
    BY <1>3 DEF SyncIndex, Types, NoSync
  <2> QED BY <1>3, <2>1, <2>2 DEF SyncIndex, Types, TypeOK
<1>4. CASE Retrieve(c) \/ RetrieveRecords(c)
  BY <1>4 DEF Retrieve, RetrieveRecords, Types, TypeOK
<1> QED BY <1>1, <1>2, <1>3, <1>4 DEF RequestStep

LEMMA DeletionKeepsTypes ==
  ASSUME Types, NEW c \in Conversations, DeletionStep(c) PROVE Types'
<1> USE DEF rows, past, vars
<1>1. CASE BeginDeletion(c)
  <2>1. index' \subseteq Points BY <1>1 DEF BeginDeletion, Apply, Types, TypeOK
  <2>2. sync' \in [Conversations -> [op : {"none", "upsert", "delete"}, points : SUBSET Points]]
    BY <1>1 DEF BeginDeletion, Types, NoSync
  <2>3. raced' \in [Conversations -> BOOLEAN]
    BY <1>1 DEF BeginDeletion, Types
  <2>4. asks' \in [Conversations -> Nat]
    BY <1>1 DEF BeginDeletion, Types
  <2> QED BY <1>1, <2>1, <2>2, <2>3, <2>4 DEF BeginDeletion, Types, TypeOK
<1>2. CASE DeleteConversationMemory(c)
  <2> DEFINE pts == {FactPoint(f.id) : f \in {g \in facts : g.conv = c}}
                      \cup {EpisodePoint(e) : e \in {d \in episodes : d.conv = c}}
  <2>1. pts \in SUBSET Points
    <3>1. \A f \in facts : f.id \in 1..MaxFacts BY DEF Types, TypeOK, Facts
    <3>2. \A f \in facts : FactPoint(f.id) \in Points BY <3>1 DEF Points, FactPoints
    <3>3. \A e \in episodes : EpisodePoint(e) \in Points BY DEF Points, Types, TypeOK
    <3> QED BY <3>2, <3>3
  <2>2. sync' = [sync EXCEPT ![c] = [op |-> "delete", points |-> pts]]
    BY <1>2 DEF DeleteConversationMemory
  <2> HIDE DEF pts
  <2>3. sync' \in [Conversations -> [op : {"none", "upsert", "delete"}, points : SUBSET Points]]
    BY <2>1, <2>2 DEF Types
  <2> QED BY <1>2, <2>3 DEF DeleteConversationMemory, Types, TypeOK
<1>3. CASE DeleteHistory(c)
  <2>1. MaxTurns[c] \in Nat BY MemoryAssumption
  <2> QED BY <1>3, <2>1 DEF DeleteHistory, Types, TypeOK
<1>4. CASE RetryDeletion(c)
  BY <1>4 DEF RetryDeletion, Types, TypeOK
<1> QED BY <1>1, <1>2, <1>3, <1>4 DEF DeletionStep

\* A task that moves on leaves its conversation's rows and turns alone.
LEMMA JobMoves ==
  ASSUME Types, JobsInv, NEW j \in Jobs, JobStep(j)
  PROVE  /\ UNCHANGED <<facts, episodes, cursor, turns, phase, asks, sync, used, raced, added>>
         /\ index' \subseteq Points /\ Active(j)
         /\ \E r \in JobRecords : job' = [job EXCEPT ![j] = r] /\
              \/ r.phase = "idle"
              \/ /\ r.phase = "reading" /\ r.conv = job[j].conv /\ r.after = cursor[r.conv]
              \/ /\ r.phase = "extracting" /\ r.conv = job[j].conv /\ r.after = job[j].after
                 /\ job[j].phase = "reading"
                 /\ r.batch = r.after + 1 .. r.after + Threshold
<1> USE DEF rows, past, vars
<1>1. job[j] \in JobRecords /\ Idle \in JobRecords /\ Idle.phase = "idle"
  BY IdleIsRecord DEF Types
<1>2. index \subseteq Points
  BY DEF Types, TypeOK
<1>3. CASE GetCursor(j) /\ job[j].conv \in Conversations
  <2> DEFINE r == [job[j] EXCEPT !.phase = "reading", !.after = cursor[job[j].conv],
                                 !.seen = KeysOf(facts)]
  <2>1. job' = [job EXCEPT ![j] = r] /\ job[j].phase = "started"
        /\ UNCHANGED <<facts, episodes, cursor, turns, phase, asks, index, sync, used, raced, added>>
    BY <1>3 DEF GetCursor, Moves
  <2>2. KeysOf(facts) \subseteq Keys
    BY DEF KeysOf, Types, TypeOK, Facts
  <2>3. cursor[job[j].conv] \in Nat
    <3>1. cursor[job[j].conv] \in TurnIds \/ cursor[job[j].conv] = 0 BY <1>3 DEF Types, TypeOK
    <3> QED BY <3>1, TurnFacts
  <2>4. r \in JobRecords BY <1>1, <2>2, <2>3 DEF JobRecords
  <2>5. r.phase = "reading" /\ r.conv = job[j].conv /\ r.after = cursor[r.conv]
    BY <1>1 DEF JobRecords
  <2> HIDE DEF r
  <2> QED BY <1>2, <2>1, <2>4, <2>5 DEF Active
<1>4. CASE ListCompletedTurns(j) /\ job[j].conv \in Conversations
  <2> DEFINE batch == TurnsAfter(job[j].conv, job[j].after)
             r == [job[j] EXCEPT !.phase = "extracting", !.batch = batch]
  <2>1. job[j].phase = "reading"
        /\ UNCHANGED <<facts, episodes, cursor, turns, phase, asks, index, sync, used, raced, added>>
    BY <1>4 DEF ListCompletedTurns, Moves
  <2>2. CASE Cardinality(batch) < Threshold
    <3>1. job' = [job EXCEPT ![j] = Idle]
      BY <1>4, <2>2 DEF ListCompletedTurns, Moves
    <3> QED BY <1>1, <1>2, <2>1, <3>1 DEF Active
  <2>3. CASE ~ (Cardinality(batch) < Threshold)
    <3>1. job' = [job EXCEPT ![j] = r]
      BY <1>4, <2>3 DEF ListCompletedTurns, Moves
    <3>2. job[j].after \in Nat BY <1>1 DEF JobRecords
    <3>3. batch = job[j].after + 1 .. job[j].after + Threshold /\ batch \subseteq TurnIds
      BY <1>4, <2>3, <3>2, DueBatch
    <3> HIDE DEF batch
    <3>4. r \in JobRecords BY <1>1, <3>3 DEF JobRecords
    <3>5. /\ r.phase = "extracting" /\ r.conv = job[j].conv /\ r.after = job[j].after
          /\ r.batch = batch
      BY <1>1 DEF JobRecords
    <3> HIDE DEF r
    <3> QED BY <1>2, <2>1, <3>1, <3>3, <3>4, <3>5 DEF Active
  <2> QED BY <2>2, <2>3
<1>5. CASE ConsolidationFails(j)
  BY <1>1, <1>2, <1>5 DEF ConsolidationFails, Active
<1>6. CASE UpsertMemories(j)
  <2>1. job[j].phase = "indexing" /\ job' = [job EXCEPT ![j] = Idle]
        /\ UNCHANGED <<facts, episodes, cursor, turns, phase, asks, sync, used, raced, added>>
    BY <1>6 DEF UpsertMemories, Moves
  <2>2. job[j].points \subseteq Points BY <1>1 DEF JobRecords
  <2>3. index' \subseteq Points BY <1>2, <1>6, <2>2 DEF UpsertMemories, Apply
  <2> QED BY <1>1, <2>1, <2>3 DEF Active
<1>7. GetCursor(j) \/ ListCompletedTurns(j) => job[j].conv \in Conversations
  BY DEF GetCursor, ListCompletedTurns, Moves, JobsInv, Active
<1> QED BY <1>3, <1>4, <1>5, <1>6, <1>7 DEF JobStep

LEMMA CommitKeepsTypes ==
  ASSUME Types, JobsInv, NEW j \in Jobs, Consolidate(j) PROVE Types'
<1> DEFINE c == job[j].conv
           last == job[j].after + Threshold
<1>1. /\ c \in Conversations /\ last \in TurnIds
      /\ cursor' = [cursor EXCEPT ![c] = last]
      /\ used' = [used EXCEPT ![c] = [t \in TurnIds |->
                    used[c][t] + IF t \in job[j].batch THEN 1 ELSE 0]]
      /\ UNCHANGED <<turns, phase, asks, index, sync, raced>>
  BY CommitOfTurns
<1>2. /\ added' \in 0..MaxFacts /\ facts' \subseteq Facts
      /\ \A e \in episodes' \ episodes : e = [conv |-> c, turn |-> last]
      /\ \E r \in JobRecords : job' = [job EXCEPT ![j] = r]
  BY CommitOfRows
<1>3. episodes' \subseteq Episodes
  <2>1. [conv |-> c, turn |-> last] \in Episodes BY <1>1 DEF Episodes
  <2> QED BY <1>2, <2>1 DEF Types, TypeOK
<1>4. job' \in [Jobs -> JobRecords] BY <1>2 DEF Types
<1>5. \A i \in Jobs : job'[i].conv \in Conversations \cup {None} BY <1>4 DEF JobRecords
<1>6. used' \in [Conversations -> [TurnIds -> Nat]]
  <2>1. used \in [Conversations -> [TurnIds -> Nat]] BY DEF Types
  <2>2. \A t \in TurnIds : used[c][t] + (IF t \in job[j].batch THEN 1 ELSE 0) \in Nat
    BY <1>1, <2>1
  <2> QED BY <1>1, <2>1, <2>2
<1>7. cursor' \in [Conversations -> TurnIds \cup {0}] BY <1>1 DEF Types, TypeOK
<1> HIDE DEF c, last
<1> QED BY <1>1, <1>2, <1>3, <1>4, <1>5, <1>6, <1>7 DEF Types, TypeOK

LEMMA TypesAreKept == ASSUME Types, JobsInv, [Next]_vars PROVE Types'
<1>1. CASE \E c \in Conversations : CallStep(c) \/ RequestStep(c) \/ DeletionStep(c)
  BY <1>1, CallKeepsTypes, RequestKeepsTypes, DeletionKeepsTypes
<1>2. CASE \E j \in Jobs : JobStep(j)
  <2>1. PICK j \in Jobs : JobStep(j) BY <1>2
  <2>2. /\ UNCHANGED <<facts, episodes, cursor, turns, phase, asks, sync, used, raced, added>>
        /\ index' \subseteq Points /\ \E r \in JobRecords : job' = [job EXCEPT ![j] = r]
    BY <2>1, JobMoves
  <2>3. job' \in [Jobs -> JobRecords] BY <2>2 DEF Types
  <2>4. \A i \in Jobs : job'[i].conv \in Conversations \cup {None} BY <2>3 DEF JobRecords
  <2> QED BY <2>2, <2>3, <2>4 DEF Types, TypeOK
<1>3. CASE \E j \in Jobs : Consolidate(j) BY <1>3, CommitKeepsTypes
<1>4. CASE UNCHANGED vars BY <1>4 DEF vars, rows, past, Types, TypeOK
<1> QED BY <1>1, <1>2, <1>3, <1>4, Steps

LEMMA JobsAreKept == ASSUME Types, JobsInv, [Next]_vars PROVE JobsInv'
<1> USE DEF rows, past, vars
<1>1. CASE \E c \in Conversations :
             CallStep(c) \/ SyncIndex(c) \/ Retrieve(c) \/ RetrieveRecords(c) \/ CompleteTurn(c)
  <2>1. UNCHANGED <<job, phase, cursor>>
    BY <1>1 DEF CallStep, RememberExplicit, Correct, Forget, SyncIndex, Retrieve,
       RetrieveRecords, CompleteTurn
  <2> QED BY <2>1 DEF JobsInv, Active
<1>2. CASE \E c \in Conversations : ScheduleConsolidation(c)
  <2>1. PICK c \in Conversations : ScheduleConsolidation(c) BY <1>2
  <2>2. UNCHANGED <<phase, cursor>> BY <2>1 DEF ScheduleConsolidation
  <2>3. CASE UNCHANGED job BY <2>2, <2>3 DEF JobsInv, Active
  <2>4. CASE ~ UNCHANGED job
    <3> DEFINE r == [Idle EXCEPT !.phase = "started", !.conv = c]
    <3>1. c \notin ActiveScopes
          /\ \E j \in Jobs : job[j].phase = "idle" /\ job' = [job EXCEPT ![j] = r]
      BY <2>1, <2>4 DEF ScheduleConsolidation
    <3>2. PICK j \in Jobs : job[j].phase = "idle" /\ job' = [job EXCEPT ![j] = r]
      BY <3>1
    <3>3. r.phase = "started" /\ r.conv = c BY DEF Idle
    <3> HIDE DEF r
    <3>4. job'[j] = r /\ \A i \in Jobs \ {j} : job'[i] = job[i]
      BY <3>2 DEF Types
    <3>5. \A i \in Jobs : Active(i) => job[i].conv # c
      BY <3>1 DEF ActiveScopes, Active
    <3> QED BY <2>2, <3>3, <3>4, <3>5 DEF JobsInv, Active
  <2> QED BY <2>3, <2>4
<1>3. CASE \E c \in Conversations : DeletionStep(c)
  <2>1. PICK c \in Conversations : DeletionStep(c) BY <1>3
  <2>2. UNCHANGED job /\ \A d \in Conversations : phase'[d] = "live" =>
          phase[d] = "live" /\ cursor'[d] = cursor[d]
    BY <2>1 DEF DeletionStep, BeginDeletion, DeleteConversationMemory, DeleteHistory,
       RetryDeletion, Types, TypeOK
  <2>3. \A j \in Jobs : job[j].phase \in {"reading", "extracting"} => job[j].conv \in Conversations
    BY DEF JobsInv, Active
  <2> QED BY <2>2, <2>3 DEF JobsInv, Active
<1>4. CASE \E j \in Jobs : JobStep(j)
  <2>1. PICK j \in Jobs : JobStep(j) BY <1>4
  <2>2. PICK r \in JobRecords : job' = [job EXCEPT ![j] = r] /\
          \/ r.phase = "idle"
          \/ /\ r.phase = "reading" /\ r.conv = job[j].conv /\ r.after = cursor[r.conv]
          \/ /\ r.phase = "extracting" /\ r.conv = job[j].conv /\ r.after = job[j].after
             /\ job[j].phase = "reading"
             /\ r.batch = r.after + 1 .. r.after + Threshold
    BY <2>1, JobMoves
  <2>3. UNCHANGED <<cursor, phase>> /\ Active(j) BY <2>1, JobMoves
  <2>4. job'[j] = r /\ \A i \in Jobs \ {j} : job'[i] = job[i]
    BY <2>2 DEF Types
  <2> QED BY <2>2, <2>3, <2>4 DEF JobsInv, Active
<1>5. CASE \E j \in Jobs : Consolidate(j)
  <2>1. PICK j \in Jobs : Consolidate(j) BY <1>5
  <2>2. PICK r \in JobRecords : r.phase = "indexing" /\ r.conv = job[j].conv
                                /\ job' = [job EXCEPT ![j] = r]
    BY <2>1, CommitOfRows
  <2>3. job[j].phase = "extracting" /\ job[j].conv \in Conversations /\ UNCHANGED phase
        /\ \E last : cursor' = [cursor EXCEPT ![job[j].conv] = last]
    BY <2>1, CommitOfTurns
  <2>4. job'[j] = r /\ \A i \in Jobs \ {j} : job'[i] = job[i]
    BY <2>2 DEF Types
  <2>5. \A i \in Jobs \ {j} : Active(i) => job[i].conv # job[j].conv
    BY <2>3 DEF JobsInv, Active
  <2>6. \A i \in Jobs \ {j} : Active(i) => cursor'[job[i].conv] = cursor[job[i].conv]
    <3>1. \A i \in Jobs \ {j} : Active(i) => job[i].conv \in Conversations BY DEF JobsInv
    <3> QED BY <2>3, <2>5, <3>1 DEF Types, TypeOK
  <2> QED BY <2>2, <2>3, <2>4, <2>5, <2>6 DEF JobsInv, Active
<1>6. CASE UNCHANGED vars BY <1>6 DEF JobsInv, Active
<1> QED BY <1>1, <1>2, <1>3, <1>4, <1>5, <1>6, Steps DEF RequestStep

LEMMA QuietIsKept == ASSUME Types, JobsInv, QuietInv, [Next]_vars PROVE QuietInv'
<1> USE DEF rows, past, vars
<1>1. CASE \E c \in Conversations : CallStep(c) \/ SyncIndex(c) \/ Retrieve(c) \/ RetrieveRecords(c)
  <2>1. UNCHANGED <<job, phase, asks, raced>>
    BY <1>1 DEF CallStep, RememberExplicit, Correct, Forget, SyncIndex, Retrieve, RetrieveRecords
  <2> QED BY <2>1 DEF QuietInv, Active
<1>2. CASE \E c \in Conversations : CompleteTurn(c)
  <2>1. PICK c \in Conversations : CompleteTurn(c) BY <1>2
  <2>2. UNCHANGED <<job, phase, raced>> /\ phase[c] = "live"
        /\ \A d \in Conversations \ {c} : asks'[d] = asks[d]
    BY <2>1 DEF CompleteTurn, Types
  <2> QED BY <2>2 DEF QuietInv, Active
<1>3. CASE \E c \in Conversations : ScheduleConsolidation(c)
  <2>1. PICK c \in Conversations : ScheduleConsolidation(c) BY <1>3
  <2>2. /\ UNCHANGED <<phase, raced>> /\ asks[c] > 0
        /\ \A d \in Conversations \ {c} : asks'[d] = asks[d]
    BY <2>1 DEF ScheduleConsolidation, Types
  <2>3. phase[c] = "live" \/ raced[c]
    BY <2>2 DEF QuietInv
  <2>4. \A i \in Jobs : job'[i].phase # "idle" => (Active(i) /\ job'[i] = job[i]) \/ job'[i].conv = c
    <3>1. CASE UNCHANGED job BY <3>1 DEF Active
    <3>2. CASE ~ UNCHANGED job
      <4> DEFINE r == [Idle EXCEPT !.phase = "started", !.conv = c]
      <4>1. PICK j \in Jobs : job' = [job EXCEPT ![j] = r]
        BY <2>1, <3>2 DEF ScheduleConsolidation
      <4>2. r.conv = c BY DEF Idle
      <4> HIDE DEF r
      <4> QED BY <4>1, <4>2 DEF Types, Active
    <3> QED BY <3>1, <3>2
  <2> QED BY <2>2, <2>3, <2>4 DEF QuietInv, Active
<1>4. CASE \E c \in Conversations : BeginDeletion(c)
  <2>1. PICK c \in Conversations : BeginDeletion(c) BY <1>4
  <2>2. /\ UNCHANGED job /\ asks'[c] = 0 /\ raced'[c] = (c \in ActiveScopes)
        /\ \A d \in Conversations \ {c} :
             asks'[d] = asks[d] /\ phase'[d] = phase[d] /\ raced'[d] = raced[d]
    BY <2>1 DEF BeginDeletion, Types, TypeOK
  <2>3. ~raced'[c] => \A j \in Jobs : Active(j) => job[j].conv # c
    BY <2>2 DEF ActiveScopes, Active
  <2> QED BY <2>2, <2>3 DEF QuietInv, Active
<1>5. CASE \E c \in Conversations :
             DeleteConversationMemory(c) \/ DeleteHistory(c) \/ RetryDeletion(c)
  <2>1. PICK c \in Conversations :
          DeleteConversationMemory(c) \/ DeleteHistory(c) \/ RetryDeletion(c)
    BY <1>5
  <2>2. /\ UNCHANGED <<job, asks, raced>> /\ phase[c] # "live"
        /\ \A d \in Conversations \ {c} : phase'[d] = phase[d]
    BY <2>1 DEF DeleteConversationMemory, DeleteHistory, RetryDeletion, Types, TypeOK
  <2> QED BY <2>2 DEF QuietInv, Active
<1>6. CASE \E j \in Jobs : JobStep(j) \/ Consolidate(j)
  <2>1. PICK j \in Jobs : JobStep(j) \/ Consolidate(j) BY <1>6
  <2>2. UNCHANGED <<phase, asks, raced>> /\ Active(j)
    BY <2>1, JobMoves, CommitOfTurns DEF Active
  <2>3. \E r \in JobRecords : /\ job' = [job EXCEPT ![j] = r]
                              /\ r.phase # "idle" => r.conv = job[j].conv
    BY <2>1, JobMoves, CommitOfRows
  <2>4. \A i \in Jobs : job'[i].phase # "idle" => Active(i) /\ job'[i].conv = job[i].conv
    BY <2>2, <2>3 DEF Types, Active
  <2> QED BY <2>2, <2>4 DEF QuietInv, Active
<1>7. CASE UNCHANGED vars BY <1>7 DEF QuietInv, Active
<1> QED BY <1>1, <1>2, <1>3, <1>4, <1>5, <1>6, <1>7, Steps DEF RequestStep, DeletionStep

-----------------------------------------------------------------------------
(* Turns, rows, deletion.                                                  *)

\* Only a commit touches the cursor or the record of a live conversation.
LEMMA LedgerStands ==
  ASSUME Types, JobsInv, [Next]_vars, ~ \E j \in Jobs : Consolidate(j)
  PROVE  /\ UNCHANGED used
         /\ \A c \in Conversations : phase'[c] = "live" =>
              phase[c] = "live" /\ cursor'[c] = cursor[c]
         /\ episodes' \subseteq episodes
<1> USE DEF rows, past, vars
<1>1. CASE \E c \in Conversations : CallStep(c) \/ RequestStep(c)
  BY <1>1 DEF CallStep, RememberExplicit, Correct, Forget, RequestStep, CompleteTurn,
     ScheduleConsolidation, SyncIndex, Retrieve, RetrieveRecords
<1>2. CASE \E c \in Conversations : DeletionStep(c)
  <2>1. PICK c \in Conversations : DeletionStep(c) BY <1>2
  <2> QED BY <2>1 DEF DeletionStep, BeginDeletion, DeleteConversationMemory, DeleteHistory,
            RetryDeletion, Types, TypeOK
<1>3. CASE \E j \in Jobs : JobStep(j)
  BY <1>3, JobMoves
<1>4. CASE UNCHANGED vars BY <1>4
<1> QED BY <1>1, <1>2, <1>3, <1>4, Steps

LEMMA TurnsAreUsedOnce ==
  ASSUME Types, JobsInv, EachTurnOnce, EpisodesAreUsed, [Next]_vars
  PROVE  EachTurnOnce' /\ EpisodesAreUsed'
<1>1. CASE ~ \E j \in Jobs : Consolidate(j)
  <2>1. \A e \in episodes : e.conv \in Conversations BY DEF Types, TypeOK, Episodes
  <2> QED BY <1>1, <2>1, LedgerStands DEF EachTurnOnce, EpisodesAreUsed
<1>2. CASE \E j \in Jobs : Consolidate(j)
  <2>1. PICK j \in Jobs : Consolidate(j) BY <1>2
  <2> DEFINE c == job[j].conv
             last == job[j].after + Threshold
  <2>2. /\ job[j].phase = "extracting" /\ c \in Conversations /\ last \in TurnIds
        /\ job[j].after \in Nat /\ job[j].batch = job[j].after + 1 .. last
        /\ cursor' = [cursor EXCEPT ![c] = last]
        /\ used' = [used EXCEPT ![c] = [t \in TurnIds |->
                      used[c][t] + IF t \in job[j].batch THEN 1 ELSE 0]]
        /\ UNCHANGED phase
    BY <2>1, CommitOfTurns
  <2>3. \A e \in episodes' \ episodes : e = [conv |-> c, turn |-> last]
    BY <2>1, CommitOfRows
  <2>4. ASSUME NEW d \in Conversations, d # c
        PROVE  used'[d] = used[d] /\ cursor'[d] = cursor[d]
    BY <2>2, <2>4 DEF Types, TypeOK
  <2>5. used'[c] = [t \in TurnIds |-> used[c][t] + IF t \in job[j].batch THEN 1 ELSE 0]
        /\ cursor'[c] = last
    BY <2>2 DEF Types, TypeOK
  <2>6. phase[c] = "live" => cursor[c] = job[j].after
    BY <2>2 DEF JobsInv
  <2>7. ASSUME phase[c] = "live", NEW t \in TurnIds
        PROVE  used'[c][t] = IF t <= last THEN 1 ELSE 0
    <3>1. used[c][t] = IF t <= cursor[c] THEN 1 ELSE 0 BY <2>2, <2>7 DEF EachTurnOnce
    <3>2. used'[c][t] = used[c][t] + IF t \in job[j].batch THEN 1 ELSE 0 BY <2>5
    <3>3. t \in Nat /\ last \in Nat BY <2>2, TurnFacts
    <3>4. Threshold \in Nat BY MemoryAssumption
    <3>5. t \in job[j].batch <=> job[j].after + 1 <= t /\ t <= last BY <2>2, <3>3
    <3> QED BY <2>2, <2>6, <2>7, <3>1, <3>2, <3>3, <3>4, <3>5
  <2>8. EachTurnOnce'
    <3> HIDE DEF c, last
    <3> QED BY <2>2, <2>4, <2>5, <2>7 DEF EachTurnOnce
  <2>9. ASSUME NEW e \in episodes', phase'[e.conv] = "live"
        PROVE  used'[e.conv][e.turn] = 1
    <3>1. CASE e \in episodes
      <4>1. e.conv \in Conversations /\ e.turn \in TurnIds
        BY <3>1 DEF Types, TypeOK, Episodes
      <4>2. used[e.conv][e.turn] = 1
        BY <2>2, <2>9, <3>1 DEF EpisodesAreUsed
      <4>3. CASE e.conv # c BY <2>4, <4>1, <4>2, <4>3
      <4>4. CASE e.conv = c
        <5>1. e.turn <= cursor[c]
          BY <2>2, <2>9, <4>1, <4>2, <4>4 DEF EachTurnOnce
        <5>2. e.turn \notin job[j].batch
          <6>1. e.turn \in Nat BY <4>1, TurnFacts
          <6> QED BY <2>2, <2>6, <2>9, <4>4, <5>1, <6>1
        <5> QED BY <2>5, <4>1, <4>2, <4>4, <5>2
      <4> QED BY <4>3, <4>4
    <3>2. CASE e \notin episodes
      <4>1. e = [conv |-> c, turn |-> last] BY <2>3, <2>9, <3>2
      <4>2. e.conv = c /\ e.turn = last BY <4>1
      <4>3. last \in Nat BY <2>2, TurnFacts
      <4> QED BY <2>2, <2>7, <2>9, <4>2, <4>3
    <3> QED BY <3>1, <3>2
  <2>10. EpisodesAreUsed' BY <2>9 DEF EpisodesAreUsed
  <2> QED BY <2>8, <2>10
<1> QED BY <1>1, <1>2

\* What a step does to the facts.
LEMMA FactSteps ==
  ASSUME Types, JobsInv, [Next]_vars
  PROVE  \/ facts' \subseteq facts
         \/ \E c \in Conversations : CallStep(c)
         \/ \E j \in Jobs : Consolidate(j)
<1> USE DEF rows, past, vars
<1>1. CASE \E c \in Conversations : RequestStep(c) \/ DeletionStep(c)
  BY <1>1 DEF RequestStep, CompleteTurn, ScheduleConsolidation, SyncIndex, Retrieve,
     RetrieveRecords, DeletionStep, BeginDeletion, DeleteConversationMemory, DeleteHistory,
     RetryDeletion
<1>2. CASE \E j \in Jobs : JobStep(j) BY <1>2, JobMoves
<1>3. CASE UNCHANGED vars BY <1>3
<1> QED BY <1>1, <1>2, <1>3, Steps

LEMMA KeysStayUnique == ASSUME Types, JobsInv, OneRowPerKey, [Next]_vars PROVE OneRowPerKey'
<1>1. CASE facts' \subseteq facts BY <1>1 DEF OneRowPerKey
<1>2. CASE \E c \in Conversations, k \in Keys : RememberExplicit(c, k)
  <2>1. PICK c \in Conversations, k \in Keys : RememberExplicit(c, k) BY <1>2
  <2>2. CASE k \notin KeysOf(facts)
    <3>1. facts' = facts \cup {NewFact(k, c)} BY <2>1, <2>2 DEF RememberExplicit
    <3>2. NewFact(k, c).key = k BY DEF NewFact
    <3>3. \A f \in facts : f.key # k BY <2>2 DEF KeysOf
    <3> QED BY <3>1, <3>2, <3>3 DEF OneRowPerKey
  <2>3. CASE k \in KeysOf(facts)
    <3>1. PICK f \in facts : facts' = (facts \ {f}) \cup {[f EXCEPT !.status = "active"]}
      BY <2>1, <2>3 DEF RememberExplicit
    <3>2. [f EXCEPT !.status = "active"].key = f.key BY DEF Types, TypeOK, Facts
    <3> QED BY <3>1, <3>2 DEF OneRowPerKey
  <2> QED BY <2>2, <2>3
<1>3. CASE \E c \in Conversations : \E f \in facts, k \in Keys : Correct(c, f, k)
  <2>1. PICK c \in Conversations, f \in facts, k \in Keys : Correct(c, f, k) BY <1>3
  <2>2. k \notin KeysOf(facts \ {f}) /\ facts' = (facts \ {f}) \cup {[f EXCEPT !.key = k]}
    BY <2>1 DEF Correct
  <2>3. [f EXCEPT !.key = k].key = k BY DEF Types, TypeOK, Facts
  <2>4. \A g \in facts \ {f} : g.key # k BY <2>2 DEF KeysOf
  <2> QED BY <2>2, <2>3, <2>4 DEF OneRowPerKey
<1>4. CASE \E c \in Conversations : \E f \in facts : Forget(c, f)
  <2>1. PICK c \in Conversations, f \in facts : Forget(c, f) BY <1>4
  <2>2. facts' = (facts \ {f}) \cup {[f EXCEPT !.status = "deleted"]} BY <2>1 DEF Forget
  <2>3. [f EXCEPT !.status = "deleted"].key = f.key BY DEF Types, TypeOK, Facts
  <2> QED BY <2>2, <2>3 DEF OneRowPerKey
<1>5. CASE \E j \in Jobs : Consolidate(j)
  <2>1. PICK j \in Jobs : Consolidate(j) BY <1>5
  <2>2. /\ \A f \in facts' \ facts : f.key \notin KeysOf(facts)
        /\ \A f, g \in facts' \ facts : f.key = g.key => f = g
    BY <2>1, CommitOfRows
  <2>3. \A f \in facts : f.key \in KeysOf(facts) BY DEF KeysOf
  <2> QED BY <2>2, <2>3 DEF OneRowPerKey
<1> QED BY <1>1, <1>2, <1>3, <1>4, <1>5, FactSteps DEF CallStep

LEMMA DeletionStaysEmpty ==
  ASSUME Types, JobsInv, QuietInv, DeletionEmpties, [Next]_vars PROVE DeletionEmpties'
<1> USE DEF rows, past, vars
<1>1. CASE \E c \in Conversations : CallStep(c)
  <2>1. PICK c \in Conversations : CallStep(c) BY <1>1
  <2>2. phase[c] = "live" /\ UNCHANGED <<episodes, cursor, phase, raced>>
    BY <2>1 DEF CallStep, RememberExplicit, Correct, Forget, Calls
  <2>3. \A g \in facts' : g.conv = c \/ \E f \in facts : g.conv = f.conv
    <3>1. \A f \in facts : /\ [f EXCEPT !.status = "active"].conv = f.conv
                          /\ [f EXCEPT !.status = "deleted"].conv = f.conv
                          /\ \A k \in Keys : [f EXCEPT !.key = k].conv = f.conv
      BY DEF Types, TypeOK, Facts
    <3>2. \A k \in Keys : NewFact(k, c).conv = c BY DEF NewFact
    <3>3. CASE \E k \in Keys : RememberExplicit(c, k)
      <4>1. \/ \E k \in Keys : facts' = facts \cup {NewFact(k, c)}
            \/ \E f \in facts : facts' = (facts \ {f}) \cup {[f EXCEPT !.status = "active"]}
        BY <3>3 DEF RememberExplicit
      <4>2. CASE \E k \in Keys : facts' = facts \cup {NewFact(k, c)}
        BY <4>2, <3>2
      <4>3. CASE \E f \in facts : facts' = (facts \ {f}) \cup {[f EXCEPT !.status = "active"]}
        <5>1. PICK f \in facts : facts' = (facts \ {f}) \cup {[f EXCEPT !.status = "active"]}
          BY <4>3
        <5> QED BY <5>1, <3>1
      <4> QED BY <4>1, <4>2, <4>3
    <3>4. CASE \E f \in facts, k \in Keys : Correct(c, f, k)
      <4>1. PICK f \in facts, k \in Keys : facts' = (facts \ {f}) \cup {[f EXCEPT !.key = k]}
        BY <3>4 DEF Correct
      <4>2. [f EXCEPT !.key = k].conv = f.conv BY <3>1
      <4> QED BY <4>1, <4>2
    <3>5. CASE \E f \in facts : Forget(c, f)
      <4>1. PICK f \in facts : facts' = (facts \ {f}) \cup {[f EXCEPT !.status = "deleted"]}
        BY <3>5 DEF Forget
      <4> QED BY <4>1, <3>1
    <3> QED BY <2>1, <3>3, <3>4, <3>5 DEF CallStep
  <2> QED BY <2>2, <2>3 DEF DeletionEmpties
<1>2. CASE \E c \in Conversations : RequestStep(c)
  <2>1. UNCHANGED <<facts, episodes, cursor, phase, raced>>
    BY <1>2 DEF RequestStep, CompleteTurn, ScheduleConsolidation, SyncIndex, Retrieve,
       RetrieveRecords
  <2> QED BY <2>1 DEF DeletionEmpties
<1>3. CASE \E c \in Conversations : DeletionStep(c)
  <2>1. PICK c \in Conversations : DeletionStep(c) BY <1>3
  <2>2. CASE DeleteConversationMemory(c)
    <3>1. /\ facts' = facts \ {f \in facts : f.conv = c}
          /\ episodes' = episodes \ {e \in episodes : e.conv = c}
          /\ cursor'[c] = 0 /\ UNCHANGED raced
          /\ \A d \in Conversations \ {c} : phase'[d] = phase[d] /\ cursor'[d] = cursor[d]
      BY <2>2 DEF DeleteConversationMemory, Types, TypeOK
    <3> QED BY <3>1 DEF DeletionEmpties
  <2>3. CASE BeginDeletion(c) \/ DeleteHistory(c) \/ RetryDeletion(c)
    <3>1. /\ UNCHANGED <<facts, episodes, cursor>>
          /\ phase'[c] = "gone" => phase[c] = "emptied" /\ raced'[c] = raced[c]
          /\ phase'[c] # "emptied"
          /\ \A d \in Conversations \ {c} : phase'[d] = phase[d] /\ raced'[d] = raced[d]
      BY <2>3 DEF BeginDeletion, DeleteHistory, RetryDeletion, Types, TypeOK
    <3> QED BY <3>1 DEF DeletionEmpties
  <2> QED BY <2>1, <2>2, <2>3 DEF DeletionStep
<1>4. CASE \E j \in Jobs : JobStep(j)
  <2>1. UNCHANGED <<facts, episodes, cursor, phase, raced>> BY <1>4, JobMoves
  <2> QED BY <2>1 DEF DeletionEmpties
<1>5. CASE \E j \in Jobs : Consolidate(j)
  <2>1. PICK j \in Jobs : Consolidate(j) BY <1>5
  <2>2. /\ job[j].phase = "extracting" /\ job[j].conv \in Conversations
        /\ UNCHANGED <<phase, raced>>
        /\ \A d \in Conversations : d # job[j].conv => cursor'[d] = cursor[d]
    BY <2>1, CommitOfTurns DEF Types, TypeOK
  <2>3. phase[job[j].conv] = "live" \/ raced[job[j].conv]
    BY <2>2 DEF QuietInv, Active
  <2>4. /\ \A f \in facts' \ facts : f.conv = job[j].conv
        /\ \A e \in episodes' \ episodes : e.conv = job[j].conv
    BY <2>1, CommitOfRows
  <2> QED BY <2>2, <2>3, <2>4 DEF DeletionEmpties
<1>6. CASE UNCHANGED vars BY <1>6 DEF DeletionEmpties
<1> QED BY <1>1, <1>2, <1>3, <1>4, <1>5, <1>6, Steps

LEMMA Starts == Init => MInv
<1> SUFFICES ASSUME Init PROVE MInv
  OBVIOUS
<1>1. Types
  <2>1. \A c \in Conversations : 0 <= MaxTurns[c] BY MemoryAssumption
  <2>2. 0 \in 0..MaxFacts BY MemoryAssumption
  <2> QED BY <2>1, <2>2, IdleIsRecord DEF Init, Types, TypeOK, NoSync, Idle
<1>2. JobsInv /\ QuietInv
  BY IdleIsRecord DEF Init, JobsInv, QuietInv, Active
<1>3. EachTurnOnce
  BY TurnFacts DEF Init, EachTurnOnce
<1> QED BY <1>1, <1>2, <1>3 DEF Init, MInv, EpisodesAreUsed, OneRowPerKey, DeletionEmpties

LEMMA IsKept == MInv /\ [Next]_vars => MInv'
BY TypesAreKept, JobsAreKept, QuietIsKept, TurnsAreUsedOnce, KeysStayUnique, DeletionStaysEmpty
DEF MInv

(* Every turn up to the cursor of a live conversation was in exactly one    *)
(* committed batch and none after it; a user has one row per fact; a        *)
(* deletion that no consolidation was under way for leaves nothing.         *)
THEOREM MemoryHolds == Spec => []MemoryInv
<1>1. Spec => []MInv
  BY Starts, IsKept, PTL DEF Spec
<1>2. MInv => MemoryInv
  BY DEF MInv, Types, MemoryInv
<1> QED BY <1>1, <1>2, PTL

-----------------------------------------------------------------------------
(* Forgetting.                                                             *)

\* The step of ForgottenStaysForgotten.
Forgotten ==
  /\ \A f \in facts : f.status = "deleted" =>
       \/ \A g \in facts' : g.key = f.key => g.status = "deleted"
       \/ \E c \in Conversations : RememberExplicit(c, f.key)
  /\ \A f \in shown'.facts : f \in facts /\ f.status = "active"
  /\ shown'.episodes \subseteq episodes

LEMMA TombstonesStand ==
  ASSUME MInv, Next, NEW f \in facts, f.status = "deleted"
  PROVE  \/ \A g \in facts' : g.key = f.key => g.status = "deleted"
         \/ \E c \in Conversations : RememberExplicit(c, f.key)
<1>0. Types /\ JobsInv /\ \A g \in facts : g.key = f.key => g = f
  BY DEF MInv, OneRowPerKey
<1>1. CASE facts' \subseteq facts BY <1>0, <1>1
<1>2. CASE \E c \in Conversations : \E k \in Keys : RememberExplicit(c, k)
  <2>1. PICK c \in Conversations, k \in Keys : RememberExplicit(c, k) BY <1>2
  <2>2. CASE k = f.key BY <2>1, <2>2
  <2>3. CASE k # f.key
    <3>1. \A g \in facts' : g \in facts \/ g.key = k
      <4>1. NewFact(k, c).key = k BY DEF NewFact
      <4>2. \A h \in facts : [h EXCEPT !.status = "active"].key = h.key
        BY <1>0 DEF Types, TypeOK, Facts
      <4> QED BY <2>1, <4>1, <4>2 DEF RememberExplicit
    <3> QED BY <1>0, <2>3, <3>1
  <2> QED BY <2>2, <2>3
<1>3. CASE \E c \in Conversations : \E h \in facts, k \in Keys : Correct(c, h, k)
  <2>1. PICK c \in Conversations, h \in facts, k \in Keys : Correct(c, h, k) BY <1>3
  <2>2. h.status = "active" /\ k \notin KeysOf(facts \ {h})
        /\ facts' = (facts \ {h}) \cup {[h EXCEPT !.key = k]}
    BY <2>1 DEF Correct
  <2>3. [h EXCEPT !.key = k].key = k BY <1>0 DEF Types, TypeOK, Facts
  <2>4. f.key # k BY <2>2 DEF KeysOf
  <2> QED BY <1>0, <2>2, <2>3, <2>4
<1>4. CASE \E c \in Conversations : \E h \in facts : Forget(c, h)
  <2>1. PICK c \in Conversations, h \in facts : Forget(c, h) BY <1>4
  <2>2. facts' = (facts \ {h}) \cup {[h EXCEPT !.status = "deleted"]} BY <2>1 DEF Forget
  <2>3. [h EXCEPT !.status = "deleted"].status = "deleted"
    BY <1>0 DEF Types, TypeOK, Facts
  <2> QED BY <1>0, <2>2, <2>3
<1>5. CASE \E j \in Jobs : Consolidate(j)
  <2>1. PICK j \in Jobs : Consolidate(j) BY <1>5
  <2>2. \A g \in facts' \ facts : g.key \notin KeysOf(facts)
    BY <1>0, <2>1, CommitOfRows
  <2>3. f.key \in KeysOf(facts) BY DEF KeysOf
  <2> QED BY <1>0, <2>2, <2>3
<1> QED BY <1>0, <1>1, <1>2, <1>3, <1>4, <1>5, FactSteps DEF CallStep

LEMMA ForgottenInStep == MInv /\ [Next]_vars => [Forgotten]_vars
<1> SUFFICES ASSUME MInv, Next PROVE Forgotten
  OBVIOUS
<1>1. \/ \E c \in Conversations : RetrieveRecords(c)
      \/ shown' = NoRows
  BY DEF Next
<1>2. /\ \A f \in shown'.facts : f \in facts /\ f.status = "active"
      /\ shown'.episodes \subseteq episodes
  <2>1. CASE shown' = NoRows BY <2>1 DEF NoRows
  <2>2. CASE \E c \in Conversations : RetrieveRecords(c)
    BY <2>2 DEF RetrieveRecords, ActiveByIds, EpisodesByIds
  <2> QED BY <1>1, <2>1, <2>2
<1> QED BY <1>2, TombstonesStand DEF Forgotten

(* A forgotten fact comes back only when the user has it saved again, and   *)
(* no prompt shows a row that is not there, or is forgotten, however far    *)
(* the index is behind.                                                     *)
THEOREM ForgottenForGood == Spec => ForgottenStaysForgotten
<1>1. Spec => []MInv
  BY Starts, IsKept, PTL DEF Spec
<1> QED BY <1>1, ForgottenInStep, PTL DEF Spec, ForgottenStaysForgotten, Forgotten
=============================================================================
