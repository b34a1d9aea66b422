-------------------------- MODULE MemoryConsolidation --------------------------
(***************************************************************************)
(* A user's long-term memory (app/memory, app/llm/tools/memory_tools and   *)
(* the consolidation half of app/runtime/agent_runtime.py): fact and       *)
(* episode rows in the database, a search index that follows them, and a   *)
(* cursor per conversation that says which turns were consolidated.        *)
(*                                                                         *)
(* Everything runs on one event loop: the code between two awaits is one   *)
(* step.  A consolidation awaits the list of turns, then the model that    *)
(* extracts candidates from them, then the index; a run of the            *)
(* conversation saves, corrects and forgets facts meanwhile, and           *)
(* awaits the index after each.                                            *)
(***************************************************************************)
EXTENDS Integers, FiniteSets, FiniteSetsExt

CONSTANTS
  Conversations,  \* of one user
  Keys,           \* what a fact says: its dedupe_key
  Jobs,           \* consolidation tasks
  Threshold,      \* threshold_turns, 6
  MaxTurns,       \* bound: completed turns of each conversation
  MaxFacts,       \* bound: fact rows ever added
  MaxCalls,       \* bound: memory tool calls and retrievals
  None            \* no conversation, no row

ASSUME MemoryAssumption ==
  /\ Threshold \in Nat \ {0}
  /\ {MaxFacts, MaxCalls} \subseteq Nat /\ IsFiniteSet(Keys)
  /\ MaxTurns \in [Conversations -> Nat]
  /\ None \notin Conversations

VARIABLES
  facts,     \* memory_facts
  episodes,  \* memory_episodes
  cursor,    \* memory_consolidation_cursors: the last turn used, 0: no row
  turns,     \* completed turns of a conversation's history
  phase,     \* of a conversation: "live", "deleting", "gone"
  asks,      \* completed runs that have yet to ask for a consolidation
  job,       \* the consolidation tasks
  index,     \* the points the search index holds
  sync,      \* the index update a conversation's tool or deletion awaits
  asked,     \* what a conversation's retrieval got from the index
  shown,     \* history: the rows the last step put into a prompt
  used,      \* history: how often a committed batch held a turn
  raced,     \* history: a consolidation was under way when deletion began
  added,     \* history: the facts added so far
  calls      \* history: the calls made so far

rows == <<facts, episodes, cursor>>
past == <<used, raced>>
vars == <<rows, turns, phase, asks, job, index, sync, asked, shown, past, added, calls>>

FactPoint(id)    == <<"fact", id>>
EpisodePoint(e)  == <<"episode", e.conv, e.turn>>
FactPoints       == {FactPoint(i) : i \in 1..MaxFacts}
TurnIds          == UNION {1..MaxTurns[c] : c \in Conversations}
Episodes         == [conv : Conversations, turn : TurnIds]
Points           == FactPoints \cup {EpisodePoint(e) : e \in Episodes}
Facts == [id : 1..MaxFacts, key : Keys, status : {"active", "deleted"},
          conv : Conversations]

NoRows == [facts |-> {}, episodes |-> {}]
NoSync == [op |-> "none", points |-> {}]
Idle   == [phase |-> "idle", conv |-> None, after |-> 0, batch |-> {},
           seen |-> {}, points |-> {}]

\* Rows may have any status; an equivalent one stands in the way.
KeysOf(fs) == {f.key : f \in fs}
NewFact(k, c) == [id |-> added + 1, key |-> k, status |-> "active", conv |-> c]

ActiveScopes == {job[j].conv : j \in {i \in Jobs : job[i].phase # "idle"}}

-----------------------------------------------------------------------------
(* Runs of a conversation and what they ask of memory.                     *)

\* A run completes; its task asks for a consolidation later.
CompleteTurn(c) ==
  /\ phase[c] = "live" /\ turns[c] < MaxTurns[c]
  /\ turns' = [turns EXCEPT ![c] = @ + 1]
  /\ asks' = [asks EXCEPT ![c] = @ + 1]
  /\ UNCHANGED <<rows, phase, job, index, sync, asked, past, added, calls>>

\* Mutant of ScheduleConsolidation: every request starts a task.
ScheduleConsolidation_Always(c) ==
  /\ asks[c] > 0
  /\ asks' = [asks EXCEPT ![c] = @ - 1]
  /\ \E j \in Jobs :
       /\ job[j].phase = "idle"
       /\ job' = [job EXCEPT ![j] = [Idle EXCEPT !.phase = "started", !.conv = c]]
  /\ UNCHANGED <<rows, turns, phase, index, sync, asked, past, added, calls>>

\* A request for a conversation whose consolidation is under way is dropped.
ScheduleConsolidation(c) ==
  /\ asks[c] > 0
  /\ asks' = [asks EXCEPT ![c] = @ - 1]
  /\ IF c \in ActiveScopes THEN UNCHANGED job
     ELSE \E j \in Jobs :
            /\ job[j].phase = "idle"
            /\ job' = [job EXCEPT ![j] = [Idle EXCEPT !.phase = "started", !.conv = c]]
  /\ UNCHANGED <<rows, turns, phase, index, sync, asked, past, added, calls>>

Calls(c) ==
  /\ phase[c] = "live" /\ sync[c] = NoSync /\ asked[c] = None
  /\ calls < MaxCalls
  /\ calls' = calls + 1

\* save_note and FactService.remember_explicit
RememberExplicit(c, k) ==
  /\ Calls(c)
  /\ IF k \notin KeysOf(facts)
       THEN /\ added < MaxFacts
            /\ facts' = facts \cup {NewFact(k, c)}
            /\ added' = added + 1
            /\ sync' = [sync EXCEPT ![c] = [op |-> "upsert", points |-> {FactPoint(added')}]]
       ELSE \E f \in facts :
              /\ f.key = k
              /\ facts' = (facts \ {f}) \cup {[f EXCEPT !.status = "active"]}
              /\ sync' = [sync EXCEPT ![c] =
                   IF f.status = "active" THEN NoSync
                   ELSE [op |-> "upsert", points |-> {FactPoint(f.id)}]]
              /\ UNCHANGED added
  /\ UNCHANGED <<episodes, cursor, turns, phase, asks, job, index, asked, past>>

\* manage_memory "update" and FactService.correct
Correct(c, f, k) ==
  /\ Calls(c)
  /\ f.status = "active"
  /\ k \notin KeysOf(facts \ {f})
  /\ facts' = (facts \ {f}) \cup {[f EXCEPT !.key = k]}
  /\ sync' = [sync EXCEPT ![c] = [op |-> "upsert", points |-> {FactPoint(f.id)}]]
  /\ UNCHANGED <<episodes, cursor, turns, phase, asks, job, index, asked, past, added>>

\* manage_memory "delete" and FactService.forget: the row stays as a tombstone.
Forget(c, f) ==
  /\ Calls(c)
  /\ f.status = "active"
  /\ facts' = (facts \ {f}) \cup {[f EXCEPT !.status = "deleted"]}
  /\ sync' = [sync EXCEPT ![c] = [op |-> "delete", points |-> {FactPoint(f.id)}]]
  /\ UNCHANGED <<episodes, cursor, turns, phase, asks, job, index, asked, past, added>>

\* MemoryIndexSynchronizer._sync: an error of the index is only logged.
Apply(op, points) ==
  IF op = "upsert" THEN index \cup points ELSE index \ points

SyncIndex(c) ==
  /\ sync[c] # NoSync
  /\ index' \in {index, Apply(sync[c].op, sync[c].points)}
  /\ sync' = [sync EXCEPT ![c] = NoSync]
  /\ UNCHANGED <<rows, turns, phase, asks, job, asked, past, added, calls>>

-----------------------------------------------------------------------------
(* Retrieval, at the start of a run.                                       *)

\* The index answers with some of the user's facts and the conversation's
\* episodes.
Retrieve(c) ==
  /\ Calls(c)
  /\ \E found \in SUBSET {p \in index : p[1] = "episode" => p[2] = c} :
       asked' = [asked EXCEPT ![c] = found]
  /\ UNCHANGED <<rows, turns, phase, asks, job, index, sync, past, added>>

\* Mutant of ActiveByIds: what the index finds is shown.
ActiveByIds_Any(points) == {f \in facts : FactPoint(f.id) \in points}

ActiveByIds(points) == {f \in facts : FactPoint(f.id) \in points /\ f.status = "active"}
EpisodesByIds(points, c) == {e \in episodes : EpisodePoint(e) \in points /\ e.conv = c}

\* Rows of the answer, or those of the database when the index failed.
RetrieveRecords(c) ==
  /\ asked[c] # None
  /\ \E points \in {asked[c], FactPoints \cup {EpisodePoint(e) : e \in Episodes}} :
       shown' = [facts |-> ActiveByIds(points), episodes |-> EpisodesByIds(points, c)]
  /\ asked' = [asked EXCEPT ![c] = None]
  /\ UNCHANGED <<rows, turns, phase, asks, job, index, sync, past, added, calls>>

-----------------------------------------------------------------------------
(* Consolidation.                                                          *)

Moves(j, from, record) ==
  job[j].phase = from /\ job' = [job EXCEPT ![j] = record]

\* The first thing a task reads is its cursor; a database that keeps
\* snapshots goes on seeing the rows of this moment.
GetCursor(j) ==
  /\ Moves(j, "started", [job[j] EXCEPT !.phase = "reading",
                            !.after = cursor[job[j].conv], !.seen = KeysOf(facts)])
  /\ UNCHANGED <<rows, turns, phase, asks, index, sync, asked, past, added, calls>>

\* The first Threshold turns after the cursor; fewer are not due.
TurnsAfter(c, last) == {t \in last + 1 .. turns[c] : t <= last + Threshold}

ListCompletedTurns(j) ==
  LET batch == TurnsAfter(job[j].conv, job[j].after) IN
  /\ Moves(j, "reading",
       IF Cardinality(batch) < Threshold THEN Idle
       ELSE [job[j] EXCEPT !.phase = "extracting", !.batch = batch])
  /\ UNCHANGED <<rows, turns, phase, asks, index, sync, asked, past, added, calls>>

\* An error of a store, of the model or of the commit leaves every row alone.
ConsolidationFails(j) ==
  /\ job[j].phase \in {"started", "reading", "extracting"}
  /\ job' = [job EXCEPT ![j] = Idle]
  /\ UNCHANGED <<rows, turns, phase, asks, index, sync, asked, past, added, calls>>

\* A candidate is staged unless a row with its key is seen, whatever its
\* status; the unique constraint refuses one whose row is not seen.
Staged(j, candidates, view) == candidates \ view

AdvanceCursor(j) == Max(job[j].batch)

\* The candidates, the episode and the cursor are committed as one.
Consolidate(j) ==
  LET c == job[j].conv IN
  /\ job[j].phase = "extracting"
  /\ \E candidates \in SUBSET Keys, view \in {KeysOf(facts), job[j].seen},
        noted \in BOOLEAN :
       LET new  == Staged(j, candidates, view)
           ids  == added + 1 .. added + Cardinality(new)
           last == Max(job[j].batch)
           ep   == IF noted /\ [conv |-> c, turn |-> last] \notin episodes
                     THEN {[conv |-> c, turn |-> last]} ELSE {}
       IN /\ new \cap KeysOf(facts) = {}
          /\ added + Cardinality(new) <= MaxFacts
          /\ added' = added + Cardinality(new)
          /\ \E rowOf \in [ids -> new] :
               /\ {rowOf[i] : i \in ids} = new
               /\ facts' = facts \cup {[id |-> i, key |-> rowOf[i], status |-> "active",
                                        conv |-> c] : i \in ids}
          /\ episodes' = episodes \cup ep
          /\ Moves(j, "extracting", [job[j] EXCEPT !.phase = "indexing",
                !.points = {FactPoint(i) : i \in ids} \cup {EpisodePoint(e) : e \in ep}])
  /\ cursor' = [cursor EXCEPT ![c] = AdvanceCursor(j)]
  /\ used' = [used EXCEPT ![c] = [t \in TurnIds |->
                used[c][t] + IF t \in job[j].batch THEN 1 ELSE 0]]
  /\ UNCHANGED <<turns, phase, asks, index, sync, asked, raced, calls>>

\* Each of the two upserts, facts and episodes, may fail on its own.
UpsertMemories(j) ==
  /\ Moves(j, "indexing", Idle)
  /\ \E kinds \in SUBSET {"fact", "episode"} :
       index' = Apply("upsert", {p \in job[j].points : p[1] \in kinds})
  /\ UNCHANGED <<rows, turns, phase, asks, sync, asked, past, added, calls>>

-----------------------------------------------------------------------------
(* Deletion of a conversation: its runs are cancelled, its consolidation   *)
(* is not.                                                                 *)

BeginDeletion(c) ==
  /\ phase[c] = "live"
  /\ phase' = [phase EXCEPT ![c] = "deleting"]
  /\ asks' = [asks EXCEPT ![c] = 0]
  /\ index' \in {index, Apply(sync[c].op, sync[c].points)}
  /\ sync' = [sync EXCEPT ![c] = NoSync]
  /\ asked' = [asked EXCEPT ![c] = None]
  /\ raced' = [raced EXCEPT ![c] = c \in ActiveScopes]
  /\ UNCHANGED <<rows, turns, job, used, added, calls>>

DeleteConversationMemory(c) ==
  LET mine  == {f \in facts : f.conv = c}
      notes == {e \in episodes : e.conv = c}
  IN /\ phase[c] = "deleting" /\ sync[c] = NoSync
     /\ facts' = facts \ mine
     /\ episodes' = episodes \ notes
     /\ cursor' = [cursor EXCEPT ![c] = 0]
     /\ phase' = [phase EXCEPT ![c] = "emptied"]
     /\ sync' = [sync EXCEPT ![c] = [op |-> "delete", points |->
          {FactPoint(f.id) : f \in mine} \cup {EpisodePoint(e) : e \in notes}]]
     /\ UNCHANGED <<turns, asks, job, index, asked, past, added, calls>>

\* The later stages: the event log and the history.
DeleteHistory(c) ==
  /\ phase[c] = "emptied" /\ sync[c] = NoSync
  /\ phase' = [phase EXCEPT ![c] = "gone"]
  /\ turns' = [turns EXCEPT ![c] = 0]
  /\ UNCHANGED <<rows, asks, job, index, sync, asked, past, added, calls>>

\* One of them failed: the client deletes again, from the first stage.
RetryDeletion(c) ==
  /\ phase[c] = "emptied" /\ sync[c] = NoSync
  /\ phase' = [phase EXCEPT ![c] = "deleting"]
  /\ UNCHANGED <<rows, turns, asks, job, index, sync, asked, past, added, calls>>

-----------------------------------------------------------------------------
Init ==
  /\ facts = {} /\ episodes = {} /\ index = {} /\ added = 0
  /\ cursor = [c \in Conversations |-> 0]
  /\ turns = [c \in Conversations |-> 0]
  /\ phase = [c \in Conversations |-> "live"]
  /\ asks = [c \in Conversations |-> 0]
  /\ job = [j \in Jobs |-> Idle]
  /\ sync = [c \in Conversations |-> NoSync]
  /\ asked = [c \in Conversations |-> None]
  /\ shown = NoRows
  /\ used = [c \in Conversations |-> [t \in TurnIds |-> 0]]
  /\ raced = [c \in Conversations |-> FALSE]
  /\ calls = 0

Next ==
  \/ \E c \in Conversations : RetrieveRecords(c)
  \/ shown' = NoRows /\ \E c \in Conversations :
       \/ CompleteTurn(c) \/ ScheduleConsolidation(c) \/ SyncIndex(c)
       \/ \E k \in Keys : RememberExplicit(c, k)
       \/ \E f \in facts, k \in Keys : Correct(c, f, k)
       \/ \E f \in facts : Forget(c, f)
       \/ Retrieve(c)
       \/ BeginDeletion(c) \/ DeleteConversationMemory(c)
       \/ DeleteHistory(c) \/ RetryDeletion(c)
  \/ shown' = NoRows /\ \E j \in Jobs :
       \/ GetCursor(j) \/ ListCompletedTurns(j) \/ ConsolidationFails(j)
       \/ Consolidate(j) \/ UpsertMemories(j)

Spec == Init /\ [][Next]_vars

-----------------------------------------------------------------------------
TypeOK ==
  /\ facts \subseteq Facts /\ episodes \subseteq Episodes
  /\ cursor \in [Conversations -> TurnIds \cup {0}]
  /\ turns \in [Conversations -> TurnIds \cup {0}]
  /\ phase \in [Conversations -> {"live", "deleting", "emptied", "gone"}]
  /\ index \subseteq Points
  /\ \A j \in Jobs : job[j].conv \in Conversations \cup {None}

\* Every turn up to the cursor was handed to the model in exactly one committed
\* batch, and none after it: requests dropped while a consolidation runs,
\* failures and restarts neither skip a turn nor use it twice.
EachTurnOnce ==
  \A c \in Conversations : phase[c] = "live" =>
    \A t \in TurnIds : used[c][t] = IF t <= cursor[c] THEN 1 ELSE 0

\* The facts and the episode of a batch come with its cursor: an episode stands
\* for a batch whose turns are used.
EpisodesAreUsed ==
  \A e \in episodes : phase[e.conv] = "live" => used[e.conv][e.turn] = 1

\* One row per user and key, forgotten ones included.
OneRowPerKey == \A f, g \in facts : f.key = g.key => f = g

\* Deletion of a conversation leaves no fact, episode or cursor of it, unless a
\* consolidation was under way when it began.
DeletionEmpties ==
  \A c \in Conversations : phase[c] \in {"emptied", "gone"} /\ ~raced[c] =>
    /\ cursor[c] = 0
    /\ \A f \in facts : f.conv # c
    /\ \A e \in episodes : e.conv # c

\* What a consolidation and a deletion in an unlucky order do to the memory
\* rows of the same conversation, all at once.
MemoryInv == TypeOK /\ EachTurnOnce /\ EpisodesAreUsed /\ OneRowPerKey /\ DeletionEmpties

\* A forgotten fact comes back only when the user has it saved again: no
\* consolidation revives or repeats it while its row stands, nor does a prompt
\* show it, however far the index is behind.
ForgottenStaysForgotten ==
  [][/\ \A f \in facts : f.status = "deleted" =>
          \/ \A g \in facts' : g.key = f.key => g.status = "deleted"
          \/ \E c \in Conversations : RememberExplicit(c, f.key)
     /\ \A f \in shown'.facts : f \in facts /\ f.status = "active"
     /\ shown'.episodes \subseteq episodes]_vars
=============================================================================
