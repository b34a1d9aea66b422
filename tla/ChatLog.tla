------------------------------ MODULE ChatLog ------------------------------
(***************************************************************************)
(* The MySQL side of the agent history (app/history/chat_log.py): the row  *)
(* of each conversation and of each run, and one operator per transaction  *)
(* that writes them.  AgentHistoryStore.run executes every operation in a  *)
(* worker thread as one transaction that locks the rows it reads, so each  *)
(* transaction is one atomic step.  For a transaction Tx, TxAllowed says   *)
(* when it commits; otherwise it raises and rolls back.                    *)
(*                                                                         *)
(* Messages are abstracted to the number of terminal messages of a run     *)
(* (the answers a client is shown as the end of the run); texts, users and *)
(* timestamps are left out.  An action is the number of the confirmation   *)
(* it asks for: action a of a run is the a-th confirmation of that run.    *)
(***************************************************************************)
EXTENDS Naturals

CONSTANTS
  Conversations,  \* the conversations the main service has created
  Runs,           \* the run ids clients use
  ConvOf,         \* the conversation a client sends a run id with
  MaxAction       \* bound: confirmations one run may ask for

ASSUME ChatLogAssumption ==
  /\ ConvOf \in [Runs -> Conversations]
  /\ MaxAction \in Nat

VARIABLES
  conversation,   \* [Conversations -> ConversationStatus]
  run             \* [Runs -> RunRow]

Actions == 1..MaxAction

\* GONE: the row has been deleted.
ConversationStatus == {"ACTIVE", "DELETED", "GONE"}

\* ABSENT: there is no row for the run id.
ActiveRunStatuses == {"PENDING", "RUNNING", "WAITING_INPUT"}
TerminalRunStatuses == {"SUCCEEDED", "FAILED", "CANCELLED"}
RunStatus == {"ABSENT"} \cup ActiveRunStatuses \cup TerminalRunStatuses

RunRow == [ status    : RunStatus,
            pending   : 0..MaxAction,    \* action in pending_interrupt_payload, 0: none
            approvals : SUBSET Actions,  \* actions in approval_history
            sequence  : Nat,             \* terminal_event_sequence, 0: none
            answers   : Nat ]            \* terminal messages added

NoRow == [ status |-> "ABSENT", pending |-> 0, approvals |-> {},
           sequence |-> 0, answers |-> 0 ]

Siblings(c) == {r \in Runs : ConvOf[r] = c}
Exists(r)   == run[r].status # "ABSENT"
Active(r)   == run[r].status \in ActiveRunStatuses

-----------------------------------------------------------------------------
\* What a completed graph stream makes of a run: _run_status.
StatusOf(outcome) == IF outcome = "completed" THEN "SUCCEEDED" ELSE "FAILED"

\* Mutants of StartTurnAllowed: a run that waits for its user does not count;
\* the conversation's status, or its other runs, are not looked at.
StartTurnAllowed_IfNoneRuns(r) ==
  /\ conversation[ConvOf[r]] = "ACTIVE"
  /\ ~Exists(r)
  /\ \A s \in Siblings(ConvOf[r]) : run[s].status # "RUNNING"

StartTurnAllowed_AnyStatus(r) ==
  /\ conversation[ConvOf[r]] # "GONE"
  /\ ~Exists(r)
  /\ \A s \in Siblings(ConvOf[r]) : ~Active(s)

StartTurnAllowed_NewId(r) ==
  /\ conversation[ConvOf[r]] = "ACTIVE"
  /\ ~Exists(r)

\* start_turn: the conversation runs, the id is new, no sibling is unfinished.
StartTurnAllowed(r) ==
  /\ conversation[ConvOf[r]] = "ACTIVE"
  /\ ~Exists(r)
  /\ \A s \in Siblings(ConvOf[r]) : ~Active(s)

StartTurn(r) ==
  /\ StartTurnAllowed(r)
  /\ run' = [run EXCEPT ![r] = [NoRow EXCEPT !.status = "RUNNING"]]
  /\ UNCHANGED conversation

\* Mutant of CompleteRun: a missing row is inserted.
CompleteRun_Upsert(r, outcome, action) ==
  /\ run' = [run EXCEPT ![r].status = StatusOf(outcome)]
  /\ UNCHANGED conversation

\* complete_run looks at no status: whoever calls it decides the run's fate.
CompleteRun(r, outcome, action) ==
  /\ Exists(r)
  /\ \/ /\ outcome = "confirmation_required"
        /\ run' = [run EXCEPT ![r].status = "WAITING_INPUT", ![r].pending = action]
     \/ /\ outcome # "confirmation_required"
        /\ run' = [run EXCEPT ![r].status = StatusOf(outcome), ![r].pending = 0,
                              ![r].answers = @ + 1]
  /\ UNCHANGED conversation

\* Mutant of ClaimAllowed: a repeated approval is granted again.
ClaimAllowed_Again(r, action) ==
  /\ Exists(r)
  /\ action \in {run[r].pending} \cup run[r].approvals
  /\ run[r].status \in {"WAITING_INPUT", "RUNNING"}

\* claim_pending_action returns True: the approval is taken and the run goes on.
\* In every other case it returns False or raises, and changes nothing.
ClaimAllowed(r, action) ==
  /\ Exists(r)
  /\ run[r].pending = action
  /\ run[r].status = "WAITING_INPUT"

\* Mutant of ClaimPendingAction: the old terminal event sequence is kept.
ClaimPendingAction_KeepsSequence(r, action) ==
  /\ ClaimAllowed(r, action)
  /\ run' = [run EXCEPT ![r].status = "RUNNING", ![r].pending = 0,
                        ![r].approvals = @ \cup {action}]
  /\ UNCHANGED conversation

ClaimPendingAction(r, action) ==
  /\ ClaimAllowed(r, action)
  /\ run' = [run EXCEPT ![r].status = "RUNNING", ![r].pending = 0,
                        ![r].approvals = @ \cup {action}, ![r].sequence = 0]
  /\ UNCHANGED conversation

\* record_terminal_event_sequence: no status check either.
RecordTerminalEventSequence(r, sequence) ==
  /\ Exists(r)
  /\ run' = [run EXCEPT ![r].sequence = sequence]
  /\ UNCHANGED conversation

\* Mutant of MarkInterrupted: it overwrites finished runs.
MarkInterrupted_Always(r) ==
  /\ Exists(r)
  /\ run' = [run EXCEPT ![r].status = "FAILED", ![r].answers = @ + 1]
  /\ UNCHANGED conversation

\* mark_interrupted: a finished run stays as it is.
MarkInterrupted(r) ==
  /\ Exists(r)
  /\ run' = IF run[r].status \in TerminalRunStatuses
            THEN run
            ELSE [run EXCEPT ![r].status = "FAILED", ![r].answers = @ + 1]
  /\ UNCHANGED conversation

BeginConversationDeletion(c) ==
  /\ conversation[c] # "GONE"
  /\ conversation' = [conversation EXCEPT ![c] = "DELETED"]
  /\ UNCHANGED run

DeleteConversation(c) ==
  /\ conversation[c] # "GONE"
  /\ conversation' = [conversation EXCEPT ![c] = "GONE"]
  /\ run' = [r \in Runs |-> IF ConvOf[r] = c THEN NoRow ELSE run[r]]

=============================================================================
