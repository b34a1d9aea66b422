---------------------------- MODULE ToolHistory ----------------------------
(***************************************************************************)
(* The tool messages of a conversation in the MySQL history                *)
(* (app/history/chat_log.py): for every batch of tool calls one assistant  *)
(* message that names the calls and one user message that collects their   *)
(* results, STREAMING until the last one has arrived.  Each operator is a  *)
(* transaction, atomic as in ChatLog.                                      *)
(*                                                                         *)
(* A call is a number, a batch the number of a model answer that asked for *)
(* calls.  Tool call ids are taken to be unique in a conversation, as the  *)
(* model providers promise; a batch is always published with the same      *)
(* manifest, so that the manifest is left out.                             *)
(***************************************************************************)
EXTENDS Naturals

CONSTANT MaxCalls   \* bound: tool calls asked for in one conversation

ASSUME ToolHistoryAssumption == MaxCalls \in Nat

VARIABLES
  callRows,     \* batches whose tool_calls message exists
  resultRows    \* [Batches -> ResultRow]

historyVars == <<callRows, resultRows>>

Calls == 1..MaxCalls
Batches == 1..MaxCalls

ActionStatus == {"success", "partial", "error", "rejected"}
ToolResults == [call : Calls, status : ActionStatus]

\* ABSENT: there is no tool_results message for the batch.
ResultRow == [ status  : {"ABSENT", "STREAMING", "COMPLETED", "FAILED"},
               results : SUBSET ToolResults ]

CallsIn(results) == {result.call : result \in results}

-----------------------------------------------------------------------------
HistoryInit ==
  /\ callRows = {}
  /\ resultRows = [b \in Batches |-> [status |-> "ABSENT", results |-> {}]]

\* append_tool_batch: a repeated announcement finds its own message.
AppendToolBatch(b) ==
  /\ callRows' = callRows \cup {b}
  /\ UNCHANGED resultRows

\* append_tool_result raises when the call has another result already.
ResultConflicts(b, result) ==
  \E prior \in resultRows[b].results : prior.call = result.call /\ prior # result

\* The row once a first result of its call is in: complete when all have come.
ResultRowWith(row, calls, result) ==
  LET results == row.results \cup {result}
  IN  [ status  |-> IF CallsIn(results) = calls THEN "COMPLETED" ELSE "STREAMING",
        results |-> results ]

\* append_tool_result for a batch of these calls.
AppendToolResult(b, calls, result) ==
  /\ ~ResultConflicts(b, result)
  /\ resultRows' = IF result \in resultRows[b].results
                   THEN resultRows
                   ELSE [resultRows EXCEPT ![b] = ResultRowWith(@, calls, result)]
  /\ UNCHANGED callRows

\* _fail_incomplete_tool_results, part of every transaction that fails a run.
FailIncompleteToolResults(batches) ==
  /\ resultRows' = [b \in Batches |->
                      IF b \in batches /\ resultRows[b].status = "STREAMING"
                      THEN [resultRows[b] EXCEPT !.status = "FAILED"]
                      ELSE resultRows[b]]
  /\ UNCHANGED callRows

=============================================================================
