---------------------------- MODULE RunContract ----------------------------
(***************************************************************************)
(* What the agent service promises its clients about runs, with no word on *)
(* how: a conversation takes one unfinished run at a time, a run waits for *)
(* and goes on after approvals until it finishes, what is finished stays   *)
(* so, and a conversation that is being deleted takes no new run.          *)
(***************************************************************************)
CONSTANTS Conversations, Runs, ConvOf

VARIABLES
  open,    \* conversations that take new runs
  status   \* [Runs -> status of the run as a client reads it]

Unfinished == {"RUNNING", "WAITING_INPUT"}
Finished   == {"SUCCEEDED", "FAILED"}

Init == open = Conversations /\ status = [r \in Runs |-> "ABSENT"]

Start(r) ==
  /\ ConvOf[r] \in open
  /\ status[r] = "ABSENT"
  /\ \A s \in Runs : ConvOf[s] = ConvOf[r] => status[s] \notin Unfinished
  /\ status' = [status EXCEPT ![r] = "RUNNING"]
  /\ UNCHANGED open

Ask(r) ==
  /\ status[r] = "RUNNING"
  /\ status' = [status EXCEPT ![r] = "WAITING_INPUT"]
  /\ UNCHANGED open

Approve(r) ==
  /\ status[r] = "WAITING_INPUT"
  /\ status' = [status EXCEPT ![r] = "RUNNING"]
  /\ UNCHANGED open

Finish(r) ==
  /\ status[r] \in Unfinished
  /\ \E s \in Finished : status' = [status EXCEPT ![r] = s]
  /\ UNCHANGED open

Close(c) ==
  /\ open' = open \ {c}
  /\ UNCHANGED status

Forget(c) ==
  /\ c \notin open
  /\ status' = [r \in Runs |-> IF ConvOf[r] = c THEN "ABSENT" ELSE status[r]]
  /\ UNCHANGED open

Next ==
  \/ \E r \in Runs : Start(r) \/ Ask(r) \/ Approve(r) \/ Finish(r)
  \/ \E c \in Conversations : Close(c) \/ Forget(c)

vars == <<open, status>>
Spec == Init /\ [][Next]_vars

=============================================================================
