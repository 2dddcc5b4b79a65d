------------------------------ MODULE LoopRun ------------------------------
(***************************************************************************)
(* What the orchestrator promises about one loop run, whatever its queues, *)
(* retries and replicas do: the tasks of the loop are admitted together,   *)
(* each of them gets one outcome at most and keeps it, a task is done only *)
(* after everything it depends on is done, and blocked only when it had    *)
(* its turn or can never have it.                                          *)
(***************************************************************************)
CONSTANTS Task, Deps

VARIABLE status   \* "none", then "open", then "done" or "blocked"

Init == status = [t \in Task |-> "none"]

Admit ==
  /\ \A t \in Task : status[t] = "none"
  /\ status' = [t \in Task |-> "open"]

Finish(t) ==
  /\ status[t] = "open"
  /\ \A d \in Deps[t] : status[d] = "done"
  /\ status' = [status EXCEPT ![t] = "done"]

\* The task had its turn and failed three times or was refused by QA, or it
\* can never have its turn because a task it depends on is blocked.
Block(t) ==
  /\ status[t] = "open"
  /\ \/ \A d \in Deps[t] : status[d] = "done"
     \/ \E d \in Deps[t] : status[d] = "blocked"
  /\ status' = [status EXCEPT ![t] = "blocked"]

Settle == \E t \in Task : Finish(t) \/ Block(t)

Spec == Init /\ [][Admit \/ Settle]_status
=============================================================================
