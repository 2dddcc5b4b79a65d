---------------------------- MODULE TaskDispatch ----------------------------
(***************************************************************************)
(* The task dispatcher of services/orchestrator: one loop run, from the    *)
(* heartbeat that inserts its tasks to the last task's terminal state.     *)
(*                                                                         *)
(* Every database helper of orchestrator/db.py opens its own connection    *)
(* and commits before it returns, so one action here is one such           *)
(* transaction (or one call to Service Bus), and the replicas of the       *)
(* orchestrator interleave between any two of them.  A replica walks       *)
(* through worker.run_worker_loop: it receives a batch, handles one        *)
(* message after the other and completes each of them whatever happened.   *)
(***************************************************************************)
EXTENDS Integers, Sequences, FiniteSets

CONSTANTS
  Task,                  \* the tasks of the loop run
  Deps,                  \* depends_on of every task
  FileOrder,             \* position of every task in the loop's YAML file
  Registered,            \* tasks whose task_type is a key of DISPATCH_TABLE
  Reviews,               \* tasks whose handler may end in a QA_BLOCKED verdict
  Replica,               \* orchestrator replicas (container-app.bicep: 1 to 3)
  Heartbeats,            \* copies of the heartbeat that the event queue delivers
  BatchMax,              \* max_count of one receive (10 in the code)
  NotReadyMaxRequeues,   \* policy/worker.yaml not_ready_max_requeues (20)
  MaxFaults,             \* bound on each kind of fault in one behaviour
  FaultySteps            \* steps whose database or bus call may raise

Heartbeat == "heartbeat"
FaultKinds == {"crash", "lock", "raise"}

\* task_state.state, plus "absent" for a row not inserted yet.  The enum's
\* "dispatched" is written nowhere.
TaskStates == {"absent", "pending", "dispatchable", "running", "completed",
               "retry_pending", "dead_lettered", "failed"}

\* TransitionReason, the closed vocabulary of task_transitions.reason
\* ("vault_write_failed" rows change no state and are left out).
Reasons == {"created", "dependency_satisfied", "dispatched", "completed",
            "failed_attempt_1", "failed_attempt_2", "dead_lettered",
            "dependency_dead_lettered", "qa_blocked"}

\* Seeded bugs are kept beside what they change, one definition each, under a
\* name that starts with "Bug"; no behaviour of the specification uses them.
BugBlockedOnRetry == {"dead_lettered", "failed", "retry_pending"}
PermanentlyBlocked == {"dead_lettered", "failed"}
Terminal == PermanentlyBlocked \cup {"completed"}
BugSecondStrike == 2
DeadLetterStrike == 3

HeartbeatSteps == {"insert", "publish"}
\* Steps inside dispatch_task, or inside the handler run by the retry loop:
\* an exception there is caught by handle_task_message / _retry_or_dead_letter.
DispatchSteps == {"check", "deps", "start", "handler", "select", "count", "advance"}
\* Steps outside it: an exception there reaches run_worker_loop.
FailureSteps == {"not_ready", "rf_read", "rf_incr", "rf_move",
                 "cas_read", "cas_move", "alert"}
TaskSteps == DispatchSteps \cup FailureSteps
Steps == {"idle", "complete"} \cup HeartbeatSteps \cup TaskSteps

ASSUME DispatchAssumption ==
  /\ Heartbeat \notin Task
  /\ Deps \in [Task -> SUBSET Task]
  /\ FileOrder \in [Task -> Nat]
  /\ Registered \subseteq Task
  /\ Reviews \subseteq Registered
  /\ Replica # {}
  /\ Heartbeats \in Nat
  /\ BatchMax \in Nat \ {0}
  /\ NotReadyMaxRequeues \in Nat
  /\ MaxFaults \in [FaultKinds -> Nat]
  /\ FaultySteps \subseteq HeartbeatSteps \cup TaskSteps

VARIABLES
  state,        \* task_state.state
  retryCount,   \* task_state.retry_count
  reasons,      \* reasons of the task's task_transitions rows
  eventQueue,   \* Service Bus queue `event` (heartbeats)
  taskQueue,    \* Service Bus queue `task`
  batch,        \* messages a replica has received and not completed, in order
  orphaned,     \* messages whose lock a dead process still holds
  pc,           \* step a replica is about to take
  todo,         \* local list of tasks: to publish, or to advance
  strike,       \* retry_count returned by increment_retry to this replica
  looping,      \* inside the retry loop of _retry_or_dead_letter
  alerts,       \* dead-letter alerts published for a task
  faults        \* faults that have happened, per kind

rowVars == <<state, retryCount, reasons>>
busVars == <<eventQueue, taskQueue, batch, orphaned>>
localVars == <<todo, strike, looping>>
vars == <<rowVars, busVars, pc, localVars, alerts, faults>>

Message == [about : Task \cup {Heartbeat}, requeues : Nat,
            redelivered : BOOLEAN, locked : BOOLEAN]
NewMessage(t, n) ==
  [about |-> t, requeues |-> n, redelivered |-> FALSE, locked |-> FALSE]

\* The task of the message that replica r is handling.
Cur(r) == Head(batch[r]).about

-----------------------------------------------------------------------------
(* Helpers shared by the actions *)

Goto(r, s) == pc' = [pc EXCEPT ![r] = s]

\* db.transition: SELECT ... FOR UPDATE, UPDATE and the audit row in one
\* transaction.  The UPDATE does not look at the state it overwrites.
Transition(t, to, why) ==
  /\ state' = [state EXCEPT ![t] = to]
  /\ reasons' = [reasons EXCEPT ![t] = @ \cup {why}]
  /\ UNCHANGED retryCount

DepsCompleted(t) == \A d \in Deps[t] : state[d] = "completed"

\* First step of the handling of the head of b: every heartbeat takes the
\* same path, a task message with delivery_count > 1 is reconciled.
FirstStep(b) ==
  IF b = <<>> THEN "idle"
  ELSE IF Head(b).about = Heartbeat THEN "insert"
  ELSE IF Head(b).redelivered THEN "rf_read" ELSE "check"

\* A message whose lock is given up is at the front of its queue again, with
\* the delivery_count that makes its next receiver see a redelivery.
PutBack(m) ==
  LET back == [m EXCEPT !.redelivered = TRUE, !.locked = FALSE]
  IN IF m.about = Heartbeat
     THEN eventQueue' = <<back>> \o eventQueue /\ UNCHANGED taskQueue
     ELSE taskQueue' = <<back>> \o taskQueue /\ UNCHANGED eventQueue

Start ==
  /\ state = [t \in Task |-> "absent"]
  /\ retryCount = [t \in Task |-> 0]
  /\ reasons = [t \in Task |-> {}]
  /\ eventQueue = [i \in 1..Heartbeats |-> NewMessage(Heartbeat, 0)]
  /\ taskQueue = <<>>
  /\ batch = [r \in Replica |-> <<>>]
  /\ orphaned = <<>>
  /\ pc = [r \in Replica |-> "idle"]
  /\ todo = [r \in Replica |-> {}]
  /\ strike = [r \in Replica |-> 0]
  /\ looping = [r \in Replica |-> FALSE]
  /\ alerts = [t \in Task |-> 0]

Init == Start /\ faults = [k \in FaultKinds |-> 0]

-----------------------------------------------------------------------------
(* run_worker_loop: receive a batch, complete every message *)

Locked(q, n) == [i \in 1..n |-> [q[i] EXCEPT !.locked = TRUE]]

ReceiveEvents(r) ==
  /\ pc[r] = "idle"
  /\ \E n \in 1..BatchMax :
       /\ n <= Len(eventQueue)
       /\ batch' = [batch EXCEPT ![r] = Locked(eventQueue, n)]
       /\ eventQueue' = SubSeq(eventQueue, n + 1, Len(eventQueue))
       /\ Goto(r, "insert")
  /\ UNCHANGED <<rowVars, taskQueue, orphaned, localVars, alerts, faults>>

BugReceiveWithoutLock(r) ==
  /\ pc[r] = "idle" /\ taskQueue # <<>>
  /\ batch' = [batch EXCEPT ![r] = Locked(taskQueue, 1)]
  /\ Goto(r, IF Head(taskQueue).redelivered THEN "rf_read" ELSE "check")
  /\ UNCHANGED <<rowVars, eventQueue, taskQueue, orphaned, localVars, alerts, faults>>

ReceiveTasks(r) ==
  /\ pc[r] = "idle"
  /\ \E n \in 1..BatchMax :
       /\ n <= Len(taskQueue)
       /\ batch' = [batch EXCEPT ![r] = Locked(taskQueue, n)]
       /\ taskQueue' = SubSeq(taskQueue, n + 1, Len(taskQueue))
       /\ Goto(r, IF Head(taskQueue).redelivered THEN "rf_read" ELSE "check")
  /\ UNCHANGED <<rowVars, eventQueue, orphaned, localVars, alerts, faults>>

\* The finally clause.  A message whose lock has expired is on its queue
\* already: its completion fails and the exception is swallowed.
CompleteMessage(r) ==
  /\ pc[r] = "complete"
  /\ batch' = [batch EXCEPT ![r] = Tail(@)]
  /\ Goto(r, FirstStep(Tail(batch[r])))
  /\ todo' = [todo EXCEPT ![r] = {}]
  /\ strike' = [strike EXCEPT ![r] = 0]
  /\ looping' = [looping EXCEPT ![r] = FALSE]
  /\ UNCHANGED <<rowVars, eventQueue, taskQueue, orphaned, alerts, faults>>

-----------------------------------------------------------------------------
(* handle_heartbeat_message *)

\* insert_task_batch: one transaction, ON CONFLICT DO NOTHING.
InsertTaskBatch(r) ==
  LET new == {t \in Task : state[t] = "absent"} IN
  /\ pc[r] = "insert"
  /\ state' = [t \in Task |-> IF t \notin new THEN state[t]
                              ELSE IF Deps[t] = {} THEN "dispatchable" ELSE "pending"]
  /\ reasons' = [t \in Task |-> IF t \in new THEN {"created"} ELSE reasons[t]]
  /\ todo' = [todo EXCEPT ![r] = Task]
  /\ Goto(r, "publish")
  /\ UNCHANGED <<retryCount, busVars, strike, looping, alerts, faults>>

\* One envelope per task, in file order, whether its row was new or not.
PublishTask(r) ==
  /\ pc[r] = "publish"
  /\ \E t \in todo[r] :
       /\ \A u \in todo[r] : FileOrder[t] <= FileOrder[u]
       /\ taskQueue' = Append(taskQueue, NewMessage(t, 0))
       /\ todo' = [todo EXCEPT ![r] = @ \ {t}]
  /\ UNCHANGED <<rowVars, eventQueue, batch, orphaned, pc, strike, looping, alerts, faults>>

HeartbeatHandled(r) ==
  /\ pc[r] = "publish"
  /\ todo[r] = {}
  /\ Goto(r, "complete")
  /\ UNCHANGED <<rowVars, busVars, localVars, alerts, faults>>

-----------------------------------------------------------------------------
(* dispatch_task: the gate, the handler, advance_dependents *)

BugGateOpen(r) ==
  /\ pc[r] = "check" /\ state[Cur(r)] \notin Terminal
  /\ Goto(r, "start")
  /\ UNCHANGED <<rowVars, busVars, localVars, alerts, faults>>

GateCleared(r) ==
  /\ pc[r] = "check"
  /\ state[Cur(r)] = "dispatchable"
  /\ Goto(r, "start")
  /\ UNCHANGED <<rowVars, busVars, localVars, alerts, faults>>

\* TaskAlreadyTerminalError: the message is a duplicate and is dropped.
DuplicateDropped(r) ==
  /\ pc[r] = "check"
  /\ state[Cur(r)] \in Terminal
  /\ Goto(r, "complete")
  /\ UNCHANGED <<rowVars, busVars, localVars, alerts, faults>>

NotDispatchable(r) ==
  /\ pc[r] = "check"
  /\ state[Cur(r)] \notin Terminal \cup {"dispatchable"}
  /\ Goto(r, "deps")
  /\ UNCHANGED <<rowVars, busVars, localVars, alerts, faults>>

\* _find_dead_lettered_dependency: one query over the immediate dependencies.
FindBlockedDependency(r) ==
  /\ pc[r] = "deps"
  /\ Goto(r, IF \E d \in Deps[Cur(r)] : state[d] \in PermanentlyBlocked
             THEN "cas_read" ELSE "not_ready")
  /\ UNCHANGED <<rowVars, busVars, localVars, alerts, faults>>

StartTask(r) ==
  /\ pc[r] = "start"
  /\ Transition(Cur(r), "running", "dispatched")
  /\ Goto(r, "handler")
  /\ UNCHANGED <<busVars, localVars, alerts, faults>>

BugNoAdvance(r) ==
  /\ pc[r] = "handler"
  /\ Transition(Cur(r), "completed", "completed")
  /\ Goto(r, "complete")
  /\ UNCHANGED <<busVars, localVars, alerts, faults>>

\* The handler's last writes: COMPLETED, then advance_dependents.
HandlerCompletes(r) ==
  /\ pc[r] = "handler"
  /\ Transition(Cur(r), "completed", "completed")
  /\ Goto(r, "select")
  /\ UNCHANGED <<busVars, localVars, alerts, faults>>

\* A QA verdict: FAILED, and advance_dependents is never called.
HandlerBlocks(r) ==
  /\ pc[r] = "handler"
  /\ Cur(r) \in Reviews
  /\ Transition(Cur(r), "failed", "qa_blocked")
  /\ Goto(r, "complete")
  /\ UNCHANGED <<busVars, localVars, alerts, faults>>

BugNoRetryLoop(r) ==
  /\ pc[r] = "handler" /\ Cur(r) \in Registered
  /\ Goto(r, "rf_read")
  /\ UNCHANGED <<rowVars, busVars, localVars, alerts, faults>>

\* Any other exception of a handler: _retry_or_dead_letter takes over.
HandlerRaises(r) ==
  /\ pc[r] = "handler"
  /\ Cur(r) \in Registered
  /\ Goto(r, "rf_read")
  /\ looping' = [looping EXCEPT ![r] = TRUE]
  /\ UNCHANGED <<rowVars, busVars, todo, strike, alerts, faults>>

\* advance_dependents, first statement: the pending tasks that depend on it.
SelectPendingDependents(r) ==
  /\ pc[r] = "select"
  /\ todo' = [todo EXCEPT ![r] = {t \in Task : Cur(r) \in Deps[t] /\ state[t] = "pending"}]
  /\ Goto(r, "count")
  /\ UNCHANGED <<rowVars, busVars, strike, looping, alerts, faults>>

\* ... then count(*) of the completed dependencies of each candidate.  READ
\* COMMITTED: the counts may see a later state than the selection did.
CountCompletedDeps(r) ==
  LET ready == {t \in todo[r] : DepsCompleted(t)} IN
  /\ pc[r] = "count"
  /\ todo' = [todo EXCEPT ![r] = ready]
  /\ Goto(r, IF ready = {} THEN "complete" ELSE "advance")
  /\ UNCHANGED <<rowVars, busVars, strike, looping, alerts, faults>>

\* ... and, after that transaction, one unconditional transition for each.
AdvanceDependent(r) ==
  /\ pc[r] = "advance"
  /\ \E t \in todo[r] :
       /\ Transition(t, "dispatchable", "dependency_satisfied")
       /\ todo' = [todo EXCEPT ![r] = @ \ {t}]
       /\ Goto(r, IF todo[r] = {t} THEN "complete" ELSE "advance")
  /\ UNCHANGED <<busVars, strike, looping, alerts, faults>>

-----------------------------------------------------------------------------
(* TaskNotReadyError: requeue a bounded number of times, then give up *)

BugNotReadyLost(r) ==
  /\ pc[r] = "not_ready" /\ Head(batch[r]).requeues < NotReadyMaxRequeues
  /\ Goto(r, "complete")
  /\ UNCHANGED <<rowVars, busVars, localVars, alerts, faults>>

BugStrikePerRequeue(r) ==
  /\ pc[r] = "not_ready" /\ Head(batch[r]).requeues < NotReadyMaxRequeues
  /\ taskQueue' = Append(taskQueue, NewMessage(Cur(r), Head(batch[r]).requeues + 1))
  /\ Goto(r, "rf_read")
  /\ UNCHANGED <<rowVars, eventQueue, batch, orphaned, localVars, alerts, faults>>

RequeueNotReady(r) ==
  /\ pc[r] = "not_ready"
  /\ Head(batch[r]).requeues < NotReadyMaxRequeues
  /\ taskQueue' = Append(taskQueue, NewMessage(Cur(r), Head(batch[r]).requeues + 1))
  /\ Goto(r, "complete")
  /\ UNCHANGED <<rowVars, eventQueue, batch, orphaned, localVars, alerts, faults>>

GiveUpNotReady(r) ==
  /\ pc[r] = "not_ready"
  /\ Head(batch[r]).requeues >= NotReadyMaxRequeues
  /\ Goto(r, "rf_read")
  /\ UNCHANGED <<rowVars, busVars, localVars, alerts, faults>>

-----------------------------------------------------------------------------
(* state_machine.record_failure *)

FailureIgnored(r) ==
  /\ pc[r] = "rf_read"
  /\ state[Cur(r)] \in Terminal
  /\ Goto(r, "complete")
  /\ UNCHANGED <<rowVars, busVars, localVars, alerts, faults>>

FailureAccepted(r) ==
  /\ pc[r] = "rf_read"
  /\ state[Cur(r)] \notin Terminal
  /\ Goto(r, "rf_incr")
  /\ UNCHANGED <<rowVars, busVars, localVars, alerts, faults>>

BugCountsDown(r) ==
  /\ pc[r] = "rf_incr"
  /\ retryCount' = [retryCount EXCEPT ![Cur(r)] = @ - 1]
  /\ Goto(r, "rf_move")
  /\ UNCHANGED <<state, reasons, busVars, localVars, alerts, faults>>

IncrementRetry(r) ==
  /\ pc[r] = "rf_incr"
  /\ retryCount' = [retryCount EXCEPT ![Cur(r)] = @ + 1]
  /\ strike' = [strike EXCEPT ![r] = retryCount[Cur(r)] + 1]
  /\ Goto(r, "rf_move")
  /\ UNCHANGED <<state, reasons, busVars, todo, looping, alerts, faults>>

\* The retry loop reruns the handler itself: RUNNING is not written again,
\* except by the pass-through of an unregistered task_type.
ScheduleRetry(r) ==
  /\ pc[r] = "rf_move"
  /\ strike[r] < DeadLetterStrike
  /\ Transition(Cur(r), "retry_pending",
                IF strike[r] = 1 THEN "failed_attempt_1" ELSE "failed_attempt_2")
  /\ Goto(r, IF ~looping[r] THEN "complete"
             ELSE IF Cur(r) \in Registered THEN "handler" ELSE "start")
  /\ UNCHANGED <<busVars, localVars, alerts, faults>>

BugDeadWithoutAlert(r) ==
  /\ pc[r] = "rf_move" /\ strike[r] >= DeadLetterStrike
  /\ Transition(Cur(r), "dead_lettered", "dead_lettered")
  /\ Goto(r, "complete")
  /\ UNCHANGED <<busVars, localVars, alerts, faults>>

DeadLetter(r) ==
  /\ pc[r] = "rf_move"
  /\ strike[r] >= DeadLetterStrike
  /\ Transition(Cur(r), "dead_lettered", "dead_lettered")
  /\ Goto(r, "alert")
  /\ UNCHANGED <<busVars, localVars, alerts, faults>>

-----------------------------------------------------------------------------
(* state_machine.cascade_dead_letter and dead_letter.emit_alert *)

CascadeIgnored(r) ==
  /\ pc[r] = "cas_read"
  /\ state[Cur(r)] = "dead_lettered"
  /\ Goto(r, "complete")
  /\ UNCHANGED <<rowVars, busVars, localVars, alerts, faults>>

CascadeAccepted(r) ==
  /\ pc[r] = "cas_read"
  /\ state[Cur(r)] # "dead_lettered"
  /\ Goto(r, "cas_move")
  /\ UNCHANGED <<rowVars, busVars, localVars, alerts, faults>>

CascadeDeadLetter(r) ==
  /\ pc[r] = "cas_move"
  /\ Transition(Cur(r), "dead_lettered", "dependency_dead_lettered")
  /\ Goto(r, "alert")
  /\ UNCHANGED <<busVars, localVars, alerts, faults>>

EmitAlert(r) ==
  /\ pc[r] = "alert"
  /\ alerts' = [alerts EXCEPT ![Cur(r)] = @ + 1]
  /\ Goto(r, "complete")
  /\ UNCHANGED <<rowVars, busVars, localVars, faults>>

-----------------------------------------------------------------------------
(* Faults: each kind happens at most MaxFaults times *)

Fault(kind) ==
  /\ faults[kind] < MaxFaults[kind]
  /\ faults' = [faults EXCEPT ![kind] = @ + 1]

\* A database or bus call raises.  Inside dispatch_task (or the rerun of the
\* handler) _retry_or_dead_letter catches it; elsewhere the message is
\* completed by run_worker_loop and nothing else happens.
StepRaises(r) ==
  /\ pc[r] \in FaultySteps
  /\ Fault("raise")
  /\ Goto(r, IF pc[r] \in DispatchSteps THEN "rf_read" ELSE "complete")
  /\ looping' = [looping EXCEPT ![r] = @ \/ pc[r] \in DispatchSteps]
  /\ todo' = [todo EXCEPT ![r] = {}]
  /\ UNCHANGED <<rowVars, busVars, strike, alerts>>

\* The process dies.  Its messages stay locked until the lock expires.
Crash(r) ==
  /\ pc[r] # "idle"
  /\ Fault("crash")
  /\ orphaned' = orphaned \o batch[r]
  /\ batch' = [batch EXCEPT ![r] = <<>>]
  /\ Goto(r, "idle")
  /\ todo' = [todo EXCEPT ![r] = {}]
  /\ strike' = [strike EXCEPT ![r] = 0]
  /\ looping' = [looping EXCEPT ![r] = FALSE]
  /\ UNCHANGED <<rowVars, eventQueue, taskQueue, alerts>>

OrphanReturns ==
  /\ orphaned # <<>>
  /\ orphaned' = Tail(orphaned)
  /\ IF Head(orphaned).locked THEN PutBack(Head(orphaned))
     ELSE UNCHANGED <<eventQueue, taskQueue>>
  /\ UNCHANGED <<rowVars, batch, pc, localVars, alerts, faults>>

\* The one-minute lock expires while the replica still works on its batch.
LockExpires(r) ==
  /\ Fault("lock")
  /\ \E i \in 1..Len(batch[r]) :
       /\ batch[r][i].locked
       /\ batch' = [batch EXCEPT ![r][i].locked = FALSE]
       /\ PutBack(batch[r][i])
  /\ UNCHANGED <<rowVars, orphaned, pc, localVars, alerts>>

-----------------------------------------------------------------------------
HandleHeartbeat(r) == InsertTaskBatch(r) \/ PublishTask(r) \/ HeartbeatHandled(r)

DispatchTask(r) ==
  \/ GateCleared(r) \/ DuplicateDropped(r) \/ NotDispatchable(r)
  \/ FindBlockedDependency(r) \/ StartTask(r)
  \/ HandlerCompletes(r) \/ HandlerBlocks(r) \/ HandlerRaises(r)
  \/ SelectPendingDependents(r) \/ CountCompletedDeps(r) \/ AdvanceDependent(r)

HandleFailure(r) ==
  \/ RequeueNotReady(r) \/ GiveUpNotReady(r)
  \/ FailureIgnored(r) \/ FailureAccepted(r) \/ IncrementRetry(r)
  \/ ScheduleRetry(r) \/ DeadLetter(r)
  \/ CascadeIgnored(r) \/ CascadeAccepted(r) \/ CascadeDeadLetter(r) \/ EmitAlert(r)

Step(r) ==
  \/ ReceiveEvents(r) \/ ReceiveTasks(r) \/ CompleteMessage(r)
  \/ HandleHeartbeat(r) \/ DispatchTask(r) \/ HandleFailure(r)

Faulty(r) == StepRaises(r) \/ Crash(r) \/ LockExpires(r)

\* Every replica polls empty queues: the run is over.
Quiet ==
  /\ \A r \in Replica : pc[r] = "idle"
  /\ eventQueue = <<>> /\ taskQueue = <<>> /\ orphaned = <<>>
  /\ UNCHANGED vars

Next == (\E r \in Replica : Step(r) \/ Faulty(r)) \/ OrphanReturns \/ Quiet

Spec == Init /\ [][Next]_vars

\* The poll loop never stops, every handler call returns or raises (its HTTP
\* clients have timeouts), and Service Bus expires the locks of a dead process.
Fairness == (\A r \in Replica : WF_vars(Step(r))) /\ WF_vars(OrphanReturns)
FairSpec == Spec /\ Fairness

-----------------------------------------------------------------------------
(* Properties *)

\* Every variable has the type the code gives it; a message is never torn.
TypeOK ==
  /\ state \in [Task -> TaskStates]
  /\ retryCount \in [Task -> Nat]
  /\ reasons \in [Task -> SUBSET Reasons]
  /\ eventQueue \in Seq(Message) /\ taskQueue \in Seq(Message)
  /\ batch \in [Replica -> Seq(Message)] /\ orphaned \in Seq(Message)
  /\ pc \in [Replica -> Steps]
  /\ todo \in [Replica -> SUBSET Task]
  /\ strike \in [Replica -> Nat]
  /\ looping \in [Replica -> BOOLEAN]
  /\ alerts \in [Task -> Nat]
  /\ faults \in [FaultKinds -> Nat]

\* The gate (dispatch/gating.py, F-DISPATCH-GATE): a task was started or has
\* completed only if every task it depends on has completed before.
GateRespected ==
  \A t \in Task : reasons[t] \cap {"dispatched", "completed"} # {}
    => \A d \in Deps[t] : "completed" \in reasons[d]

\* cascade_dead_letter skips the three strikes only for a certainty
\* (state_machine.py, "provably cannot ever complete"): some dependency of the
\* task was dead-lettered or refused by QA and, as long as nothing goes wrong,
\* never completes, before or after the cascade.  A fault breaks the certainty:
\* after an expired lock the second copy of a message can count the last strike
\* while the first holder runs on and completes.
NoFault == \A k \in FaultKinds : faults[k] = 0
BlockReasons == {"dead_lettered", "dependency_dead_lettered", "qa_blocked"}

CascadeJustified ==
  \A t \in Task : "dependency_dead_lettered" \in reasons[t]
    => \E d \in Deps[t] :
         /\ reasons[d] \cap BlockReasons # {}
         /\ NoFault => "completed" \notin reasons[d]

\* advance_dependents loses no wake-up: when the last dependency of a pending
\* task has completed, some replica is still on its way to advance it - even
\* when a lock has expired and the message is handled twice.  A crash or an
\* exception after the completion does lose it.
WillAdvance(r, t) ==
  \/ pc[r] = "select" /\ Cur(r) \in Deps[t]
  \/ pc[r] \in {"count", "advance"} /\ t \in todo[r]

NoLostWakeup ==
  faults["crash"] = 0 /\ faults["raise"] = 0 =>
  \A t \in Task : state[t] = "pending" /\ DepsCompleted(t)
    => \E r \in Replica : WillAdvance(r, t)

\* The competing consumers of the task queue: two replicas never run the
\* handler of the same task.  A heartbeat that is handled twice, after an expired
\* lock or a crash on its way, breaks it: the tasks are published again and both
\* copies can pass the gate.
OneRunner ==
  faults["lock"] = 0 /\ faults["crash"] = 0 =>
  \A r, s \in Replica : r # s /\ pc[r] = "handler" /\ pc[s] = "handler"
    => Cur(r) # Cur(s)

\* worker.handle_dead_letter_alert: the alert line "must stay one per dead
\* task" - none for a task that is not dead, none twice, none forgotten.  A
\* fault breaks it: with an expired lock two replicas can count the last strike.
OneAlertPerDeadTask ==
  NoFault =>
  \A t \in Task :
    LET dead == reasons[t] \cap {"dead_lettered", "dependency_dead_lettered"} # {}
        due == \E r \in Replica : pc[r] = "alert" /\ Cur(r) = t
    IN alerts[t] = IF dead /\ ~due THEN 1 ELSE 0

\* Nothing but a message makes a task move: while a task is not final, its
\* envelope or the heartbeat that publishes it is queued, held or orphaned.
\* The exception is "retry_pending": whoever writes it goes on in its retry loop, or
\* has given up.
Messages(q) == {q[i].about : i \in 1..Len(q)}
InFlight ==
  UNION ({Messages(eventQueue), Messages(taskQueue), Messages(orphaned)}
           \cup {Messages(batch[r]) : r \in Replica})

Driven ==
  \A t \in Task : state[t] \in {"pending", "dispatchable", "running"}
    => InFlight \cap {t, Heartbeat} # {}

\* Replicas that take turns: one leaves its batch, done or dead, before the next
\* one receives.  A single replica always does.
Alternate == \A r, s \in Replica : r # s => pc[r] = "idle" \/ pc[s] = "idle"
TurnSpec == Init /\ [][Next /\ Alternate']_vars

\* record_failure on a message that was given up, or redelivered: until the
\* dependencies of a task are done, the heartbeats (one envelope each) and the
\* redeliveries that a crash or an expired lock causes bound the strikes it has lost.
StrikesFounded ==
  \A t \in Task : (\E d \in Deps[t] : "completed" \notin reasons[d])
    => retryCount[t] <= Heartbeats + faults["crash"] + faults["lock"]

\* The loop run as seen from outside, and what it promises (LoopRun.tla).
Status(t) ==
  CASE state[t] = "absent" -> "none"
    [] state[t] = "completed" -> "done"
    [] state[t] \in PermanentlyBlocked -> "blocked"
    [] OTHER -> "open"

Promise == INSTANCE LoopRun WITH status <- [t \in Task |-> Status(t)]

\* Replicas that take turns implement LoopRun, also when handlers and calls raise
\* and messages are redelivered, as long as heartbeats and redeliveries together are
\* fewer than the strikes that kill a task: no task starts or dies early, and no
\* outcome is revised.
OutcomesStand == Promise!Spec

\* One replica without a fault leaves no task open (worker.py, "so it reaches a
\* genuine terminal state"): failed attempts are retried, what is not ready is
\* requeued until it is, every dependent is advanced or cascaded.
EveryTaskEnds ==
  \A t \in Task : state[t] # "absent" ~>
    state[t] \in Terminal \/ \E k \in FaultKinds : faults[k] > 0
=============================================================================
