------------------------ MODULE TaskDispatch_proofs ------------------------
(***************************************************************************)
(* Theorems about TaskDispatch, for every loop, every number of replicas   *)
(* and every bound.                                                        *)
(***************************************************************************)
EXTENDS TaskDispatch, SequenceTheorems, FiniteSetTheorems, TLAPS

TaskMessages(q) == \A i \in 1..Len(q) : q[i].about \in Task

\* Types, and what makes the steps well defined: a replica that is busy holds
\* a message, the message of a task step is about a task.  A row that is not
\* inserted has no history.
TypeInv ==
  /\ TypeOK
  /\ \A t \in Task : state[t] = "absent" => reasons[t] = {}
  /\ TaskMessages(taskQueue)
  /\ \A r \in Replica :
       /\ pc[r] # "idle" => batch[r] # <<>>
       /\ pc[r] \in TaskSteps => Cur(r) \in Task

-----------------------------------------------------------------------------
(* Sequences of messages *)

\* A received batch is a non-empty prefix of the queue, message for message.
LEMMA LockedPrefix ==
  ASSUME NEW q \in Seq(Message), NEW n \in 1..Len(q)
  PROVE  /\ Locked(q, n) \in Seq(Message)
         /\ Locked(q, n) # <<>>
         /\ Head(Locked(q, n)).about = Head(q).about
         /\ SubSeq(q, n + 1, Len(q)) \in Seq(Message)
         /\ TaskMessages(q) => TaskMessages(SubSeq(q, n + 1, Len(q)))
<1>1. n \in Nat /\ Len(q) \in Nat /\ n >= 1 /\ n <= Len(q)
  BY LenProperties
<1>2. ASSUME NEW m \in Message
      PROVE  /\ [m EXCEPT !.locked = TRUE] \in Message
             /\ [m EXCEPT !.locked = TRUE].about = m.about
  BY DEF Message
<1>3. \A i \in 1..n : q[i] \in Message
  BY <1>1, ElementOfSeq
<1>4. Locked(q, n) \in [1..n -> Message]
  BY <1>2, <1>3 DEF Locked
<1>5. Locked(q, n) \in Seq(Message) /\ Len(Locked(q, n)) = n
  BY <1>1, <1>4
<1>6. Locked(q, n) # <<>> /\ q # <<>>
  BY <1>1, <1>5
<1>7. Head(Locked(q, n)).about = Head(q).about
  <2>1. Head(Locked(q, n)) = Locked(q, n)[1] /\ Head(q) = q[1]
    BY <1>5, <1>6
  <2>2. Locked(q, n)[1] = [q[1] EXCEPT !.locked = TRUE]
    BY <1>1 DEF Locked
  <2>3. q[1] \in Message
    BY <1>1, <1>3
  <2>4. [q[1] EXCEPT !.locked = TRUE].about = q[1].about
    BY <1>2, <2>3
  <2> QED
    BY <2>1, <2>2, <2>4
<1>8. /\ SubSeq(q, n + 1, Len(q)) \in Seq(Message)
      /\ Len(SubSeq(q, n + 1, Len(q))) <= Len(q) - n
      /\ \A i \in 1..(Len(q) - n) : SubSeq(q, n + 1, Len(q))[i] = q[n + i]
  BY <1>1
<1>9. TaskMessages(q) => TaskMessages(SubSeq(q, n + 1, Len(q)))
  BY <1>1, <1>8, LenProperties DEF TaskMessages
<1> QED
  BY <1>5, <1>6, <1>7, <1>8, <1>9

\* A message that returns to the front of a queue leaves it well typed.
LEMMA Prepended ==
  ASSUME NEW q \in Seq(Message), NEW m \in Message
  PROVE  /\ [m EXCEPT !.redelivered = TRUE, !.locked = FALSE] \in Message
         /\ <<[m EXCEPT !.redelivered = TRUE, !.locked = FALSE]>> \o q \in Seq(Message)
         /\ TaskMessages(q) /\ m.about \in Task
              => TaskMessages(<<[m EXCEPT !.redelivered = TRUE, !.locked = FALSE]>> \o q)
<1> DEFINE b == [m EXCEPT !.redelivered = TRUE, !.locked = FALSE]
<1>1. b \in Message /\ b.about = m.about
  BY DEF Message
<1> HIDE DEF b
<1>2. <<b>> \o q \in Seq(Message) /\ Len(<<b>> \o q) = Len(q) + 1
  BY <1>1
<1>3. \A i \in 1..Len(<<b>> \o q) : (<<b>> \o q)[i] = IF i = 1 THEN b ELSE q[i - 1]
  BY <1>1, <1>2
<1>4. TaskMessages(q) /\ m.about \in Task => TaskMessages(<<b>> \o q)
  BY <1>1, <1>2, <1>3 DEF TaskMessages
<1> QED
  BY <1>1, <1>2, <1>4 DEF b

\* A task is appended to the task queue.
LEMMA Appended ==
  ASSUME NEW q \in Seq(Message), TaskMessages(q), NEW t \in Task, NEW n \in Nat
  PROVE  /\ Append(q, NewMessage(t, n)) \in Seq(Message)
         /\ TaskMessages(Append(q, NewMessage(t, n)))
<1>1. NewMessage(t, n) \in Message /\ NewMessage(t, n).about = t
  BY DEF NewMessage, Message
<1> QED
  BY <1>1 DEF TaskMessages

-----------------------------------------------------------------------------
(* Type correctness *)

LEMMA TypeInit == Init => TypeInv
<1> SUFFICES ASSUME Init PROVE TypeInv
  OBVIOUS
<1>1. \A i \in 1..Heartbeats : NewMessage(Heartbeat, 0) \in Message
  BY DEF NewMessage, Message
<1>2. eventQueue \in Seq(Message)
  BY <1>1, DispatchAssumption DEF Init, Start
<1>3. TypeOK
  BY <1>2, DispatchAssumption
  DEF Init, Start, TypeOK, TaskStates, Reasons, Steps, FaultKinds
<1> QED
  BY <1>3 DEF Init, Start, TypeInv, TaskMessages, TaskSteps, DispatchSteps, FailureSteps

\* The first step of a message is a task step only if the message is about a
\* task.
LEMMA FirstStepTyped ==
  ASSUME NEW b \in Seq(Message)
  PROVE  /\ FirstStep(b) \in Steps
         /\ FirstStep(b) # "idle" => b # <<>>
         /\ FirstStep(b) \in TaskSteps => Head(b).about \in Task
<1>1. CASE b = <<>>
  BY <1>1 DEF FirstStep, Steps, TaskSteps, DispatchSteps, FailureSteps
<1>2. CASE b # <<>>
  <2>1. Head(b) \in Message
    BY <1>2, HeadTailProperties
  <2>2. Head(b).about \in Task \cup {Heartbeat}
    BY <2>1 DEF Message
  <2> QED
    BY <1>2, <2>2
    DEF FirstStep, Steps, HeartbeatSteps, TaskSteps, DispatchSteps, FailureSteps
<1> QED
  BY <1>1, <1>2

\* Receiving and completing messages.
LEMMA TypeReceive ==
  ASSUME TypeInv, NEW r \in Replica,
         ReceiveEvents(r) \/ ReceiveTasks(r) \/ CompleteMessage(r)
  PROVE  TypeInv'
<1> USE DEF Steps, HeartbeatSteps, TaskSteps, DispatchSteps, FailureSteps
<1>1. CASE ReceiveEvents(r)
  <2>1. PICK n \in 1..BatchMax :
          /\ n <= Len(eventQueue)
          /\ batch' = [batch EXCEPT ![r] = Locked(eventQueue, n)]
          /\ eventQueue' = SubSeq(eventQueue, n + 1, Len(eventQueue))
          /\ pc' = [pc EXCEPT ![r] = "insert"]
    BY <1>1 DEF ReceiveEvents, Goto
  <2>0. eventQueue \in Seq(Message) /\ n \in 1..Len(eventQueue)
    BY <2>1, DispatchAssumption, LenProperties DEF TypeInv, TypeOK
  <2>2. TypeOK'
    BY <1>1, <2>1, <2>0, LockedPrefix
    DEF TypeInv, TypeOK, ReceiveEvents, rowVars, localVars
  <2> QED
    BY SMTT(30), <1>1, <2>1, <2>2, <2>0, LockedPrefix
    DEF TypeInv, TypeOK, ReceiveEvents, Cur, rowVars
<1>2. CASE ReceiveTasks(r)
  <2>1. PICK n \in 1..BatchMax :
          /\ n <= Len(taskQueue)
          /\ batch' = [batch EXCEPT ![r] = Locked(taskQueue, n)]
          /\ taskQueue' = SubSeq(taskQueue, n + 1, Len(taskQueue))
          /\ pc' = [pc EXCEPT ![r] = IF Head(taskQueue).redelivered
                                     THEN "rf_read" ELSE "check"]
    BY <1>2 DEF ReceiveTasks, Goto
  <2>0. taskQueue \in Seq(Message) /\ n \in 1..Len(taskQueue)
    BY <2>1, DispatchAssumption, LenProperties DEF TypeInv, TypeOK
  <2>2. TypeOK'
    BY <1>2, <2>1, <2>0, LockedPrefix
    DEF TypeInv, TypeOK, ReceiveTasks, rowVars, localVars
  <2>3. Head(taskQueue).about \in Task
    <3>1. Head(taskQueue) = taskQueue[1] /\ 1 \in 1..Len(taskQueue)
      BY <2>0
    <3> QED
      BY <3>1 DEF TypeInv, TaskMessages
  <2>4. TaskMessages(taskQueue')
    BY <2>1, <2>0, LockedPrefix DEF TypeInv
  <2>5. batch'[r] # <<>> /\ Cur(r)' = Head(taskQueue).about
    BY <2>1, <2>0, LockedPrefix DEF TypeInv, TypeOK, Cur
  <2>6. \A s \in Replica : s # r => pc'[s] = pc[s] /\ batch'[s] = batch[s]
    BY <2>1 DEF TypeInv, TypeOK
  <2> QED
    BY <1>2, <2>2, <2>3, <2>4, <2>5, <2>6
    DEF TypeInv, ReceiveTasks, Cur, TaskMessages, rowVars
<1>3. CASE CompleteMessage(r)
  <2>1. batch[r] \in Seq(Message) /\ batch[r] # <<>>
    BY <1>3 DEF TypeInv, TypeOK, CompleteMessage
  <2>2. Tail(batch[r]) \in Seq(Message)
    BY <2>1, HeadTailProperties
  <2>3. TypeOK'
    BY <1>3, <2>2, FirstStepTyped
    DEF TypeInv, TypeOK, CompleteMessage, Goto, rowVars
  <2> QED
    BY ZenonT(40), <1>3, <2>2, <2>3, FirstStepTyped
    DEF TypeInv, TypeOK, CompleteMessage, Goto, Cur, rowVars
<1> QED
  BY <1>1, <1>2, <1>3

\* The two steps that publish to the task queue.
LEMMA TypePublish ==
  ASSUME TypeInv, NEW r \in Replica, PublishTask(r) \/ RequeueNotReady(r)
  PROVE  TypeInv'
<1> USE DEF Steps, HeartbeatSteps, TaskSteps, DispatchSteps, FailureSteps
<1>1. CASE PublishTask(r)
  BY <1>1, Appended DEF TypeInv, TypeOK, PublishTask, rowVars, Cur
<1>2. CASE RequeueNotReady(r)
  <2>1. Cur(r) \in Task /\ batch[r] \in Seq(Message) /\ batch[r] # <<>>
    BY <1>2 DEF TypeInv, TypeOK, RequeueNotReady
  <2>2. Head(batch[r]).requeues + 1 \in Nat
    <3>1. Head(batch[r]) \in Message
      BY <2>1, HeadTailProperties
    <3> QED
      BY <3>1 DEF Message
  <2> QED
    BY <1>2, <2>1, <2>2, Appended
    DEF TypeInv, TypeOK, RequeueNotReady, Goto, rowVars, localVars, Cur
<1> QED
  BY <1>1, <1>2

\* The steps that leave every queue and batch alone.
LEMMA TypeLocal ==
  ASSUME TypeInv, NEW r \in Replica,
         \/ InsertTaskBatch(r) \/ HeartbeatHandled(r) \/ DispatchTask(r)
         \/ HandleFailure(r) /\ ~ RequeueNotReady(r)
  PROVE  TypeInv'
<1> USE DEF Steps, HeartbeatSteps, TaskSteps, DispatchSteps, FailureSteps
<1>1. CASE InsertTaskBatch(r)
  BY <1>1 DEF TypeInv, TypeOK, InsertTaskBatch, Goto, busVars, Cur, TaskStates, Reasons
<1>2. CASE HeartbeatHandled(r)
  BY <1>2 DEF TypeInv, TypeOK, HeartbeatHandled, Goto, rowVars, busVars, localVars, Cur
<1>3. CASE DispatchTask(r)
  <2>1. CASE GateCleared(r) \/ DuplicateDropped(r) \/ NotDispatchable(r)
    BY <2>1
    DEF TypeInv, TypeOK, GateCleared, DuplicateDropped, NotDispatchable, Goto,
        rowVars, busVars, localVars, Cur
  <2>2. CASE FindBlockedDependency(r)
    BY <2>2
    DEF TypeInv, TypeOK, FindBlockedDependency, Goto, rowVars, busVars, localVars, Cur
  <2>3. CASE StartTask(r) \/ HandlerCompletes(r) \/ HandlerBlocks(r)
    <3> USE DEF TypeInv, TypeOK, Transition, Goto, busVars, localVars, Cur,
                TaskStates, Reasons
    <3>1. CASE StartTask(r)
      BY <3>1 DEF StartTask
    <3>2. CASE HandlerCompletes(r)
      BY <3>2 DEF HandlerCompletes
    <3>3. CASE HandlerBlocks(r)
      BY <3>3 DEF HandlerBlocks
    <3> QED
      BY <2>3, <3>1, <3>2, <3>3
  <2>4. CASE HandlerRaises(r)
    BY <2>4 DEF TypeInv, TypeOK, HandlerRaises, Goto, rowVars, busVars, Cur
  <2>5. CASE SelectPendingDependents(r) \/ CountCompletedDeps(r)
    <3>1. todo' \in [Replica -> SUBSET Task]
      <4>1. \E D \in SUBSET Task : todo' = [todo EXCEPT ![r] = D]
        <5>1. CASE SelectPendingDependents(r)
          BY <5>1 DEF SelectPendingDependents
        <5>2. CASE CountCompletedDeps(r)
          <6>1. todo[r] \in SUBSET Task
            BY DEF TypeInv, TypeOK
          <6> QED
            BY <5>2, <6>1 DEF CountCompletedDeps
        <5> QED
          BY <2>5, <5>1, <5>2
      <4> QED
        BY <4>1 DEF TypeInv, TypeOK
    <3>2. /\ pc[r] \in TaskSteps /\ pc' \in [Replica -> Steps]
          /\ \A s \in Replica : s # r => pc'[s] = pc[s]
      <4>1. /\ pc[r] \in TaskSteps
            /\ \E p \in {"count", "complete", "advance"} : pc' = [pc EXCEPT ![r] = p]
        BY <2>5 DEF SelectPendingDependents, CountCompletedDeps, Goto
      <4> QED
        BY <4>1 DEF TypeInv, TypeOK
    <3>3. UNCHANGED <<rowVars, busVars, strike, looping, alerts, faults>>
      BY <2>5 DEF SelectPendingDependents, CountCompletedDeps
    <3>4. TypeOK'
      BY <3>1, <3>2, <3>3 DEF TypeInv, TypeOK, rowVars, busVars
    <3>5. \A s \in Replica : Cur(s)' = Cur(s) /\ batch'[s] = batch[s]
      BY <3>3 DEF busVars, Cur
    <3>6. \A s \in Replica : /\ pc'[s] # "idle" => batch'[s] # <<>>
                             /\ pc'[s] \in TaskSteps => Cur(s)' \in Task
      BY <3>2, <3>5 DEF TypeInv
    <3> HIDE DEF Steps, HeartbeatSteps, TaskSteps, DispatchSteps, FailureSteps
    <3> QED
      BY <3>3, <3>4, <3>6 DEF TypeInv, rowVars, busVars
  <2>6. CASE AdvanceDependent(r)
    BY SMTT(30), <2>6
    DEF TypeInv, TypeOK, AdvanceDependent, Transition, Goto, busVars, Cur,
        TaskStates, Reasons
  <2> QED
    BY <1>3, <2>1, <2>2, <2>3, <2>4, <2>5, <2>6 DEF DispatchTask
<1>4. CASE HandleFailure(r) /\ ~ RequeueNotReady(r)
  <2>1. CASE GiveUpNotReady(r) \/ FailureIgnored(r) \/ FailureAccepted(r)
    BY <2>1
    DEF TypeInv, TypeOK, GiveUpNotReady, FailureIgnored, FailureAccepted, Goto,
        rowVars, busVars, localVars, Cur
  <2>2. CASE IncrementRetry(r)
    <3>1. Cur(r) \in Task /\ retryCount[Cur(r)] + 1 \in Nat
      BY <2>2 DEF TypeInv, TypeOK, IncrementRetry
    <3>2. retryCount' \in [Task -> Nat] /\ strike' \in [Replica -> Nat]
      BY <2>2, <3>1 DEF TypeInv, TypeOK, IncrementRetry
    <3>3. pc' = [pc EXCEPT ![r] = "rf_move"] /\ pc[r] = "rf_incr"
          /\ UNCHANGED <<state, reasons, busVars, todo, looping, alerts, faults>>
      BY <2>2 DEF IncrementRetry, Goto
    <3> QED
      BY <3>1, <3>2, <3>3 DEF TypeInv, TypeOK, busVars, Cur
  <2>3. CASE ScheduleRetry(r) \/ DeadLetter(r) \/ CascadeDeadLetter(r)
    <3> USE DEF TypeInv, TypeOK, Transition, Goto, busVars, localVars, Cur,
                TaskStates, Reasons
    <3>1. CASE ScheduleRetry(r)
      BY <3>1 DEF ScheduleRetry
    <3>2. CASE DeadLetter(r)
      BY <3>2 DEF DeadLetter
    <3>3. CASE CascadeDeadLetter(r)
      BY <3>3 DEF CascadeDeadLetter
    <3> QED
      BY <2>3, <3>1, <3>2, <3>3
  <2>4. CASE CascadeIgnored(r) \/ CascadeAccepted(r)
    BY <2>4
    DEF TypeInv, TypeOK, CascadeIgnored, CascadeAccepted, Goto, rowVars, busVars,
        localVars, Cur
  <2>5. CASE EmitAlert(r)
    BY SMTT(30), <2>5 DEF TypeInv, TypeOK, EmitAlert, Goto, rowVars, busVars, localVars, Cur
  <2> QED
    BY <1>4, <2>1, <2>2, <2>3, <2>4, <2>5 DEF HandleFailure
<1> QED
  BY <1>1, <1>2, <1>3, <1>4

\* A message goes back to its queue when its lock expires.
LEMMA TypePutBack ==
  ASSUME TypeInv, NEW m \in Message, PutBack(m)
  PROVE  /\ eventQueue' \in Seq(Message) /\ taskQueue' \in Seq(Message)
         /\ TaskMessages(taskQueue')
<1>1. m.about \in Task \cup {Heartbeat}
  BY DEF Message
<1> QED
  BY ZenonT(40), <1>1, Prepended DEF TypeInv, TypeOK, PutBack

\* An expired lock changes no message that a replica holds but for its flag.
LEMMA LockExpiryKeepsHead ==
  ASSUME TypeInv, NEW r \in Replica, LockExpires(r)
  PROVE  /\ batch' \in [Replica -> Seq(Message)]
         /\ \A s \in Replica : Cur(s)' = Cur(s)
         /\ \A s \in Replica : batch[s] # <<>> => batch'[s] # <<>>
<1>1. PICK i \in 1..Len(batch[r]) : batch' = [batch EXCEPT ![r][i].locked = FALSE]
  BY DEF LockExpires
<1>2. batch[r] \in Seq(Message) /\ batch[r][i] \in Message
  BY ElementOfSeq DEF TypeInv, TypeOK
<1> DEFINE m == [batch[r][i] EXCEPT !.locked = FALSE]
           b == [batch[r] EXCEPT ![i] = m]
<1>3. m \in Message /\ m.about = batch[r][i].about
  BY <1>2 DEF Message
<1>4. batch' = [batch EXCEPT ![r] = b]
  BY <1>1
<1> HIDE DEF m
<1>5. /\ b \in Seq(Message) /\ Len(b) = Len(batch[r])
      /\ \A j \in 1..Len(batch[r]) : b[j] = IF j = i THEN m ELSE batch[r][j]
  BY <1>2, <1>3, ExceptSeq
<1>6. b # <<>> /\ Head(b).about = Head(batch[r]).about
  <2>1. Len(b) \in Nat /\ Len(b) > 0
    BY <1>2, <1>5
  <2>2. b # <<>> /\ batch[r] # <<>> /\ Head(b) = b[1] /\ Head(batch[r]) = batch[r][1]
    BY <1>2, <1>5, <2>1
  <2> QED
    BY <1>3, <1>5, <2>1, <2>2
<1> HIDE DEF b
<1> QED
  BY <1>4, <1>5, <1>6 DEF TypeInv, TypeOK, Cur

LEMMA FaultCounted ==
  ASSUME TypeOK, NEW kind \in FaultKinds, Fault(kind)
  PROVE  faults' \in [FaultKinds -> Nat]
BY DEF TypeOK, Fault

LEMMA TypeFaults ==
  ASSUME TypeInv, OrphanReturns \/ \E r \in Replica : Faulty(r)
  PROVE  TypeInv'
<1> USE DEF Steps, HeartbeatSteps, TaskSteps, DispatchSteps, FailureSteps
<1>1. CASE OrphanReturns
  <2>1. Head(orphaned) \in Message /\ Tail(orphaned) \in Seq(Message)
    BY <1>1, HeadTailProperties DEF OrphanReturns, TypeInv, TypeOK
  <2>2. /\ eventQueue' \in Seq(Message) /\ taskQueue' \in Seq(Message)
        /\ TaskMessages(taskQueue')
    BY <1>1, <2>1, TypePutBack DEF OrphanReturns, TypeInv, TypeOK
  <2> QED
    BY <1>1, <2>1, <2>2 DEF OrphanReturns, TypeInv, TypeOK, rowVars, localVars, Cur
<1>2. ASSUME NEW r \in Replica, StepRaises(r) PROVE TypeInv'
  <2>1. faults' \in [FaultKinds -> Nat]
    BY <1>2, FaultCounted DEF StepRaises, TypeInv, FaultKinds
  <2>2. /\ pc' \in [Replica -> Steps] /\ pc[r] # "idle"
        /\ pc'[r] = "rf_read" => pc[r] \in TaskSteps
        /\ pc'[r] \in {"rf_read", "complete"}
        /\ \A s \in Replica : s # r => pc'[s] = pc[s]
    BY <1>2, DispatchAssumption DEF StepRaises, Goto, TypeInv, TypeOK
  <2>3. /\ looping' \in [Replica -> BOOLEAN] /\ todo' \in [Replica -> SUBSET Task]
    BY <1>2 DEF StepRaises, TypeInv, TypeOK
  <2>4. UNCHANGED <<rowVars, busVars, strike, alerts>>
    BY <1>2 DEF StepRaises
  <2> QED
    BY <2>1, <2>2, <2>3, <2>4 DEF TypeInv, TypeOK, TaskMessages, rowVars, busVars, Cur
<1>3. ASSUME NEW r \in Replica, Crash(r) PROVE TypeInv'
  <2>1. orphaned \o batch[r] \in Seq(Message) /\ <<>> \in Seq(Message)
    BY ConcatProperties DEF TypeInv, TypeOK
  <2>2. faults' \in [FaultKinds -> Nat]
    BY <1>3, FaultCounted DEF Crash, TypeInv, FaultKinds
  <2>3. TypeOK'
    BY <1>3, <2>1, <2>2 DEF Crash, Goto, TypeInv, TypeOK, rowVars
  <2> QED
    BY <1>3, <2>3 DEF Crash, Goto, TypeInv, TypeOK, TaskMessages, Cur, rowVars
<1>4. ASSUME NEW r \in Replica, LockExpires(r) PROVE TypeInv'
  <2>1. /\ eventQueue' \in Seq(Message) /\ taskQueue' \in Seq(Message)
        /\ TaskMessages(taskQueue')
    <3>1. PICK i \in 1..Len(batch[r]) : PutBack(batch[r][i])
      BY <1>4 DEF LockExpires
    <3>2. batch[r][i] \in Message
      BY ElementOfSeq DEF TypeInv, TypeOK
    <3> QED
      BY <3>1, <3>2, TypePutBack
  <2>2. faults' \in [FaultKinds -> Nat]
    BY <1>4, FaultCounted DEF LockExpires, TypeInv, FaultKinds
  <2>3. TypeOK'
    BY <1>4, <2>1, <2>2, LockExpiryKeepsHead
    DEF LockExpires, TypeInv, TypeOK, rowVars, localVars
  <2> QED
    BY <1>4, <2>1, <2>3, LockExpiryKeepsHead
    DEF LockExpires, TypeInv, TaskMessages, Cur, rowVars
<1> QED
  BY <1>1, <1>2, <1>3, <1>4 DEF Faulty

LEMMA TypeStep == TypeInv /\ [Next]_vars => TypeInv'
<1> SUFFICES ASSUME TypeInv, [Next]_vars PROVE TypeInv'
  OBVIOUS
<1>1. ASSUME NEW r \in Replica, Step(r) PROVE TypeInv'
  BY <1>1, TypeReceive, TypePublish, TypeLocal DEF Step, HandleHeartbeat, HandleFailure
<1>2. CASE UNCHANGED vars
  BY <1>2
  DEF TypeInv, TypeOK, TaskMessages, Cur, vars, rowVars, busVars, localVars
<1> QED
  BY <1>1, <1>2, TypeFaults DEF Next, Quiet

\* Every reachable state is well typed, in particular every message that is
\* handled as a task's is about a task.
THEOREM TypeCorrect == Spec => []TypeOK
<1>1. TypeInv => TypeOK
  BY DEF TypeInv
<1> QED
  BY <1>1, TypeInit, TypeStep, PTL DEF Spec

\* A replica's step is about itself: the others stay where they are.
LEMMA StepIsLocal ==
  ASSUME TypeInv, NEW r \in Replica, Step(r)
  PROVE  \A s \in Replica : s # r =>
           /\ pc'[s] = pc[s] /\ batch'[s] = batch[s] /\ todo'[s] = todo[s]
           /\ looping'[s] = looping[s] /\ strike'[s] = strike[s]
BY DEF Step, TypeInv, TypeOK, Goto, localVars, busVars, HandleHeartbeat, DispatchTask,
       HandleFailure, ReceiveEvents, ReceiveTasks, CompleteMessage, InsertTaskBatch,
       PublishTask, HeartbeatHandled, GateCleared, DuplicateDropped, NotDispatchable,
       FindBlockedDependency, StartTask, HandlerCompletes, HandlerBlocks,
       HandlerRaises, SelectPendingDependents, CountCompletedDeps, AdvanceDependent,
       RequeueNotReady, GiveUpNotReady, FailureIgnored, FailureAccepted,
       IncrementRetry, ScheduleRetry, DeadLetter, CascadeIgnored, CascadeAccepted,
       CascadeDeadLetter, EmitAlert

-----------------------------------------------------------------------------
(* The gate *)

\* An exception in the two reads of the gate sends the task to the retry loop,
\* which calls the handler without asking again.
GateReadsSucceed == FaultySteps \cap {"check", "deps"} = {}

DepsDone(t) == \A d \in Deps[t] : "completed" \in reasons[d]

\* The rows remember what the gate has seen: reasons only grow, a dispatchable
\* row and every replica past the gate have their dependencies behind them.
GateRow(t) ==
  /\ state[t] = "completed" => "completed" \in reasons[t]
  /\ state[t] = "dispatchable" => DepsDone(t)
  /\ reasons[t] \cap {"dispatched", "completed"} # {} => DepsDone(t)

GateReplica(r) ==
  /\ pc[r] = "idle" => ~ looping[r]
  /\ pc[r] \in {"start", "handler", "select", "count", "advance"}
       => DepsDone(Cur(r))
  /\ looping[r] /\ pc[r] \in TaskSteps => DepsDone(Cur(r))
  /\ pc[r] = "advance" => \A t \in todo[r] : DepsDone(t)

GateInv ==
  /\ \A t \in Task : GateRow(t)
  /\ \A r \in Replica : GateReplica(r)

LEMMA GateInit == Init => GateInv
BY DispatchAssumption
DEF Init, Start, GateInv, GateRow, GateReplica, TaskSteps, DispatchSteps, FailureSteps

\* What has been recorded stays recorded.
LEMMA ReasonsGrow ==
  ASSUME TypeInv, [Next]_vars
  PROVE  \A t \in Task : reasons[t] \subseteq reasons'[t]
<1>1. \A r \in Replica : pc[r] \in TaskSteps => Cur(r) \in Task
  BY DEF TypeInv
<1>2. CASE UNCHANGED reasons
  BY <1>2
<1>3. ASSUME NEW r \in Replica, InsertTaskBatch(r)
      PROVE  \A t \in Task : reasons[t] \subseteq reasons'[t]
  BY <1>3 DEF InsertTaskBatch, TypeInv, TypeOK
<1>4. ASSUME NEW t, NEW to, NEW why, Transition(t, to, why)
      PROVE  \A u \in Task : reasons[u] \subseteq reasons'[u]
  BY <1>4 DEF Transition, TypeInv, TypeOK
<1>5. CASE \E r \in Replica :
         StartTask(r) \/ HandlerCompletes(r) \/ HandlerBlocks(r) \/ AdvanceDependent(r)
           \/ ScheduleRetry(r) \/ DeadLetter(r) \/ CascadeDeadLetter(r)
  BY <1>4, <1>5
  DEF StartTask, HandlerCompletes, HandlerBlocks, AdvanceDependent, ScheduleRetry,
      DeadLetter, CascadeDeadLetter
<1>6. \/ UNCHANGED reasons
      \/ \E r \in Replica : InsertTaskBatch(r)
      \/ \E r \in Replica :
         StartTask(r) \/ HandlerCompletes(r) \/ HandlerBlocks(r) \/ AdvanceDependent(r)
           \/ ScheduleRetry(r) \/ DeadLetter(r) \/ CascadeDeadLetter(r)
  <2>1. ASSUME NEW r \in Replica, Faulty(r) PROVE UNCHANGED reasons
    BY <2>1 DEF Faulty, StepRaises, Crash, LockExpires, rowVars
  <2>2. ASSUME OrphanReturns \/ Quiet \/ UNCHANGED vars PROVE UNCHANGED reasons
    BY <2>2 DEF OrphanReturns, Quiet, vars, rowVars
  <2>3. ASSUME NEW r \in Replica,
               ReceiveEvents(r) \/ ReceiveTasks(r) \/ CompleteMessage(r)
                 \/ PublishTask(r) \/ HeartbeatHandled(r)
        PROVE  UNCHANGED reasons
    BY <2>3
    DEF ReceiveEvents, ReceiveTasks, CompleteMessage, PublishTask, HeartbeatHandled, rowVars
  <2>4. ASSUME NEW r \in Replica,
               GateCleared(r) \/ DuplicateDropped(r) \/ NotDispatchable(r)
                 \/ FindBlockedDependency(r) \/ HandlerRaises(r)
                 \/ SelectPendingDependents(r) \/ CountCompletedDeps(r)
        PROVE  UNCHANGED reasons
    BY <2>4
    DEF GateCleared, DuplicateDropped, NotDispatchable, FindBlockedDependency,
        HandlerRaises, SelectPendingDependents, CountCompletedDeps, rowVars
  <2>5. ASSUME NEW r \in Replica,
               RequeueNotReady(r) \/ GiveUpNotReady(r) \/ FailureIgnored(r)
                 \/ FailureAccepted(r) \/ IncrementRetry(r) \/ CascadeIgnored(r)
                 \/ CascadeAccepted(r) \/ EmitAlert(r)
        PROVE  UNCHANGED reasons
    BY <2>5
    DEF RequeueNotReady, GiveUpNotReady, FailureIgnored, FailureAccepted,
        IncrementRetry, CascadeIgnored, CascadeAccepted, EmitAlert, rowVars
  <2> QED
    BY <2>1, <2>2, <2>3, <2>4, <2>5
    DEF Next, Step, HandleHeartbeat, DispatchTask, HandleFailure
<1> QED
  BY <1>2, <1>3, <1>5, <1>6

\* A row that keeps its state keeps its part of the invariant, and so does a
\* replica that does not move.
LEMMA GateKept ==
  ASSUME TypeInv, GateInv, [Next]_vars
  PROVE  /\ \A t \in Task : DepsDone(t) => DepsDone(t)'
         /\ \A t \in Task : state'[t] = state[t] /\ reasons'[t] = reasons[t]
                              => GateRow(t)'
         /\ \A r \in Replica :
              /\ pc'[r] = pc[r] /\ todo'[r] = todo[r] /\ looping'[r] = looping[r]
              /\ pc[r] # "idle" => Cur(r)' = Cur(r)
              => GateReplica(r)'
<1>1. \A t \in Task : DepsDone(t) => DepsDone(t)'
  BY ReasonsGrow, DispatchAssumption DEF DepsDone
<1>2. \A t \in Task : state'[t] = state[t] /\ reasons'[t] = reasons[t] => GateRow(t)'
  BY <1>1 DEF GateInv, GateRow
<1>3. ASSUME NEW r \in Replica,
             pc'[r] = pc[r], todo'[r] = todo[r], looping'[r] = looping[r],
             pc[r] # "idle" => Cur(r)' = Cur(r)
      PROVE  GateReplica(r)'
  <2>1. pc[r] \in TaskSteps => Cur(r) \in Task
    BY DEF TypeInv
  <2>2. todo[r] \subseteq Task
    BY DEF TypeInv, TypeOK
  <2> QED
    BY <1>1, <1>3, <2>1, <2>2
    DEF GateInv, GateReplica, TaskSteps, DispatchSteps, FailureSteps
<1> QED
  BY <1>1, <1>2, <1>3

\* One step of one replica, or a fault: the task it is about and the replica
\* itself are the only things to look at.
LEMMA GateReplicaStep ==
  ASSUME TypeInv, GateInv, GateReadsSucceed, NEW r \in Replica, Step(r)
  PROVE  GateInv'
<1> USE DEF TaskSteps, DispatchSteps, FailureSteps
<1>0. [Next]_vars
  BY DEF Next
<1>1. /\ pc[r] \in TaskSteps => Cur(r) \in Task
      /\ todo[r] \subseteq Task
      /\ state \in [Task -> TaskStates] /\ reasons \in [Task -> SUBSET Reasons]
      /\ pc \in [Replica -> Steps] /\ looping \in [Replica -> BOOLEAN]
      /\ todo \in [Replica -> SUBSET Task]
  BY DEF TypeInv, TypeOK
<1>2. /\ \A t \in Task : DepsDone(t) => DepsDone(t)'
      /\ \A t \in Task : GateRow(t)
      /\ GateReplica(r)
  BY <1>0, GateKept DEF GateInv
<1>3. \A s \in Replica : s # r => GateReplica(s)'
  <2>1. \A s \in Replica : s # r =>
          /\ pc'[s] = pc[s] /\ todo'[s] = todo[s] /\ looping'[s] = looping[s]
          /\ batch'[s] = batch[s]
    BY StepIsLocal
  <2> QED
    BY <1>0, <2>1, GateKept DEF Cur
<1>4. ASSUME UNCHANGED rowVars, GateReplica(r)' PROVE GateInv'
  BY <1>0, <1>3, <1>4, GateKept DEF GateInv, rowVars
<1>5. CASE ReceiveEvents(r) \/ ReceiveTasks(r) \/ CompleteMessage(r)
  <2>1. UNCHANGED rowVars
    BY <1>5 DEF ReceiveEvents, ReceiveTasks, CompleteMessage
  <2>2. looping'[r] = FALSE
    BY <1>1, <1>2, <1>5
    DEF ReceiveEvents, ReceiveTasks, CompleteMessage, localVars, GateReplica
  <2>3. pc'[r] \in {"idle", "insert", "rf_read", "check"}
    BY <1>1, <1>5 DEF ReceiveEvents, ReceiveTasks, CompleteMessage, Goto, FirstStep
  <2> QED
    BY <1>4, <2>1, <2>2, <2>3 DEF GateReplica
<1>6. CASE InsertTaskBatch(r)
  <2>1. \A t \in Task : GateRow(t)'
    BY <1>1, <1>2, <1>6, DispatchAssumption DEF InsertTaskBatch, GateRow, DepsDone
  <2>2. GateReplica(r)'
    BY <1>1, <1>6 DEF InsertTaskBatch, Goto, GateReplica
  <2> QED
    BY <1>3, <2>1, <2>2 DEF GateInv
<1>7. CASE PublishTask(r) \/ HeartbeatHandled(r)
  BY <1>1, <1>4, <1>7 DEF PublishTask, HeartbeatHandled, Goto, rowVars, localVars, GateReplica
<1>8. CASE \/ GateCleared(r) \/ DuplicateDropped(r) \/ NotDispatchable(r)
           \/ FindBlockedDependency(r)
  <2>1. /\ UNCHANGED <<rowVars, looping>> /\ Cur(r)' = Cur(r)
        /\ pc'[r] \in {"start", "complete", "deps", "cas_read", "not_ready"}
        /\ pc[r] \in TaskSteps
        /\ pc'[r] = "start" => state[Cur(r)] = "dispatchable"
    BY <1>1, <1>8
    DEF GateCleared, DuplicateDropped, NotDispatchable, FindBlockedDependency, Goto,
        localVars, busVars, Cur
  <2>2. GateReplica(r)'
    BY <1>1, <1>2, <2>1 DEF GateReplica, GateRow
  <2> QED
    BY <1>4, <2>1, <2>2
<1>9. ASSUME NEW t \in Task, NEW to, NEW why, Transition(t, to, why),
             to \notin {"absent", "dispatchable"},
             to = "completed" => why = "completed",
             why \in {"dispatched", "completed"} => DepsDone(t)
      PROVE  \A u \in Task : GateRow(u)'
  <2>1. state'[t] = to /\ reasons'[t] = reasons[t] \cup {why}
    BY <1>1, <1>9 DEF Transition
  <2>2. GateRow(t)'
    BY <1>2, <1>9, <2>1 DEF GateRow
  <2>3. \A u \in Task : u # t => state'[u] = state[u] /\ reasons'[u] = reasons[u]
    BY <1>1, <1>9 DEF Transition
  <2> QED
    BY <1>0, <2>2, <2>3, GateKept
<1>10. CASE StartTask(r) \/ HandlerCompletes(r) \/ HandlerBlocks(r)
  <2>1. /\ Cur(r) \in Task /\ DepsDone(Cur(r)) /\ Cur(r)' = Cur(r)
        /\ looping' = looping
        /\ pc'[r] \in {"handler", "select", "complete"}
    BY <1>1, <1>2, <1>10
    DEF StartTask, HandlerCompletes, HandlerBlocks, GateReplica, Goto, localVars,
        busVars, Cur
  <2>2. \A t \in Task : GateRow(t)'
    BY <1>9, <1>10, <2>1 DEF StartTask, HandlerCompletes, HandlerBlocks
  <2>3. GateReplica(r)'
    BY <1>2, <2>1 DEF GateReplica
  <2> QED
    BY <1>3, <2>2, <2>3 DEF GateInv
<1>11. CASE HandlerRaises(r) \/ SelectPendingDependents(r)
  <2>1. /\ UNCHANGED rowVars /\ Cur(r)' = Cur(r)
        /\ Cur(r) \in Task /\ DepsDone(Cur(r))
        /\ pc'[r] \in {"rf_read", "count"}
    BY <1>1, <1>2, <1>11
    DEF HandlerRaises, SelectPendingDependents, GateReplica, Goto, busVars, Cur
  <2> QED
    BY <1>2, <1>4, <2>1 DEF GateReplica
<1>12. CASE CountCompletedDeps(r)
  <2>1. /\ UNCHANGED rowVars /\ Cur(r)' = Cur(r)
        /\ Cur(r) \in Task /\ DepsDone(Cur(r))
        /\ pc'[r] \in {"complete", "advance"}
        /\ todo'[r] = {t \in todo[r] : DepsCompleted(t)}
    BY <1>1, <1>2, <1>12 DEF CountCompletedDeps, GateReplica, Goto, busVars, Cur
  <2>2. \A t \in Task : DepsCompleted(t) => DepsDone(t)
    BY <1>2, DispatchAssumption DEF DepsCompleted, DepsDone, GateRow
  <2> QED
    BY <1>1, <1>2, <1>4, <2>1, <2>2 DEF GateReplica
<1>13. CASE AdvanceDependent(r)
  <2>1. PICK t \in todo[r] :
          /\ Transition(t, "dispatchable", "dependency_satisfied")
          /\ todo' = [todo EXCEPT ![r] = @ \ {t}]
    BY <1>13 DEF AdvanceDependent
  <2>2. /\ Cur(r) \in Task /\ DepsDone(Cur(r)) /\ Cur(r)' = Cur(r)
        /\ t \in Task /\ DepsDone(t) /\ todo'[r] \subseteq todo[r]
        /\ \A u \in todo[r] : DepsDone(u)
        /\ looping' = looping
        /\ pc'[r] \in {"complete", "advance"}
    BY <1>1, <1>2, <1>13, <2>1 DEF AdvanceDependent, GateReplica, Goto, busVars, Cur
  <2>3. state'[t] = "dispatchable" /\ reasons'[t] = reasons[t] \cup {"dependency_satisfied"}
    BY <1>1, <2>1, <2>2 DEF Transition
  <2>4. \A u \in Task : u # t => state'[u] = state[u] /\ reasons'[u] = reasons[u]
    BY <1>1, <2>1, <2>2 DEF Transition
  <2>5. \A u \in Task : GateRow(u)'
    BY <1>0, <1>2, <2>2, <2>3, <2>4, GateKept DEF GateRow
  <2>6. GateReplica(r)'
    BY <1>1, <1>2, <2>2 DEF GateReplica
  <2> QED
    BY <1>3, <2>5, <2>6 DEF GateInv
<1>14. CASE \/ RequeueNotReady(r) \/ GiveUpNotReady(r) \/ FailureIgnored(r)
            \/ FailureAccepted(r) \/ CascadeIgnored(r) \/ CascadeAccepted(r)
            \/ EmitAlert(r)
  <2>1. /\ UNCHANGED rowVars /\ looping' = looping /\ Cur(r)' = Cur(r)
        /\ pc[r] \in TaskSteps
        /\ pc'[r] \in {"complete", "rf_read", "rf_incr", "cas_move"}
    BY <1>1, <1>14
    DEF RequeueNotReady, GiveUpNotReady, FailureIgnored, FailureAccepted,
        CascadeIgnored, CascadeAccepted, EmitAlert, Goto, localVars, busVars, Cur
  <2> QED
    BY <1>1, <1>2, <1>4, <2>1 DEF GateReplica
<1>15. CASE IncrementRetry(r)
  <2>1. /\ state' = state /\ reasons' = reasons /\ looping' = looping /\ Cur(r)' = Cur(r)
        /\ pc[r] \in TaskSteps /\ pc'[r] = "rf_move"
    BY <1>1, <1>15 DEF IncrementRetry, Goto, busVars, Cur
  <2>2. GateReplica(r)'
    BY <1>1, <1>2, <2>1 DEF GateReplica
  <2> QED
    BY <1>0, <1>3, <2>1, <2>2, GateKept DEF GateInv
<1>16. CASE ScheduleRetry(r) \/ DeadLetter(r) \/ CascadeDeadLetter(r)
  <2>1. /\ pc[r] \in TaskSteps /\ Cur(r) \in Task /\ Cur(r)' = Cur(r)
        /\ looping' = looping
        /\ pc'[r] \in {"complete", "handler", "start", "alert"}
        /\ pc'[r] \in {"handler", "start"} => looping[r]
    BY <1>1, <1>16
    DEF ScheduleRetry, DeadLetter, CascadeDeadLetter, Goto, localVars, busVars, Cur
  <2>2. \A t \in Task : GateRow(t)'
    BY <1>9, <1>16, <2>1 DEF ScheduleRetry, DeadLetter, CascadeDeadLetter
  <2>3. GateReplica(r)'
    BY <1>2, <2>1 DEF GateReplica
  <2> QED
    BY <1>3, <2>2, <2>3 DEF GateInv
<1> QED
  BY <1>5, <1>6, <1>7, <1>8, <1>10, <1>11, <1>12, <1>13, <1>14, <1>15, <1>16
  DEF Step, HandleHeartbeat, DispatchTask, HandleFailure

LEMMA GateFaults ==
  ASSUME TypeInv, GateInv, GateReadsSucceed, OrphanReturns \/ \E r \in Replica : Faulty(r)
  PROVE  GateInv'
<1> USE DEF TaskSteps, DispatchSteps, FailureSteps
<1>0. [Next]_vars
  BY DEF Next
<1>1. /\ pc \in [Replica -> Steps] /\ looping \in [Replica -> BOOLEAN]
      /\ todo \in [Replica -> SUBSET Task] /\ batch \in [Replica -> Seq(Message)]
  BY DEF TypeInv, TypeOK
<1>2. UNCHANGED rowVars
  BY DEF OrphanReturns, Faulty, StepRaises, Crash, LockExpires
<1>3. ASSUME NEW r \in Replica, GateReplica(r)',
             \A s \in Replica : s # r =>
               /\ pc'[s] = pc[s] /\ todo'[s] = todo[s] /\ looping'[s] = looping[s]
               /\ batch'[s] = batch[s]
      PROVE  GateInv'
  <2>1. \A s \in Replica : s # r => GateReplica(s)'
    BY <1>0, <1>3, GateKept DEF Cur
  <2> QED
    BY <1>0, <1>2, <1>3, <2>1, GateKept DEF GateInv, rowVars
<1>4. CASE OrphanReturns
  BY <1>0, <1>2, <1>4, GateKept DEF OrphanReturns, GateInv, rowVars, localVars, Cur
<1>5. ASSUME NEW r \in Replica, StepRaises(r) PROVE GateInv'
  <2>1. /\ pc[r] \in HeartbeatSteps \cup TaskSteps
        /\ pc[r] \notin {"check", "deps"}
    BY <1>5, DispatchAssumption DEF StepRaises, GateReadsSucceed
  <2>2. /\ Cur(r)' = Cur(r) /\ pc'[r] \in {"rf_read", "complete"}
        /\ pc'[r] = "rf_read" => pc[r] \in DispatchSteps
    BY <1>1, <1>5 DEF StepRaises, Goto, busVars, Cur
  <2>3. pc'[r] = "rf_read" => DepsDone(Cur(r))
    BY <2>1, <2>2 DEF GateInv, GateReplica
  <2>4. GateReplica(r)'
    BY <1>2, <2>2, <2>3 DEF GateReplica, DepsDone, rowVars
  <2> QED
    BY <1>1, <1>3, <1>5, <2>4 DEF StepRaises, Goto, busVars
<1>6. ASSUME NEW r \in Replica, Crash(r) PROVE GateInv'
  <2>1. GateReplica(r)'
    BY <1>1, <1>6 DEF Crash, Goto, GateReplica
  <2> QED
    BY <1>1, <1>3, <1>6, <2>1 DEF Crash, Goto
<1>7. ASSUME NEW r \in Replica, LockExpires(r) PROVE GateInv'
  <2>1. UNCHANGED <<pc, todo, looping>> /\ \A s \in Replica : Cur(s)' = Cur(s)
    BY <1>7, LockExpiryKeepsHead DEF LockExpires, localVars
  <2> QED
    BY <1>0, <1>2, <2>1, GateKept DEF GateInv, rowVars
<1> QED
  BY <1>4, <1>5, <1>6, <1>7 DEF Faulty

LEMMA GateStep == TypeInv /\ GateInv /\ GateReadsSucceed /\ [Next]_vars => GateInv'
<1> SUFFICES ASSUME TypeInv, GateInv, GateReadsSucceed, [Next]_vars PROVE GateInv'
  OBVIOUS
<1>1. CASE UNCHANGED vars
  BY <1>1, GateKept DEF GateInv, vars, rowVars, busVars, localVars, Cur
<1> QED
  BY <1>1, GateReplicaStep, GateFaults DEF Next, Quiet

\* F-DISPATCH-GATE, for every loop, number of replicas, duplicated heartbeat,
\* redelivery and crash: no handler runs before the dependencies of its task
\* have completed, as long as the two reads of the gate do not raise.
THEOREM GateSafe == ASSUME GateReadsSucceed PROVE Spec => []GateRespected
<1>1. GateInv => GateRespected
  BY DEF GateInv, GateRow, GateRespected, DepsDone
<1>2. Init => TypeInv /\ GateInv
  BY TypeInit, GateInit
<1>3. TypeInv /\ GateInv /\ [Next]_vars => (TypeInv /\ GateInv)'
  BY TypeStep, GateStep
<1> QED
  BY <1>1, <1>2, <1>3, PTL DEF Spec

-----------------------------------------------------------------------------
(* The cascade *)

BlockedDep(t) == \E d \in Deps[t] : reasons[d] \cap BlockReasons # {}

\* A blocked row has the reason on record, and a replica cascades only a task
\* that has such a row among its dependencies.
CascadeRow(t) ==
  /\ state[t] \in PermanentlyBlocked => reasons[t] \cap BlockReasons # {}
  /\ "dependency_dead_lettered" \in reasons[t] => BlockedDep(t)

CascadeReplica(r) == pc[r] \in {"cas_read", "cas_move"} => BlockedDep(Cur(r))

CascadeInv ==
  /\ \A t \in Task : CascadeRow(t)
  /\ \A r \in Replica : CascadeReplica(r)

LEMMA CascadeInit == Init => CascadeInv
BY DEF Init, Start, CascadeInv, CascadeRow, CascadeReplica, PermanentlyBlocked

LEMMA CascadeKept ==
  ASSUME TypeInv, CascadeInv, [Next]_vars
  PROVE  /\ \A t \in Task : BlockedDep(t) => BlockedDep(t)'
         /\ \A t \in Task : state'[t] = state[t] /\ reasons'[t] = reasons[t]
                              => CascadeRow(t)'
         /\ \A r \in Replica :
              pc'[r] = pc[r] /\ (pc[r] # "idle" => Cur(r)' = Cur(r)) => CascadeReplica(r)'
<1>1. \A t \in Task : BlockedDep(t) => BlockedDep(t)'
  BY ReasonsGrow, DispatchAssumption DEF BlockedDep
<1>2. \A t \in Task : state'[t] = state[t] /\ reasons'[t] = reasons[t] => CascadeRow(t)'
  BY <1>1 DEF CascadeInv, CascadeRow
<1>3. ASSUME NEW r \in Replica, pc'[r] = pc[r], pc[r] # "idle" => Cur(r)' = Cur(r)
      PROVE  CascadeReplica(r)'
  <2>1. pc[r] \in {"cas_read", "cas_move"} => Cur(r) \in Task
    BY DEF TypeInv, TaskSteps, FailureSteps
  <2> QED
    BY <1>1, <1>3, <2>1 DEF CascadeInv, CascadeReplica
<1> QED
  BY <1>1, <1>2, <1>3

\* A step of a replica: most write no row, the others write the reason with it.
LEMMA CascadeReplicaStep ==
  ASSUME TypeInv, CascadeInv, NEW r \in Replica, Step(r)
  PROVE  CascadeInv'
<1> USE DEF TaskSteps, DispatchSteps, FailureSteps
<1>0. [Next]_vars
  BY DEF Next
<1>1. /\ pc[r] \in TaskSteps => Cur(r) \in Task
      /\ todo[r] \subseteq Task
      /\ state \in [Task -> TaskStates] /\ reasons \in [Task -> SUBSET Reasons]
      /\ pc \in [Replica -> Steps]
  BY DEF TypeInv, TypeOK
<1>2. /\ \A t \in Task : BlockedDep(t) => BlockedDep(t)'
      /\ \A t \in Task : CascadeRow(t)
      /\ CascadeReplica(r)
  BY <1>0, CascadeKept DEF CascadeInv
<1>3. \A s \in Replica : s # r => CascadeReplica(s)'
  <2>1. \A s \in Replica : s # r => pc'[s] = pc[s] /\ batch'[s] = batch[s]
    BY StepIsLocal
  <2> QED
    BY <1>0, <2>1, CascadeKept DEF Cur
<1>4. ASSUME UNCHANGED <<state, reasons>>, CascadeReplica(r)' PROVE CascadeInv'
  BY <1>0, <1>3, <1>4, CascadeKept DEF CascadeInv
<1>5. ASSUME UNCHANGED <<state, reasons>>, pc'[r] \notin {"cas_read", "cas_move"}
      PROVE  CascadeInv'
  BY <1>4, <1>5 DEF CascadeReplica
<1>6. CASE \/ ReceiveEvents(r) \/ ReceiveTasks(r) \/ CompleteMessage(r)
           \/ PublishTask(r) \/ HeartbeatHandled(r)
  <2>1. pc'[r] \notin {"cas_read", "cas_move"}
    BY <1>1, <1>6
    DEF ReceiveEvents, ReceiveTasks, CompleteMessage, PublishTask, HeartbeatHandled,
        Goto, FirstStep
  <2> QED
    BY <1>5, <1>6, <2>1
    DEF ReceiveEvents, ReceiveTasks, CompleteMessage, PublishTask, HeartbeatHandled, rowVars
<1>7. CASE InsertTaskBatch(r)
  <2>1. \A t \in Task : CascadeRow(t)'
    BY <1>0, <1>1, <1>2, <1>7, CascadeKept
    DEF InsertTaskBatch, CascadeRow, PermanentlyBlocked
  <2>2. CascadeReplica(r)'
    BY <1>1, <1>7 DEF InsertTaskBatch, Goto, CascadeReplica
  <2> QED
    BY <1>3, <2>1, <2>2 DEF CascadeInv
<1>8. CASE FindBlockedDependency(r)
  <2>1. /\ UNCHANGED <<state, reasons>> /\ Cur(r)' = Cur(r) /\ Cur(r) \in Task
        /\ pc'[r] = IF \E d \in Deps[Cur(r)] : state[d] \in PermanentlyBlocked
                    THEN "cas_read" ELSE "not_ready"
    BY <1>1, <1>8 DEF FindBlockedDependency, Goto, rowVars, busVars, Cur
  <2>2. pc'[r] = "cas_read" => BlockedDep(Cur(r))
    BY <1>2, <2>1, DispatchAssumption DEF CascadeRow, BlockedDep
  <2>3. CascadeReplica(r)'
    BY <2>1, <2>2 DEF CascadeReplica, BlockedDep
  <2> QED
    BY <1>4, <2>1, <2>3
<1>9. CASE CascadeAccepted(r)
  <2>1. /\ UNCHANGED <<state, reasons>> /\ Cur(r)' = Cur(r) /\ BlockedDep(Cur(r))
    BY <1>2, <1>9 DEF CascadeAccepted, CascadeReplica, rowVars, busVars, Cur
  <2> QED
    BY <1>4, <2>1 DEF CascadeReplica, BlockedDep
<1>10. CASE \/ GateCleared(r) \/ DuplicateDropped(r) \/ NotDispatchable(r)
            \/ HandlerRaises(r) \/ SelectPendingDependents(r) \/ CountCompletedDeps(r)
            \/ RequeueNotReady(r) \/ GiveUpNotReady(r) \/ FailureIgnored(r)
            \/ FailureAccepted(r) \/ IncrementRetry(r) \/ CascadeIgnored(r) \/ EmitAlert(r)
  <2>1. UNCHANGED <<state, reasons>> /\ pc'[r] \notin {"cas_read", "cas_move"}
    BY <1>1, <1>10
    DEF GateCleared, DuplicateDropped, NotDispatchable, HandlerRaises,
        SelectPendingDependents, CountCompletedDeps, RequeueNotReady, GiveUpNotReady,
        FailureIgnored, FailureAccepted, IncrementRetry, CascadeIgnored, EmitAlert,
        Goto, rowVars
  <2> QED
    BY <1>5, <2>1
<1>11. ASSUME NEW t \in Task, NEW to, NEW why, Transition(t, to, why),
              to \in PermanentlyBlocked => why \in BlockReasons,
              why = "dependency_dead_lettered" => BlockedDep(t),
              pc'[r] \notin {"cas_read", "cas_move"}
       PROVE  CascadeInv'
  <2>1. state'[t] = to /\ reasons'[t] = reasons[t] \cup {why}
    BY <1>1, <1>11 DEF Transition
  <2>2. CascadeRow(t)'
    BY <1>2, <1>11, <2>1 DEF CascadeRow
  <2>3. \A u \in Task : u # t => state'[u] = state[u] /\ reasons'[u] = reasons[u]
    BY <1>1, <1>11 DEF Transition
  <2>4. \A u \in Task : CascadeRow(u)'
    BY <1>0, <2>2, <2>3, CascadeKept
  <2>5. CascadeReplica(r)'
    BY <1>11 DEF CascadeReplica
  <2> QED
    BY <1>3, <2>4, <2>5 DEF CascadeInv
<1> USE DEF PermanentlyBlocked, BlockReasons
<1>12. CASE StartTask(r) \/ HandlerCompletes(r) \/ HandlerBlocks(r)
  BY <1>1, <1>11, <1>12 DEF StartTask, HandlerCompletes, HandlerBlocks, Goto
<1>13. CASE AdvanceDependent(r)
  <2>1. pc'[r] \notin {"cas_read", "cas_move"}
    BY <1>1, <1>13 DEF AdvanceDependent, Goto
  <2>2. PICK t \in todo[r] : Transition(t, "dispatchable", "dependency_satisfied")
    BY <1>13 DEF AdvanceDependent
  <2> QED
    BY <1>1, <1>11, <2>1, <2>2
<1>14. CASE ScheduleRetry(r) \/ DeadLetter(r)
  BY <1>1, <1>11, <1>14 DEF ScheduleRetry, DeadLetter, Goto
<1>15. CASE CascadeDeadLetter(r)
  BY <1>1, <1>2, <1>11, <1>15 DEF CascadeDeadLetter, CascadeReplica, Goto
<1> QED
  BY <1>6, <1>7, <1>8, <1>9, <1>10, <1>12, <1>13, <1>14, <1>15
  DEF Step, HandleHeartbeat, DispatchTask, HandleFailure

LEMMA CascadeStep == TypeInv /\ CascadeInv /\ [Next]_vars => CascadeInv'
<1> SUFFICES ASSUME TypeInv, CascadeInv, [Next]_vars PROVE CascadeInv'
  OBVIOUS
<1>1. ASSUME NEW r \in Replica, StepRaises(r) \/ Crash(r) PROVE CascadeInv'
  <2>1. /\ UNCHANGED rowVars
        /\ pc'[r] \notin {"cas_read", "cas_move"}
        /\ \A s \in Replica : s # r => pc'[s] = pc[s] /\ batch'[s] = batch[s]
    BY <1>1 DEF StepRaises, Crash, Goto, busVars, TypeInv, TypeOK
  <2>2. \A s \in Replica : CascadeReplica(s)'
    BY <2>1, CascadeKept DEF CascadeReplica, Cur
  <2> QED
    BY <2>1, <2>2, CascadeKept DEF CascadeInv, rowVars
<1>2. ASSUME NEW r \in Replica, LockExpires(r) PROVE CascadeInv'
  BY <1>2, CascadeKept, LockExpiryKeepsHead DEF LockExpires, CascadeInv, rowVars
<1>3. CASE OrphanReturns \/ Quiet \/ UNCHANGED vars
  BY <1>3, CascadeKept
  DEF OrphanReturns, Quiet, CascadeInv, vars, rowVars, busVars, Cur
<1> QED
  BY <1>1, <1>2, <1>3, CascadeReplicaStep DEF Next, Faulty

-----------------------------------------------------------------------------
(* The wake-ups *)

\* Sequences of messages about members of A.
About(q, A) == \A i \in 1..Len(q) : q[i].about \in A

LEMMA AboutPrefix ==
  ASSUME NEW q \in Seq(Message), NEW A, About(q, A), NEW n \in 1..Len(q)
  PROVE  About(Locked(q, n), A) /\ About(SubSeq(q, n + 1, Len(q)), A)
<1>1. n \in Nat /\ Len(q) \in Nat /\ n <= Len(q)
  BY LenProperties
<1>2. \A i \in 1..n : q[i] \in Message
  BY <1>1, ElementOfSeq
<1>3. Len(Locked(q, n)) = n /\ \A i \in 1..n : Locked(q, n)[i].about = q[i].about
  <2>1. \A i \in 1..n : [q[i] EXCEPT !.locked = TRUE].about = q[i].about
    BY <1>2 DEF Message
  <2>2. Locked(q, n) \in [1..n -> Message]
    BY <1>2 DEF Locked, Message
  <2>3. Locked(q, n) \in Seq(Message) /\ Len(Locked(q, n)) = n
    BY <1>1, <2>2
  <2> QED
    BY <2>1, <2>3 DEF Locked
<1>4. \A i \in 1..Len(SubSeq(q, n + 1, Len(q))) :
        n + i \in 1..Len(q) /\ SubSeq(q, n + 1, Len(q))[i] = q[n + i]
  BY <1>1
<1> QED
  BY <1>1, <1>3, <1>4 DEF About

LEMMA AboutTail ==
  ASSUME NEW q \in Seq(Message), NEW A, About(q, A), q # <<>>
  PROVE  /\ About(Tail(q), A) /\ Head(q).about \in A
         /\ Tail(q) # <<>> => Head(Tail(q)).about \in A
<1>1. /\ Head(q) = q[1] /\ Len(q) \in Nat /\ Len(q) >= 1
      /\ Len(Tail(q)) = Len(q) - 1 /\ Tail(q) \in Seq(Message)
      /\ \A i \in 1..(Len(q) - 1) : Tail(q)[i] = q[i + 1]
  BY LenProperties
<1>2. About(Tail(q), A) /\ Head(q).about \in A
  BY <1>1 DEF About
<1>3. ASSUME Tail(q) # <<>> PROVE Head(Tail(q)).about \in A
  <2>1. Head(Tail(q)) = Tail(q)[1] /\ 1 \in 1..Len(Tail(q))
    BY <1>1, <1>3
  <2> QED
    BY <1>2, <2>1 DEF About
<1> QED
  BY <1>2, <1>3

LEMMA AboutConcat ==
  ASSUME NEW q \in Seq(Message), NEW p \in Seq(Message), NEW A
  PROVE  About(q \o p, A) <=> About(q, A) /\ About(p, A)
<1>1. /\ Len(q) \in Nat /\ Len(p) \in Nat /\ Len(q \o p) = Len(q) + Len(p)
      /\ \A i \in 1..(Len(q) + Len(p)) :
           (q \o p)[i] = IF i <= Len(q) THEN q[i] ELSE p[i - Len(q)]
  OBVIOUS
<1>2. ASSUME About(q \o p, A) PROVE About(q, A) /\ About(p, A)
  <2>1. About(q, A)
    BY <1>1, <1>2 DEF About
  <2>2. ASSUME NEW i \in 1..Len(p) PROVE p[i].about \in A
    <3>1. Len(q) + i \in 1..(Len(q) + Len(p)) /\ ~(Len(q) + i <= Len(q))
          /\ (Len(q) + i) - Len(q) = i
      BY <1>1
    <3> QED
      BY <1>1, <1>2, <3>1 DEF About
  <2> QED
    BY <2>1, <2>2 DEF About
<1>3. ASSUME About(q, A), About(p, A) PROVE About(q \o p, A)
  BY <1>1, <1>3 DEF About
<1> QED
  BY <1>2, <1>3

\* A message whose lock expires goes to the front of its own queue.
LEMMA AboutPutBack ==
  ASSUME TypeInv, NEW m \in Message, PutBack(m), NEW A, m.about \in A
  PROVE  /\ About(eventQueue, A) => About(eventQueue', A)
         /\ About(taskQueue, A) => About(taskQueue', A)
<1> DEFINE b == [m EXCEPT !.redelivered = TRUE, !.locked = FALSE]
<1>1. b \in Message /\ b.about = m.about
  BY DEF Message
<1> HIDE DEF b
<1>2. <<b>> \in Seq(Message) /\ About(<<b>>, A)
  BY <1>1 DEF About
<1>3. /\ eventQueue' = eventQueue \/ eventQueue' = <<b>> \o eventQueue
      /\ taskQueue' = taskQueue \/ taskQueue' = <<b>> \o taskQueue
  BY DEF PutBack, b
<1>4. ASSUME NEW q \in Seq(Message), NEW r, r = q \/ r = <<b>> \o q, About(q, A)
      PROVE  About(r, A)
  BY ZenonT(40), <1>2, <1>4, AboutConcat
<1>5. eventQueue \in Seq(Message) /\ taskQueue \in Seq(Message)
  BY DEF TypeInv, TypeOK
<1> HIDE DEF About
<1> QED
  BY <1>3, <1>4, <1>5

\* Only the flag of the message changes where it is held.
LEMMA AboutUnlocked ==
  ASSUME NEW q \in Seq(Message), NEW i \in 1..Len(q), NEW A, About(q, A)
  PROVE  About([q EXCEPT ![i].locked = FALSE], A)
<1>1. q[i] \in Message
  BY ElementOfSeq
<1>2. \A j \in 1..Len(q) : [q EXCEPT ![i].locked = FALSE][j].about = q[j].about
  BY <1>1 DEF Message
<1>3. Len([q EXCEPT ![i].locked = FALSE]) = Len(q)
  <2>1. [q[i] EXCEPT !.locked = FALSE] \in Message
    BY <1>1 DEF Message
  <2> QED
    BY <2>1, ExceptSeq
<1> QED
  BY <1>2, <1>3 DEF About

\* Before the heartbeat has inserted the rows no message is about a task, and
\* a row that is there is never absent again.
NothingYet ==
  /\ \A t \in Task : state[t] = "absent"
  /\ About(eventQueue, {Heartbeat}) /\ About(orphaned, {Heartbeat})
  /\ taskQueue = <<>>
  /\ \A r \in Replica :
       About(batch[r], {Heartbeat}) /\ pc[r] \in {"idle", "insert", "complete"}

Started == \A t \in Task : state[t] # "absent"

WakeInv == NoLostWakeup /\ (NothingYet \/ Started)

LEMMA WakeInit == Init => WakeInv
BY DispatchAssumption
DEF Init, Start, WakeInv, NothingYet, NoLostWakeup, About, NewMessage

LEMMA NothingYetStep ==
  ASSUME TypeInv, NothingYet, [Next]_vars
  PROVE  NothingYet' \/ (Started' /\ \E r \in Replica : InsertTaskBatch(r))
<1> DEFINE H == {Heartbeat}
<1>1. /\ pc \in [Replica -> Steps] /\ batch \in [Replica -> Seq(Message)]
      /\ eventQueue \in Seq(Message) /\ taskQueue \in Seq(Message) /\ orphaned \in Seq(Message)
      /\ state \in [Task -> TaskStates]
  BY DEF TypeInv, TypeOK
<1>2. ASSUME NEW r \in Replica, Step(r)
      PROVE  ReceiveEvents(r) \/ CompleteMessage(r) \/ InsertTaskBatch(r)
  <2>1. pc[r] \in {"idle", "insert", "complete"}
    BY DEF NothingYet
  <2>2. ~ReceiveTasks(r)
    BY DispatchAssumption DEF ReceiveTasks, NothingYet
  <2> QED
    BY <1>2, <2>1, <2>2
    DEF Step, HandleHeartbeat, DispatchTask, HandleFailure, PublishTask, HeartbeatHandled,
        GateCleared, DuplicateDropped, NotDispatchable, FindBlockedDependency, StartTask,
        HandlerCompletes, HandlerBlocks, HandlerRaises, SelectPendingDependents,
        CountCompletedDeps, AdvanceDependent, RequeueNotReady, GiveUpNotReady,
        FailureIgnored, FailureAccepted, IncrementRetry, ScheduleRetry, DeadLetter,
        CascadeIgnored, CascadeAccepted, CascadeDeadLetter, EmitAlert
<1>3. ASSUME NEW r \in Replica, ReceiveEvents(r) PROVE NothingYet'
  <2>1. PICK n \in 1..BatchMax :
          /\ n <= Len(eventQueue)
          /\ batch' = [batch EXCEPT ![r] = Locked(eventQueue, n)]
          /\ eventQueue' = SubSeq(eventQueue, n + 1, Len(eventQueue))
          /\ pc' = [pc EXCEPT ![r] = "insert"]
    BY <1>3 DEF ReceiveEvents, Goto
  <2>2. n \in 1..Len(eventQueue)
    BY <1>1, <2>1, DispatchAssumption, LenProperties
  <2>3. About(batch'[r], H) /\ About(eventQueue', H)
    BY <1>1, <2>1, <2>2, AboutPrefix DEF NothingYet
  <2> QED
    BY <1>1, <1>3, <2>1, <2>3 DEF NothingYet, ReceiveEvents, rowVars
<1>4. ASSUME NEW r \in Replica, CompleteMessage(r) PROVE NothingYet'
  <2>1. batch[r] # <<>> /\ batch[r] \in Seq(Message) /\ About(batch[r], H)
    BY <1>1, <1>4 DEF TypeInv, CompleteMessage, NothingYet
  <2>2. About(Tail(batch[r]), H) /\ FirstStep(Tail(batch[r])) \in {"idle", "insert"}
    BY <2>1, AboutTail DEF FirstStep
  <2> QED
    BY <1>1, <1>4, <2>2 DEF NothingYet, CompleteMessage, Goto, rowVars
<1>5. ASSUME NEW r \in Replica, InsertTaskBatch(r) PROVE Started'
  BY <1>1, <1>5 DEF InsertTaskBatch, Started
<1>6. ASSUME NEW r \in Replica, StepRaises(r) PROVE NothingYet'
  <2>1. pc'[r] = "complete"
    BY <1>1, <1>6, DispatchAssumption
    DEF StepRaises, Goto, NothingYet, HeartbeatSteps, TaskSteps, DispatchSteps, FailureSteps
  <2>2. /\ \A s \in Replica : s # r => pc'[s] = pc[s]
        /\ UNCHANGED <<rowVars, busVars>>
    BY <1>1, <1>6 DEF StepRaises, Goto
  <2> QED
    BY <2>1, <2>2 DEF NothingYet, rowVars, busVars
<1>7. ASSUME NEW r \in Replica, Crash(r) PROVE NothingYet'
  <2>1. About(orphaned', H) /\ About(<<>>, H)
    BY <1>1, <1>7, AboutConcat DEF Crash, NothingYet, About
  <2> QED
    BY <1>1, <1>7, <2>1 DEF Crash, Goto, NothingYet, rowVars
<1>8. ASSUME NEW m \in Message, m.about = Heartbeat, PutBack(m)
      PROVE  About(eventQueue', H) /\ taskQueue' = <<>>
  BY <1>8, AboutPutBack DEF NothingYet, PutBack
<1>9. ASSUME NEW r \in Replica, LockExpires(r) PROVE NothingYet'
  <2>1. PICK i \in 1..Len(batch[r]) :
          batch' = [batch EXCEPT ![r][i].locked = FALSE] /\ PutBack(batch[r][i])
    BY <1>9 DEF LockExpires
  <2>2. batch[r][i] \in Message /\ batch[r][i].about = Heartbeat /\ About(batch[r], H)
    BY <1>1, ElementOfSeq DEF NothingYet, About
  <2>3. About(eventQueue', H) /\ taskQueue' = <<>>
    BY <1>8, <2>1, <2>2
  <2>4. \A s \in Replica : About(batch'[s], H)
    <3>1. batch'[r] = [batch[r] EXCEPT ![i].locked = FALSE]
          /\ \A s \in Replica : s # r => batch'[s] = batch[s]
      BY <1>1, <2>1
    <3>2. About([batch[r] EXCEPT ![i].locked = FALSE], H)
      <4> HIDE DEF H
      <4>1. batch[r] \in Seq(Message) /\ i \in 1..Len(batch[r]) /\ About(batch[r], H)
        BY <1>1, <2>1, <2>2
      <4> QED
        BY <4>1, AboutUnlocked
    <3> QED
      BY <3>1, <3>2 DEF NothingYet
  <2> QED
    BY <1>9, <2>3, <2>4 DEF LockExpires, NothingYet, rowVars
<1>10. CASE OrphanReturns
  <2>1. /\ Head(orphaned) \in Message /\ Head(orphaned).about = Heartbeat
        /\ About(Tail(orphaned), H)
    BY <1>1, <1>10, AboutTail, HeadTailProperties DEF OrphanReturns, NothingYet
  <2>2. About(eventQueue', H) /\ taskQueue' = <<>>
    BY <1>8, <1>10, <2>1 DEF OrphanReturns, NothingYet
  <2> QED
    BY <1>10, <2>1, <2>2 DEF OrphanReturns, NothingYet, rowVars
<1>11. CASE UNCHANGED vars
  BY <1>11 DEF vars, rowVars, busVars, NothingYet
<1> QED
  BY <1>2, <1>3, <1>4, <1>5, <1>6, <1>7, <1>9, <1>10, <1>11 DEF Next, Faulty, Quiet

\* What a step does to the states of the rows.
LEMMA StateMoves ==
  ASSUME TypeInv, [Next]_vars
  PROVE  \/ UNCHANGED state
         \/ \E r \in Replica : InsertTaskBatch(r)
         \/ \E r \in Replica : HandlerCompletes(r)
         \/ \E t \in Task, to \in TaskStates \ {"absent", "pending", "completed"} :
              state' = [state EXCEPT ![t] = to]
<1> DEFINE Write(r) == StartTask(r) \/ HandlerBlocks(r) \/ AdvanceDependent(r)
                         \/ ScheduleRetry(r) \/ DeadLetter(r) \/ CascadeDeadLetter(r)
<1>1. ASSUME NEW r \in Replica, Write(r)
      PROVE  \E t \in Task, to \in TaskStates \ {"absent", "pending", "completed"} :
               state' = [state EXCEPT ![t] = to]
  <2>1. pc[r] \in TaskSteps => Cur(r) \in Task
    BY DEF TypeInv
  <2>2. todo[r] \subseteq Task
    BY DEF TypeInv, TypeOK
  <2> QED
    BY <1>1, <2>1, <2>2
    DEF StartTask, HandlerBlocks, AdvanceDependent, ScheduleRetry, DeadLetter,
        CascadeDeadLetter, Transition, TaskStates, TaskSteps, DispatchSteps, FailureSteps
<1>2. ASSUME NEW r \in Replica, Step(r)
      PROVE  UNCHANGED state \/ InsertTaskBatch(r) \/ HandlerCompletes(r) \/ Write(r)
  BY <1>2
  DEF Step, HandleHeartbeat, DispatchTask, HandleFailure, ReceiveEvents, ReceiveTasks,
      CompleteMessage, PublishTask, HeartbeatHandled, GateCleared, DuplicateDropped,
      NotDispatchable, FindBlockedDependency, HandlerRaises, SelectPendingDependents,
      CountCompletedDeps, RequeueNotReady, GiveUpNotReady, FailureIgnored,
      FailureAccepted, IncrementRetry, CascadeIgnored, CascadeAccepted, EmitAlert, rowVars
<1>3. CASE (\E r \in Replica : Faulty(r)) \/ OrphanReturns \/ UNCHANGED vars
  BY <1>3 DEF Faulty, StepRaises, Crash, LockExpires, OrphanReturns, vars, rowVars
<1> QED
  BY <1>1, <1>2, <1>3 DEF Next, Quiet

\* A replica that is on its way to advance t stays so until it has.
LEMMA WakerStays ==
  ASSUME TypeInv, NEW r \in Replica, Step(r), NEW t \in Task,
         WillAdvance(r, t), state[t] = "pending", state'[t] = "pending", DepsCompleted(t)
  PROVE  WillAdvance(r, t)'
<1>1. /\ pc \in [Replica -> Steps] /\ todo \in [Replica -> SUBSET Task]
      /\ state \in [Task -> TaskStates] /\ reasons \in [Task -> SUBSET Reasons]
      /\ pc[r] \in {"select", "count", "advance"}
  BY DEF TypeInv, TypeOK, WillAdvance
<1>2. SelectPendingDependents(r) \/ CountCompletedDeps(r) \/ AdvanceDependent(r)
  BY <1>1
  DEF Step, HandleHeartbeat, DispatchTask, HandleFailure, ReceiveEvents, ReceiveTasks,
      CompleteMessage, InsertTaskBatch, PublishTask, HeartbeatHandled, GateCleared,
      DuplicateDropped, NotDispatchable, FindBlockedDependency, StartTask,
      HandlerCompletes, HandlerBlocks, HandlerRaises, RequeueNotReady, GiveUpNotReady,
      FailureIgnored, FailureAccepted, IncrementRetry, ScheduleRetry, DeadLetter,
      CascadeIgnored, CascadeAccepted, CascadeDeadLetter, EmitAlert
<1>3. CASE SelectPendingDependents(r)
  BY <1>1, <1>3 DEF SelectPendingDependents, Goto, WillAdvance
<1>4. CASE CountCompletedDeps(r)
  <2>1. t \in todo[r]
    BY <1>4 DEF CountCompletedDeps, WillAdvance
  <2> QED
    BY <1>1, <1>4, <2>1 DEF CountCompletedDeps, Goto, WillAdvance
<1>5. CASE AdvanceDependent(r)
  <2>1. t \in todo[r]
    BY <1>5 DEF AdvanceDependent, WillAdvance
  <2>2. PICK u \in todo[r] :
          /\ Transition(u, "dispatchable", "dependency_satisfied")
          /\ todo' = [todo EXCEPT ![r] = @ \ {u}]
          /\ pc' = [pc EXCEPT ![r] = IF todo[r] = {u} THEN "complete" ELSE "advance"]
    BY <1>5 DEF AdvanceDependent, Goto
  <2>3. u # t
    BY <1>1, <2>2 DEF Transition
  <2> QED
    BY <1>1, <2>1, <2>2, <2>3 DEF WillAdvance
<1> QED
  BY <1>2, <1>3, <1>4, <1>5

\* The last dependency of a pending task completes: the replica that completes
\* it is next to select its dependents.
LEMMA CompletionWakes ==
  ASSUME TypeInv, NEW r \in Replica, HandlerCompletes(r), NEW t \in Task, Cur(r) \in Deps[t]
  PROVE  WillAdvance(r, t)'
BY DEF HandlerCompletes, Goto, TypeInv, TypeOK, WillAdvance, busVars, Cur

LEMMA WakeStep == TypeInv /\ WakeInv /\ [Next]_vars => WakeInv'
<1> SUFFICES ASSUME TypeInv, WakeInv, [Next]_vars PROVE WakeInv'
  OBVIOUS
<1>0. /\ state \in [Task -> TaskStates] /\ faults \in [FaultKinds -> Nat]
      /\ pc \in [Replica -> Steps] /\ \A t \in Task : Deps[t] \subseteq Task
  BY DispatchAssumption DEF TypeInv, TypeOK
<1>1. CASE NothingYet
  <2>1. ASSUME NEW r \in Replica, InsertTaskBatch(r) PROVE NoLostWakeup'
    <3>1. \A t \in Task : state'[t] = IF Deps[t] = {} THEN "dispatchable" ELSE "pending"
      BY <1>1, <2>1 DEF InsertTaskBatch, NothingYet
    <3> QED
      BY <1>0, <3>1 DEF NoLostWakeup, DepsCompleted
  <2>2. NothingYet' => NoLostWakeup'
    BY DEF NothingYet, NoLostWakeup
  <2> QED
    BY <1>1, <2>1, <2>2, NothingYetStep DEF WakeInv
<1>2. CASE Started
  <2>1. \A t \in Task : /\ state'[t] # "absent"
                        /\ state'[t] = "pending" => state[t] = "pending"
    BY <1>0, <1>2, StateMoves DEF Started, InsertTaskBatch, HandlerCompletes, Transition
  <2>2. ASSUME NEW t \in Task, state'[t] = "pending", DepsCompleted(t)',
               faults'["crash"] = 0, faults'["raise"] = 0
        PROVE  (\E r \in Replica : WillAdvance(r, t))'
    <3>1. \A r \in Replica : ~StepRaises(r) /\ ~Crash(r)
      BY <1>0, <2>2 DEF StepRaises, Crash, Fault, FaultKinds
    <3>2. faults["crash"] = 0 /\ faults["raise"] = 0
      <4>1. UNCHANGED faults \/ \E r \in Replica : LockExpires(r)
        BY <3>1
        DEF Next, Quiet, Faulty, vars, OrphanReturns, Step, HandleHeartbeat, DispatchTask,
            HandleFailure, ReceiveEvents, ReceiveTasks, CompleteMessage, InsertTaskBatch,
            PublishTask, HeartbeatHandled, GateCleared, DuplicateDropped, NotDispatchable,
            FindBlockedDependency, StartTask, HandlerCompletes, HandlerBlocks,
            HandlerRaises, SelectPendingDependents, CountCompletedDeps, AdvanceDependent,
            RequeueNotReady, GiveUpNotReady, FailureIgnored, FailureAccepted,
            IncrementRetry, ScheduleRetry, DeadLetter, CascadeIgnored, CascadeAccepted,
            CascadeDeadLetter, EmitAlert
      <4> QED
        BY <1>0, <2>2, <4>1 DEF LockExpires, Fault, FaultKinds
    <3>3. CASE DepsCompleted(t)
      <4>1. PICK s \in Replica : WillAdvance(s, t)
        BY <2>1, <2>2, <3>2, <3>3 DEF WakeInv, NoLostWakeup
      <4>2. CASE Step(s)
        BY <2>1, <2>2, <3>3, <4>1, <4>2, WakerStays
      <4>3. ASSUME NEW r \in Replica, r # s, Step(r) PROVE WillAdvance(s, t)'
        BY <4>1, <4>3, StepIsLocal DEF WillAdvance, Cur
      <4>4. ASSUME NEW r \in Replica, LockExpires(r) PROVE WillAdvance(s, t)'
        BY <4>1, <4>4, LockExpiryKeepsHead DEF WillAdvance, LockExpires, localVars
      <4>5. CASE OrphanReturns \/ UNCHANGED vars
        BY <4>1, <4>5 DEF WillAdvance, OrphanReturns, vars, busVars, localVars, Cur
      <4> QED
        BY <3>1, <4>2, <4>3, <4>4, <4>5 DEF Next, Quiet, Faulty
    <3>4. CASE ~DepsCompleted(t)
      <4>1. PICK d \in Deps[t] : state[d] # "completed" /\ state'[d] = "completed"
        BY <2>2, <3>4 DEF DepsCompleted
      <4>2. d \in Task
        BY <1>0
      <4>3. PICK r \in Replica : HandlerCompletes(r)
        BY <1>0, <1>2, <4>1, <4>2, StateMoves DEF InsertTaskBatch, Started
      <4>4. Cur(r) = d
        BY <1>0, <4>1, <4>2, <4>3 DEF HandlerCompletes, Transition
      <4> QED
        BY <4>3, <4>4, CompletionWakes
    <3> QED
      BY <3>3, <3>4
  <2> QED
    BY <2>1, <2>2 DEF WakeInv, Started, NoLostWakeup
<1> QED
  BY <1>1, <1>2 DEF WakeInv

\* db.advance_dependents: for any loop, number of replicas and heartbeats, and
\* with any number of expired locks, the replica that completes the last
\* dependency of a pending task goes on to make it dispatchable, unless its
\* process dies or a statement of it raises on the way.
THEOREM WakeupsAreKept == Spec => []NoLostWakeup
<1>1. WakeInv => NoLostWakeup
  BY DEF WakeInv
<1>2. Init => TypeInv /\ WakeInv
  BY TypeInit, WakeInit
<1>3. TypeInv /\ WakeInv /\ [Next]_vars => (TypeInv /\ WakeInv)'
  BY TypeStep, WakeStep
<1> QED
  BY <1>1, <1>2, <1>3, PTL DEF Spec

-----------------------------------------------------------------------------
(* One message per task *)

NoDup(q) == \A i, j \in 1..Len(q) : q[i].about = q[j].about => i = j

LEMMA MessagesAbout ==
  ASSUME NEW q \in Seq(Message)
  PROVE  /\ Len(q) \in Nat
         /\ \A i \in 1..Len(q) : q[i].about \in Messages(q)
         /\ \A a \in Messages(q) : \E i \in 1..Len(q) : a = q[i].about
BY LenProperties DEF Messages

\* A received batch and the rest of the queue share the messages.
LEMMA MessagesPrefix ==
  ASSUME NEW q \in Seq(Message), NEW n \in 1..Len(q)
  PROVE  /\ Messages(Locked(q, n)) \subseteq Messages(q)
         /\ Messages(SubSeq(q, n + 1, Len(q))) \subseteq Messages(q)
         /\ NoDup(q) => /\ NoDup(Locked(q, n)) /\ NoDup(SubSeq(q, n + 1, Len(q)))
                        /\ Messages(Locked(q, n)) \cap Messages(SubSeq(q, n + 1, Len(q))) = {}
<1> DEFINE b == Locked(q, n)
           c == SubSeq(q, n + 1, Len(q))
<1>1. n \in Nat /\ Len(q) \in Nat /\ n >= 1 /\ n <= Len(q)
  BY LenProperties
<1>2. \A i \in 1..n : q[i] \in Message
  BY <1>1, ElementOfSeq
<1>3. Len(b) = n /\ \A i \in 1..n : b[i].about = q[i].about
  <2>1. \A i \in 1..n : [q[i] EXCEPT !.locked = TRUE].about = q[i].about
    BY <1>2 DEF Message
  <2>2. Locked(q, n) \in [1..n -> Message]
    BY <1>2 DEF Locked, Message
  <2>3. Locked(q, n) \in Seq(Message) /\ Len(Locked(q, n)) = n
    BY <1>1, <2>2
  <2> QED
    BY <2>1, <2>3 DEF Locked
<1>4. /\ Len(c) = Len(q) - n
      /\ \A i \in 1..(Len(q) - n) : n + i \in 1..Len(q) /\ c[i] = q[n + i]
  BY <1>1
<1> HIDE DEF b, c
<1>5. \A i \in 1..n : i \in 1..Len(q)
  BY <1>1
<1>6. Messages(b) \subseteq Messages(q) /\ Messages(c) \subseteq Messages(q)
  <2>1. ASSUME NEW a \in Messages(b) PROVE a \in Messages(q)
    <3>1. PICK i \in 1..n : a = q[i].about
      BY <1>3, <2>1 DEF Messages
    <3> QED
      BY <1>5, <3>1 DEF Messages
  <2>2. ASSUME NEW a \in Messages(c) PROVE a \in Messages(q)
    <3>1. PICK j \in 1..(Len(q) - n) : a = q[n + j].about
      BY <1>4, <2>2 DEF Messages
    <3> QED
      BY <1>4, <3>1 DEF Messages
  <2> QED
    BY <2>1, <2>2
<1>7. ASSUME NoDup(q) PROVE NoDup(b) /\ NoDup(c)
  <2>1. NoDup(b)
    BY <1>3, <1>5, <1>7 DEF NoDup
  <2>2. ASSUME NEW i \in 1..Len(c), NEW j \in 1..Len(c), c[i].about = c[j].about
        PROVE  i = j
    <3>1. n + i \in 1..Len(q) /\ n + j \in 1..Len(q) /\ q[n + i].about = q[n + j].about
      BY <1>4, <2>2
    <3>2. n + i = n + j
      BY <1>7, <3>1 DEF NoDup
    <3> QED
      BY <1>1, <3>2
  <2> QED
    BY <2>1, <2>2 DEF NoDup
<1>8. ASSUME NoDup(q), NEW a \in Messages(b), a \in Messages(c) PROVE FALSE
  <2>1. PICK i \in 1..n : a = q[i].about
    BY <1>3, <1>8 DEF Messages
  <2>2. PICK j \in 1..(Len(q) - n) : a = q[n + j].about
    BY <1>4, <1>8 DEF Messages
  <2>3. i = n + j
    BY <1>4, <1>5, <1>8, <2>1, <2>2 DEF NoDup
  <2> QED
    BY <1>1, <2>3
<1> QED
  BY <1>6, <1>7, <1>8 DEF b, c

\* The head of a batch and the rest of it.
LEMMA MessagesTail ==
  ASSUME NEW q \in Seq(Message), q # <<>>
  PROVE  /\ Tail(q) \in Seq(Message)
         /\ Messages(q) = {Head(q).about} \cup Messages(Tail(q))
         /\ NoDup(q) => NoDup(Tail(q)) /\ Head(q).about \notin Messages(Tail(q))
<1>1. /\ Head(q) = q[1] /\ Len(q) \in Nat /\ Len(q) >= 1
      /\ Len(Tail(q)) = Len(q) - 1 /\ Tail(q) \in Seq(Message)
      /\ \A i \in 1..(Len(q) - 1) : Tail(q)[i] = q[i + 1]
  BY LenProperties
<1>2. /\ \A i \in 1..(Len(q) - 1) : i + 1 \in 1..Len(q) /\ i + 1 # 1
      /\ \A i \in 1..Len(q) : i = 1 \/ (i - 1 \in 1..(Len(q) - 1) /\ (i - 1) + 1 = i)
      /\ 1 \in 1..Len(q)
  BY <1>1
<1>3. ASSUME NEW a \in Messages(q) PROVE a = Head(q).about \/ a \in Messages(Tail(q))
  <2>1. PICK i \in 1..Len(q) : a = q[i].about
    BY <1>3 DEF Messages
  <2>2. CASE i - 1 \in 1..(Len(q) - 1) /\ (i - 1) + 1 = i
    <3>1. Tail(q)[i - 1] = q[i]
      BY <1>1, <2>2
    <3> QED
      BY <1>1, <2>1, <2>2, <3>1 DEF Messages
  <2> QED
    BY <1>1, <1>2, <2>1, <2>2
<1>4. Head(q).about \in Messages(q) /\ Messages(Tail(q)) \subseteq Messages(q)
  BY <1>1, <1>2 DEF Messages
<1>5. ASSUME NoDup(q) PROVE NoDup(Tail(q)) /\ Head(q).about \notin Messages(Tail(q))
  <2>1. ASSUME NEW i \in 1..(Len(q) - 1), NEW j \in 1..(Len(q) - 1),
               q[i + 1].about = q[j + 1].about
        PROVE  i = j
    <3>1. i + 1 = j + 1
      BY <1>2, <1>5, <2>1 DEF NoDup
    <3> QED
      BY <3>1
  <2>2. \A i \in 1..(Len(q) - 1) : q[i + 1].about # q[1].about
    BY <1>2, <1>5 DEF NoDup
  <2> QED
    BY <1>1, <2>1, <2>2 DEF NoDup, Messages
<1> QED
  BY <1>1, <1>3, <1>4, <1>5

\* A message about t is published.
LEMMA MessagesAppend ==
  ASSUME NEW q \in Seq(Message), NEW t \in Task, NEW n \in Nat
  PROVE  /\ Messages(Append(q, NewMessage(t, n))) = Messages(q) \cup {t}
         /\ NoDup(q) /\ t \notin Messages(q) => NoDup(Append(q, NewMessage(t, n)))
<1> DEFINE m == NewMessage(t, n)
           p == Append(q, m)
<1>1. m \in Message /\ m.about = t
  BY DEF NewMessage, Message
<1> HIDE DEF m
<1>2. /\ Len(q) \in Nat /\ Len(p) = Len(q) + 1 /\ p[Len(q) + 1].about = t
      /\ \A i \in 1..Len(q) : p[i] = q[i] /\ i \in 1..(Len(q) + 1)
      /\ \A i \in 1..(Len(q) + 1) : i \in 1..Len(q) \/ i = Len(q) + 1
  BY <1>1, AppendProperties
<1> HIDE DEF p
<1>3. Messages(p) = Messages(q) \cup {t}
  BY <1>2 DEF Messages
<1>4. ASSUME NoDup(q), t \notin Messages(q) PROVE NoDup(p)
  <2>1. \A i \in 1..Len(q) : q[i].about # t
    BY <1>4 DEF Messages
  <2> QED
    BY <1>2, <1>4, <2>1 DEF NoDup
<1> QED
  BY <1>3, <1>4 DEF p, m

\* Messages a replica still has to handle: the one that awaits its completion
\* is handled.
Waiting(r) ==
  IF pc[r] = "complete" THEN Messages(Tail(batch[r])) ELSE Messages(batch[r])

\* The heartbeat has not inserted the tasks: it is on its queue, or one replica
\* holds it and nobody does anything else.
Unread ==
  /\ \A t \in Task : state[t] = "absent"
  /\ taskQueue = <<>> /\ orphaned = <<>>
  /\ \A i \in 1..Len(eventQueue) : eventQueue[i].about = Heartbeat
  /\ \/ Len(eventQueue) <= 1 /\ \A r \in Replica : pc[r] = "idle" /\ batch[r] = <<>>
     \/ /\ eventQueue = <<>>
        /\ \E r \in Replica :
             /\ pc[r] \in {"insert", "complete"}
             /\ Tail(batch[r]) = <<>> /\ Cur(r) = Heartbeat
             /\ \A s \in Replica \ {r} : pc[s] = "idle" /\ batch[s] = <<>>

\* The replica that publishes the tasks of the heartbeat does it alone, and no
\* task that it has still to publish is queued or held.
SolePublisher(r) ==
  pc[r] = "publish" =>
    /\ \A s \in Replica : pc[s] = "publish" => s = r
    /\ todo[r] \cap Messages(taskQueue) = {}
    /\ \A s \in Replica : todo[r] \cap Waiting(s) = {}

\* The heartbeat is read, and every task has at most one message that is still
\* to be handled.
OneEach ==
  /\ eventQueue = <<>> /\ orphaned = <<>>
  /\ NoDup(taskQueue) /\ \A r \in Replica : NoDup(batch[r])
  /\ \A r \in Replica : Waiting(r) \cap Messages(taskQueue) = {}
  /\ \A r, s \in Replica : r # s => Waiting(r) \cap Waiting(s) = {}
  /\ \A r \in Replica :
       /\ pc[r] # "insert"
       /\ batch[r] # <<>> => Heartbeat \notin Messages(Tail(batch[r]))
       /\ SolePublisher(r)

Solo == faults["lock"] = 0 /\ faults["crash"] = 0 => Unread \/ OneEach

\* The heartbeats of two loop runs of one loop would publish its tasks twice.
OneHeartbeat == Heartbeats <= 1

LEMMA SoloInit == ASSUME OneHeartbeat PROVE Init => Solo
<1> SUFFICES ASSUME Init PROVE Unread
  BY DEF Solo
<1>1. /\ Len(eventQueue) = Heartbeats
      /\ \A i \in 1..Heartbeats : eventQueue[i].about = Heartbeat
  BY DispatchAssumption DEF Init, Start, NewMessage
<1> QED
  BY <1>1 DEF OneHeartbeat, Init, Start, Unread

\* A step that moves no message, and ends with neither of the heartbeat's.
LEMMA OneEachLocal ==
  ASSUME TypeInv, OneEach, NEW r \in Replica, UNCHANGED busVars,
         pc[r] # "complete", batch[r] # <<>>, pc'[r] # "insert",
         pc'[r] = "publish" => pc[r] = "publish" /\ todo'[r] = todo[r],
         \A s \in Replica : s # r => pc'[s] = pc[s] /\ todo'[s] = todo[s]
  PROVE  OneEach'
<1>1. batch[r] \in Seq(Message)
  BY DEF TypeInv, TypeOK
<1>2. Messages(Tail(batch[r])) \subseteq Messages(batch[r])
  BY <1>1, MessagesTail
<1>3. \A s \in Replica : Waiting(s)' \subseteq Waiting(s)
  BY <1>2 DEF Waiting, busVars
<1>4. \A s \in Replica : SolePublisher(s)'
  BY <1>3 DEF OneEach, SolePublisher, busVars
<1> QED
  BY <1>3, <1>4 DEF OneEach, busVars

\* Receiving splits the messages of the queue.
LEMMA OneEachReceive ==
  ASSUME TypeInv, OneEach, NEW r \in Replica, ReceiveTasks(r)
  PROVE  OneEach'
<1>1. PICK n \in 1..BatchMax :
        /\ n <= Len(taskQueue)
        /\ batch' = [batch EXCEPT ![r] = Locked(taskQueue, n)]
        /\ taskQueue' = SubSeq(taskQueue, n + 1, Len(taskQueue))
        /\ pc' = [pc EXCEPT ![r] = IF Head(taskQueue).redelivered
                                   THEN "rf_read" ELSE "check"]
  BY DEF ReceiveTasks, Goto
<1>2. taskQueue \in Seq(Message) /\ n \in 1..Len(taskQueue)
  BY <1>1, DispatchAssumption, LenProperties DEF TypeInv, TypeOK
<1>3. /\ batch'[r] = Locked(taskQueue, n) /\ pc'[r] \in {"rf_read", "check"}
      /\ \A s \in Replica : s # r =>
           pc'[s] = pc[s] /\ batch'[s] = batch[s] /\ todo'[s] = todo[s]
  BY <1>1 DEF TypeInv, TypeOK, ReceiveTasks, localVars
<1>4. /\ Messages(batch'[r]) \subseteq Messages(taskQueue) /\ NoDup(batch'[r])
      /\ Messages(taskQueue') \subseteq Messages(taskQueue) /\ NoDup(taskQueue')
      /\ Messages(batch'[r]) \cap Messages(taskQueue') = {}
  BY <1>1, <1>2, <1>3, MessagesPrefix DEF OneEach
<1>5. /\ Waiting(r)' = Messages(batch'[r])
      /\ \A s \in Replica : s # r => Waiting(s)' = Waiting(s)
  BY <1>3 DEF Waiting
<1>6. Heartbeat \notin Messages(taskQueue)
  BY <1>2, MessagesAbout, DispatchAssumption DEF TypeInv, TaskMessages
<1>7. Messages(Tail(batch'[r])) \subseteq Messages(batch'[r])
  BY <1>2, <1>3, LockedPrefix, MessagesTail
<1>8. eventQueue' = <<>> /\ orphaned' = <<>>
  BY DEF OneEach, ReceiveTasks
<1>9. \A s \in Replica : NoDup(batch'[s]) /\ Waiting(s)' \cap Messages(taskQueue') = {}
  BY <1>3, <1>4, <1>5 DEF OneEach
<1>10. \A s, u \in Replica : s # u => Waiting(s)' \cap Waiting(u)' = {}
  BY <1>4, <1>5 DEF OneEach
<1>11. \A s \in Replica :
         /\ pc'[s] # "insert"
         /\ batch'[s] # <<>> => Heartbeat \notin Messages(Tail(batch'[s]))
  BY <1>3, <1>4, <1>6, <1>7 DEF OneEach
<1>12. \A s \in Replica : SolePublisher(s)'
  <2> SUFFICES ASSUME NEW s \in Replica, pc'[s] = "publish" PROVE SolePublisher(s)'
    BY DEF SolePublisher
  <2>1. s # r /\ pc[s] = "publish" /\ SolePublisher(s)
    BY <1>3 DEF OneEach
  <2>2. \A u \in Replica : pc'[u] = "publish" => u = s
    BY <1>3, <2>1 DEF SolePublisher
  <2>3. todo'[s] = todo[s]
    BY <1>3, <2>1
  <2>4. todo[s] \cap Messages(taskQueue) = {}
    BY <2>1 DEF SolePublisher
  <2>5. \A u \in Replica : todo[s] \cap Waiting(u)' = {}
    BY <1>4, <1>5, <2>1 DEF SolePublisher
  <2> QED
    BY <1>4, <2>2, <2>3, <2>4, <2>5 DEF SolePublisher
<1> QED
  BY <1>4, <1>8, <1>9, <1>10, <1>11, <1>12 DEF OneEach

\* Publishing moves a task from the local list to the queue.
LEMMA OneEachPublish ==
  ASSUME TypeInv, OneEach, NEW r \in Replica, PublishTask(r)
  PROVE  OneEach'
<1>1. PICK t \in todo[r] :
        /\ taskQueue' = Append(taskQueue, NewMessage(t, 0))
        /\ todo' = [todo EXCEPT ![r] = @ \ {t}]
  BY DEF PublishTask
<1>2. /\ t \in Task /\ taskQueue \in Seq(Message) /\ todo'[r] = todo[r] \ {t}
      /\ \A s \in Replica : s # r => todo'[s] = todo[s]
  BY <1>1 DEF TypeInv, TypeOK
<1>3. pc[r] = "publish" /\ SolePublisher(r) /\ UNCHANGED <<pc, batch>>
  BY DEF OneEach, PublishTask
<1>4. t \notin Messages(taskQueue) /\ \A s \in Replica : t \notin Waiting(s)
  BY <1>3 DEF SolePublisher
<1>5. Messages(taskQueue') = Messages(taskQueue) \cup {t} /\ NoDup(taskQueue')
  BY <1>1, <1>2, <1>4, MessagesAppend DEF OneEach
<1>6. \A s \in Replica : Waiting(s)' = Waiting(s)
  BY <1>3 DEF Waiting
<1>7. \A s \in Replica : SolePublisher(s)'
  BY <1>2, <1>3, <1>5, <1>6 DEF SolePublisher
<1>8. \A s \in Replica : Waiting(s)' \cap Messages(taskQueue') = {}
  BY <1>4, <1>5, <1>6 DEF OneEach
<1> QED
  BY <1>3, <1>5, <1>6, <1>7, <1>8 DEF OneEach, PublishTask

\* Requeueing publishes the message that is then complete.
LEMMA OneEachRequeue ==
  ASSUME TypeInv, OneEach, NEW r \in Replica, RequeueNotReady(r)
  PROVE  OneEach'
<1>1. /\ pc[r] = "not_ready" /\ pc' = [pc EXCEPT ![r] = "complete"]
      /\ taskQueue' = Append(taskQueue, NewMessage(Cur(r), Head(batch[r]).requeues + 1))
      /\ UNCHANGED <<eventQueue, batch, orphaned, todo>>
  BY DEF RequeueNotReady, Goto, localVars
<1>2. /\ batch[r] \in Seq(Message) /\ batch[r] # <<>> /\ Cur(r) \in Task
      /\ taskQueue \in Seq(Message) /\ NoDup(batch[r])
  BY <1>1 DEF TypeInv, TypeOK, TaskSteps, FailureSteps, OneEach
<1>3. Head(batch[r]).requeues + 1 \in Nat
  <2>1. Head(batch[r]) \in Message
    BY <1>2, HeadTailProperties
  <2> QED
    BY <2>1 DEF Message
<1>4. /\ Messages(batch[r]) = {Cur(r)} \cup Messages(Tail(batch[r]))
      /\ Cur(r) \notin Messages(Tail(batch[r]))
  BY <1>2, MessagesTail DEF Cur
<1>5. /\ pc'[r] = "complete"
      /\ \A s \in Replica : s # r => pc'[s] = pc[s]
  BY <1>1 DEF TypeInv, TypeOK
<1>6. /\ Waiting(r) = {Cur(r)} \cup Waiting(r)' /\ Cur(r) \notin Waiting(r)'
      /\ \A s \in Replica : s # r => Waiting(s)' = Waiting(s)
  BY <1>1, <1>4, <1>5 DEF Waiting
<1>7. Cur(r) \notin Messages(taskQueue)
  BY <1>6 DEF OneEach
<1>8. Messages(taskQueue') = Messages(taskQueue) \cup {Cur(r)} /\ NoDup(taskQueue')
  BY <1>1, <1>2, <1>3, <1>7, MessagesAppend DEF OneEach
<1>9. \A s, u \in Replica : s # u => Waiting(s)' \cap Waiting(u)' = {}
  BY <1>6 DEF OneEach
<1>10. \A s \in Replica : Waiting(s)' \cap Messages(taskQueue') = {}
  BY <1>6, <1>8 DEF OneEach
<1>11. \A s \in Replica : SolePublisher(s)'
  <2> SUFFICES ASSUME NEW s \in Replica, pc'[s] = "publish" PROVE SolePublisher(s)'
    BY DEF SolePublisher
  <2>1. s # r /\ pc[s] = "publish" /\ SolePublisher(s) /\ todo'[s] = todo[s]
    BY <1>1, <1>5 DEF OneEach
  <2>2. Cur(r) \notin todo[s]
    BY <1>6, <2>1 DEF SolePublisher
  <2> QED
    BY <1>5, <1>6, <1>8, <2>1, <2>2 DEF SolePublisher
<1> QED
  BY <1>1, <1>5, <1>8, <1>9, <1>10, <1>11 DEF OneEach

\* Completing drops the head, which is handled.
LEMMA OneEachComplete ==
  ASSUME TypeInv, OneEach, NEW r \in Replica, CompleteMessage(r)
  PROVE  OneEach'
<1>1. /\ pc[r] = "complete" /\ batch' = [batch EXCEPT ![r] = Tail(@)]
      /\ pc' = [pc EXCEPT ![r] = FirstStep(Tail(batch[r]))]
      /\ todo' = [todo EXCEPT ![r] = {}]
      /\ UNCHANGED <<eventQueue, taskQueue, orphaned>>
  BY DEF CompleteMessage, Goto
<1>2. batch[r] \in Seq(Message) /\ batch[r] # <<>> /\ NoDup(batch[r])
  BY <1>1 DEF TypeInv, TypeOK, OneEach
<1>3. /\ pc'[r] = FirstStep(Tail(batch[r])) /\ batch'[r] = Tail(batch[r])
      /\ \A s \in Replica : s # r =>
           pc'[s] = pc[s] /\ batch'[s] = batch[s] /\ todo'[s] = todo[s]
  BY <1>1 DEF TypeInv, TypeOK
<1>4. Tail(batch[r]) \in Seq(Message) /\ NoDup(Tail(batch[r]))
  BY <1>2, MessagesTail
<1>5. CASE Tail(batch[r]) = <<>>
  <2>1. pc'[r] = "idle" /\ batch'[r] = <<>>
    BY <1>3, <1>5 DEF FirstStep
  <2>2. \A s \in Replica : Waiting(s)' = Waiting(s)
    BY <1>1, <1>3, <2>1 DEF Waiting
  <2>3. \A s \in Replica : SolePublisher(s)'
    BY <1>1, <1>3, <2>1, <2>2 DEF OneEach, SolePublisher
  <2>4. \A s \in Replica : NoDup(batch'[s])
    BY <1>3, <1>4 DEF OneEach
  <2> QED
    BY <1>1, <1>3, <2>1, <2>2, <2>3, <2>4 DEF OneEach
<1>6. CASE Tail(batch[r]) # <<>>
  <2> DEFINE b == Tail(batch[r])
  <2>1. /\ Messages(b) = {Head(b).about} \cup Messages(Tail(b))
    BY <1>4, <1>6, MessagesTail
  <2>2. Heartbeat \notin Messages(b)
    BY <1>2 DEF OneEach
  <2>3. pc'[r] \in {"rf_read", "check"}
    BY <1>3, <1>6, <2>1, <2>2 DEF FirstStep
  <2>4. \A s \in Replica : Waiting(s)' = Waiting(s)
    BY <1>1, <1>3, <2>3 DEF Waiting
  <2>5. \A s \in Replica : SolePublisher(s)'
    BY <1>1, <1>3, <2>3, <2>4 DEF OneEach, SolePublisher
  <2>6. \A s \in Replica :
          /\ NoDup(batch'[s])
          /\ batch'[s] # <<>> => Heartbeat \notin Messages(Tail(batch'[s]))
    BY <1>3, <1>4, <2>1, <2>2 DEF OneEach
  <2> QED
    BY <1>1, <1>3, <2>3, <2>4, <2>5, <2>6 DEF OneEach
<1> QED
  BY <1>5, <1>6

LEMMA OneEachStep ==
  ASSUME TypeInv, OneEach, NEW r \in Replica, Step(r) \/ StepRaises(r)
  PROVE  OneEach'
<1>1. ~ReceiveEvents(r)
  BY DispatchAssumption DEF ReceiveEvents, OneEach
<1>2. CASE ReceiveTasks(r) \/ PublishTask(r) \/ RequeueNotReady(r) \/ CompleteMessage(r)
  BY <1>2, OneEachReceive, OneEachPublish, OneEachRequeue, OneEachComplete
<1>3. CASE InsertTaskBatch(r)
  BY <1>3 DEF InsertTaskBatch, OneEach
<1>4. CASE HeartbeatHandled(r) \/ DispatchTask(r)
           \/ (HandleFailure(r) /\ ~RequeueNotReady(r)) \/ StepRaises(r)
  <2>1. /\ UNCHANGED busVars /\ pc[r] # "complete" /\ pc[r] # "idle"
        /\ pc'[r] \notin {"insert", "publish"}
        /\ \A s \in Replica : s # r => pc'[s] = pc[s] /\ todo'[s] = todo[s]
    <3> USE DEF TypeInv, TypeOK, Goto, localVars, busVars
    <3>1. CASE HeartbeatHandled(r) \/ DispatchTask(r)
      BY <3>1
      DEF DispatchTask, HeartbeatHandled, GateCleared, DuplicateDropped, NotDispatchable,
          FindBlockedDependency, StartTask, HandlerCompletes, HandlerBlocks,
          HandlerRaises, SelectPendingDependents, CountCompletedDeps, AdvanceDependent
    <3>2. CASE HandleFailure(r) /\ ~RequeueNotReady(r)
      BY <3>2
      DEF HandleFailure, GiveUpNotReady, FailureIgnored, FailureAccepted,
          IncrementRetry, ScheduleRetry, DeadLetter, CascadeIgnored, CascadeAccepted,
          CascadeDeadLetter, EmitAlert
    <3>3. CASE StepRaises(r)
      BY <3>3, DispatchAssumption
      DEF StepRaises, HeartbeatSteps, TaskSteps, DispatchSteps, FailureSteps
    <3> QED
      BY <1>4, <3>1, <3>2, <3>3
  <2>2. batch[r] # <<>>
    BY <2>1 DEF TypeInv
  <2> QED
    BY <2>1, <2>2, OneEachLocal
<1> QED
  BY <1>1, <1>2, <1>3, <1>4 DEF Step, HandleHeartbeat

\* A batch of one.
LEMMA LockedOne ==
  ASSUME NEW q \in Seq(Message), Len(q) = 1
  PROVE  Tail(Locked(q, 1)) = <<>>
<1> DEFINE b == Locked(q, 1)
<1>1. \A i \in 1..1 : q[i] \in Message
  BY ElementOfSeq
<1>2. ASSUME NEW m \in Message PROVE [m EXCEPT !.locked = TRUE] \in Message
  BY DEF Message
<1>3. b \in [1..1 -> Message]
  BY <1>1, <1>2 DEF Locked
<1>4. b \in Seq(Message) /\ Len(b) = 1
  BY <1>3
<1> HIDE DEF b
<1>5. b # <<>>
  BY SMTT(30), <1>4
<1>6. Tail(b) \in Seq(Message) /\ Len(Tail(b)) = 0
  BY <1>4, <1>5, HeadTailProperties
<1>7. \A s \in Seq(Message) : s # <<>> => Len(s) \in Nat \ {0}
  BY EmptySeq
<1> QED
  BY <1>6, <1>7 DEF b

LEMMA OneMessage ==
  ASSUME NEW q \in Seq(Message), q # <<>>, Tail(q) = <<>>
  PROVE  Len(q) = 1
<1>1. Len(q) \in Nat /\ Len(Tail(q)) = Len(q) - 1
  BY HeadTailProperties
<1>2. Len(Tail(q)) = 0
  BY EmptySeq, Zenon
<1> QED
  BY <1>1, <1>2

\* The heartbeat's own path.
LEMMA UnreadStep ==
  ASSUME TypeInv, Unread, NEW r \in Replica, Step(r) \/ StepRaises(r)
  PROVE  Unread' \/ OneEach'
<1>1. CASE ReceiveEvents(r)
  <2>1. PICK n \in 1..BatchMax :
          /\ n <= Len(eventQueue)
          /\ batch' = [batch EXCEPT ![r] = Locked(eventQueue, n)]
          /\ eventQueue' = SubSeq(eventQueue, n + 1, Len(eventQueue))
          /\ pc' = [pc EXCEPT ![r] = "insert"]
    BY <1>1 DEF ReceiveEvents, Goto
  <2>2. eventQueue \in Seq(Message) /\ Len(eventQueue) \in Nat /\ n \in Nat /\ n >= 1
    BY <2>1, DispatchAssumption, LenProperties DEF TypeInv, TypeOK
  <2>3. /\ Len(eventQueue) <= 1
        /\ \A s \in Replica : pc[s] = "idle" /\ batch[s] = <<>>
    <3>1. Len(eventQueue) # 0
      BY <2>1, <2>2
    <3>2. eventQueue # <<>>
      BY <3>1, EmptySeq
    <3> QED
      BY <3>2 DEF Unread
  <2>4. n = 1 /\ Len(eventQueue) = 1
    <3>1. n <= Len(eventQueue) /\ Len(eventQueue) <= 1
      BY <2>1, <2>3
    <3> QED
      BY <2>2, <3>1
  <2>5. eventQueue' = <<>>
    BY <2>1, <2>2, <2>4
  <2>6. /\ Head(batch'[r]).about = Heartbeat
        /\ Tail(batch'[r]) = <<>>
    <3>1. batch'[r] = Locked(eventQueue, 1)
      BY <2>1, <2>4 DEF TypeInv, TypeOK
    <3>2. eventQueue[1].about = Heartbeat /\ Head(eventQueue) = eventQueue[1]
      BY <2>2, <2>4 DEF Unread
    <3>3. /\ Locked(eventQueue, 1) \in Seq(Message)
          /\ Head(Locked(eventQueue, 1)).about = Head(eventQueue).about
      BY <2>2, <2>4, LockedPrefix
    <3> QED
      BY <2>2, <2>4, <3>1, <3>2, <3>3, LockedOne
  <2>7. pc'[r] = "insert" /\ \A s \in Replica \ {r} : pc'[s] = "idle" /\ batch'[s] = <<>>
    BY <2>1, <2>3 DEF TypeInv, TypeOK
  <2>8. \A i \in 1..Len(eventQueue') : eventQueue'[i].about = Heartbeat
    BY <2>5
  <2>9. UNCHANGED <<state, taskQueue, orphaned>>
    BY <1>1 DEF ReceiveEvents, rowVars
  <2>10. Unread'
    BY <2>5, <2>6, <2>7, <2>8, <2>9 DEF Unread, Cur
  <2> QED
    BY <2>10
<1>2. ~ReceiveTasks(r)
  BY DispatchAssumption DEF ReceiveTasks, Unread
<1>3. ASSUME ~ReceiveEvents(r)
      PROVE  /\ pc[r] \in {"insert", "complete"} /\ eventQueue = <<>>
             /\ Tail(batch[r]) = <<>> /\ Cur(r) = Heartbeat
             /\ \A s \in Replica \ {r} : pc[s] = "idle" /\ batch[s] = <<>>
  <2>1. pc[r] # "idle"
    BY <1>2, <1>3, DispatchAssumption
    DEF Step, HandleHeartbeat, DispatchTask, HandleFailure, CompleteMessage,
        InsertTaskBatch, PublishTask, HeartbeatHandled, GateCleared, DuplicateDropped,
        NotDispatchable, FindBlockedDependency, StartTask, HandlerCompletes,
        HandlerBlocks, HandlerRaises, SelectPendingDependents, CountCompletedDeps,
        AdvanceDependent, RequeueNotReady, GiveUpNotReady, FailureIgnored,
        FailureAccepted, IncrementRetry, ScheduleRetry, DeadLetter, CascadeIgnored,
        CascadeAccepted, CascadeDeadLetter, EmitAlert, StepRaises, HeartbeatSteps,
        TaskSteps, DispatchSteps, FailureSteps
  <2> QED
    BY <2>1 DEF Unread
<1>4. CASE InsertTaskBatch(r)
  <2>1. pc[r] = "insert" /\ ~ReceiveEvents(r)
    BY <1>4 DEF InsertTaskBatch, ReceiveEvents
  <2>2. /\ pc'[r] = "publish" /\ todo'[r] = Task /\ UNCHANGED busVars
        /\ \A s \in Replica \ {r} : pc'[s] = "idle"
    BY <1>3, <1>4, <2>1 DEF InsertTaskBatch, Goto, TypeInv, TypeOK
  <2>3. Messages(taskQueue) = {} /\ NoDup(taskQueue) /\ Messages(<<>>) = {} /\ NoDup(<<>>)
    BY DEF Unread, Messages, NoDup
  <2>4. batch[r] \in Seq(Message) /\ batch[r] # <<>>
    BY <2>1 DEF TypeInv, TypeOK
  <2>5. Tail(batch[r]) = <<>> /\ Head(batch[r]).about = Heartbeat
    BY <1>3, <2>1 DEF Cur
  <2>6. Messages(batch[r]) = {Heartbeat} /\ Len(batch[r]) = 1
    <3>1. Messages(batch[r]) = {Head(batch[r]).about} \cup Messages(Tail(batch[r]))
      BY <2>4, MessagesTail
    <3>2. Messages(batch[r]) = {Heartbeat}
      BY <2>3, <2>5, <3>1
    <3> QED
      BY <2>4, <2>5, <3>2, OneMessage
  <2>7. NoDup(batch[r])
    BY <2>6 DEF NoDup
  <2>8. /\ Waiting(r)' = {Heartbeat}
        /\ \A s \in Replica \ {r} : Waiting(s)' = {}
    BY <1>3, <2>1, <2>2, <2>3, <2>6 DEF Waiting, busVars
  <2>9. \A s \in Replica : SolePublisher(s)'
    BY <2>2, <2>3, <2>8, DispatchAssumption DEF SolePublisher, busVars
  <2>10. OneEach'
    BY <1>3, <2>1, <2>2, <2>3, <2>7, <2>8, <2>9 DEF OneEach, Unread, busVars
  <2> QED
    BY <2>10
<1>5. CASE CompleteMessage(r)
  <2>1. pc[r] = "complete" /\ ~ReceiveEvents(r)
    BY <1>5 DEF CompleteMessage, ReceiveEvents
  <2>2. /\ \A s \in Replica : pc'[s] = "idle" /\ batch'[s] = <<>>
        /\ UNCHANGED <<state, eventQueue, taskQueue, orphaned>>
    BY <1>3, <1>5, <2>1 DEF CompleteMessage, Goto, FirstStep, TypeInv, TypeOK, rowVars
  <2>3. Unread'
    BY <1>3, <2>1, <2>2 DEF Unread
  <2> QED
    BY <2>3
<1>6. CASE StepRaises(r)
  <2>1. pc[r] \in FaultySteps /\ pc[r] # "idle" /\ pc[r] # "complete"
    BY <1>6, DispatchAssumption
    DEF StepRaises, HeartbeatSteps, TaskSteps, DispatchSteps, FailureSteps
  <2>2. pc[r] = "insert" /\ eventQueue = <<>>
    BY <2>1 DEF Unread
  <2>3. ~ReceiveEvents(r)
    BY <2>2 DEF ReceiveEvents
  <2>4. /\ pc'[r] = "complete" /\ UNCHANGED <<state, busVars>>
        /\ \A s \in Replica \ {r} : pc'[s] = pc[s]
    BY <1>6, <2>2 DEF StepRaises, Goto, DispatchSteps, TypeInv, TypeOK, rowVars
  <2>5. Unread'
    BY <1>3, <2>3, <2>4 DEF Unread, Cur, busVars
  <2> QED
    BY <2>5
<1>7. CASE PublishTask(r) \/ HeartbeatHandled(r) \/ DispatchTask(r) \/ HandleFailure(r)
  <2>1. pc[r] \notin {"idle", "insert", "complete"}
    BY <1>7
    DEF DispatchTask, HandleFailure, PublishTask, HeartbeatHandled, GateCleared,
        DuplicateDropped, NotDispatchable, FindBlockedDependency, StartTask,
        HandlerCompletes, HandlerBlocks, HandlerRaises, SelectPendingDependents,
        CountCompletedDeps, AdvanceDependent, RequeueNotReady, GiveUpNotReady,
        FailureIgnored, FailureAccepted, IncrementRetry, ScheduleRetry, DeadLetter,
        CascadeIgnored, CascadeAccepted, CascadeDeadLetter, EmitAlert
  <2> QED
    BY <2>1 DEF Unread
<1> QED
  BY <1>1, <1>2, <1>4, <1>5, <1>6, <1>7 DEF Step, HandleHeartbeat

\* Only the fault itself is counted.
LEMMA FaultsGrow ==
  ASSUME TypeInv, [Next]_vars, NEW k \in FaultKinds, faults'[k] = 0
  PROVE  /\ faults[k] = 0
         /\ k = "lock" => \A r \in Replica : ~LockExpires(r)
         /\ k = "crash" => \A r \in Replica : ~Crash(r)
         /\ k = "raise" => \A r \in Replica : ~StepRaises(r)
<1>1. faults \in [FaultKinds -> Nat]
  BY DEF TypeInv, TypeOK
<1>2. ASSUME NEW j \in FaultKinds, Fault(j) PROVE j # k /\ faults[k] = 0
  BY <1>1, <1>2 DEF Fault
<1>3. \A r \in Replica :
        /\ LockExpires(r) => Fault("lock")
        /\ Crash(r) => Fault("crash")
        /\ StepRaises(r) => Fault("raise")
  BY DEF LockExpires, Crash, StepRaises
<1>4. faults' = faults \/ \E j \in FaultKinds : Fault(j)
  <2>1. ASSUME NEW r \in Replica, Step(r) PROVE faults' = faults
    BY <2>1
    DEF Step, HandleHeartbeat, DispatchTask, HandleFailure, ReceiveEvents, ReceiveTasks,
        CompleteMessage, InsertTaskBatch, PublishTask, HeartbeatHandled, GateCleared,
        DuplicateDropped, NotDispatchable, FindBlockedDependency, StartTask,
        HandlerCompletes, HandlerBlocks, HandlerRaises, SelectPendingDependents,
        CountCompletedDeps, AdvanceDependent, RequeueNotReady, GiveUpNotReady,
        FailureIgnored, FailureAccepted, IncrementRetry, ScheduleRetry, DeadLetter,
        CascadeIgnored, CascadeAccepted, CascadeDeadLetter, EmitAlert
  <2>2. OrphanReturns \/ UNCHANGED vars => faults' = faults
    BY DEF OrphanReturns, vars
  <2> QED
    BY <1>3, <2>1, <2>2 DEF Next, Faulty, Quiet, FaultKinds, LockExpires, Crash, StepRaises
<1> QED
  BY <1>2, <1>3, <1>4 DEF FaultKinds, LockExpires, Crash, StepRaises

LEMMA SoloStep == TypeInv /\ Solo /\ [Next]_vars => Solo'
<1> SUFFICES ASSUME TypeInv, Solo, [Next]_vars, faults'["lock"] = 0, faults'["crash"] = 0
             PROVE  Unread' \/ OneEach'
  BY DEF Solo
<1>1. /\ faults["lock"] = 0 /\ faults["crash"] = 0
      /\ \A r \in Replica : ~LockExpires(r) /\ ~Crash(r)
  BY FaultsGrow DEF FaultKinds
<1>2. Unread \/ OneEach
  BY <1>1 DEF Solo
<1>3. ~OrphanReturns
  BY <1>2 DEF Unread, OneEach, OrphanReturns
<1>4. ASSUME NEW r \in Replica, Step(r) \/ StepRaises(r) PROVE Unread' \/ OneEach'
  BY <1>2, <1>4, UnreadStep, OneEachStep
<1>5. CASE UNCHANGED vars
  BY <1>2, <1>5
  DEF Unread, OneEach, SolePublisher, Waiting, Cur, vars, rowVars, busVars, localVars
<1> QED
  BY <1>1, <1>3, <1>4, <1>5 DEF Next, Faulty, Quiet

\* A replica in a handler holds the only message about its task that is still
\* to be handled.
LEMMA HeldIsWaiting ==
  ASSUME TypeInv, NEW r \in Replica, pc[r] \in TaskSteps
  PROVE  Cur(r) \in Waiting(r) /\ Cur(r) \in Task
<1>1. batch[r] \in Seq(Message) /\ batch[r] # <<>> /\ pc[r] # "complete" /\ Cur(r) \in Task
  BY DEF TypeInv, TypeOK, TaskSteps, DispatchSteps, FailureSteps
<1> QED
  BY <1>1, MessagesTail DEF Cur, Waiting

\* worker.run_worker_loop: for any loop, any number of replicas that compete for
\* its task messages and any number of calls that raise, no two of them are in
\* the handler of one task, as long as no lock expires and no process dies.
THEOREM OneRunnerPerTask == ASSUME OneHeartbeat PROVE Spec => []OneRunner
<1>1. TypeInv /\ Solo => OneRunner
  <2> SUFFICES ASSUME TypeInv, Solo, faults["lock"] = 0, faults["crash"] = 0,
                      NEW r \in Replica, NEW s \in Replica, r # s,
                      pc[r] = "handler", pc[s] = "handler"
               PROVE  Cur(r) # Cur(s)
    BY DEF OneRunner
  <2>1. OneEach
    BY DEF Solo, Unread
  <2> QED
    BY <2>1, HeldIsWaiting DEF OneEach, TaskSteps, DispatchSteps
<1>2. Init => TypeInv /\ Solo
  BY TypeInit, SoloInit
<1>3. TypeInv /\ Solo /\ [Next]_vars => (TypeInv /\ Solo)'
  BY TypeStep, SoloStep
<1> QED
  BY <1>1, <1>2, <1>3, PTL DEF Spec

-----------------------------------------------------------------------------
(* One alert per dead task *)

Dead(t) == reasons[t] \cap {"dead_lettered", "dependency_dead_lettered"} # {}
AlertDue(t) == \E r \in Replica : pc[r] = "alert" /\ Cur(r) = t

\* A task that is dead has no message left to be handled, but the one whose
\* handling ends with the alert.
AlertInv ==
  /\ \A t \in Task : alerts[t] = IF Dead(t) /\ ~AlertDue(t) THEN 1 ELSE 0
  /\ \A t \in Messages(taskQueue) : ~Dead(t)
  /\ \A r \in Replica :
       /\ \A t \in Waiting(r) \cap Task : Dead(t) <=> (pc[r] = "alert" /\ t = Cur(r))
       /\ pc[r] = "publish" => \A t \in todo[r] : ~Dead(t)

SoundAlerts == NoFault => AlertInv

\* A task dies in two steps only, of the replica that handles its message.
LEMMA DeadMoves ==
  ASSUME TypeInv, NEW r \in Replica, Step(r)
  PROVE  \/ /\ DeadLetter(r) \/ CascadeDeadLetter(r)
            /\ Cur(r) \in Task /\ Dead(Cur(r))'
            /\ \A t \in Task : t # Cur(r) => Dead(t)' = Dead(t)
         \/ /\ ~DeadLetter(r) /\ ~CascadeDeadLetter(r)
            /\ \A t \in Task : Dead(t)' = Dead(t)
<1>1. CASE UNCHANGED reasons /\ ~DeadLetter(r) /\ ~CascadeDeadLetter(r)
  BY <1>1 DEF Dead
<1>2. CASE InsertTaskBatch(r)
  <2>1. ~DeadLetter(r) /\ ~CascadeDeadLetter(r)
    BY <1>2 DEF InsertTaskBatch, DeadLetter, CascadeDeadLetter
  <2>2. ASSUME NEW t \in Task PROVE Dead(t)' = Dead(t)
    <3>1. CASE state[t] = "absent"
      BY <1>2, <3>1 DEF InsertTaskBatch, TypeInv, TypeOK, Dead
    <3>2. CASE state[t] # "absent"
      BY <1>2, <3>2 DEF InsertTaskBatch, TypeInv, TypeOK, Dead
    <3> QED
      BY <3>1, <3>2
  <2>3. \A t \in Task : Dead(t)' = Dead(t)
    BY <2>2
  <2> QED
    BY <2>1, <2>3
<1>3. CASE StartTask(r) \/ HandlerCompletes(r) \/ HandlerBlocks(r) \/ ScheduleRetry(r)
  <2>1. Cur(r) \in Task /\ ~DeadLetter(r) /\ ~CascadeDeadLetter(r)
    BY <1>3
    DEF TaskSteps, DispatchSteps, FailureSteps, StartTask, HandlerCompletes,
        HandlerBlocks, ScheduleRetry, DeadLetter, CascadeDeadLetter, TypeInv, TypeOK,
        DeadLetterStrike
  <2>2. \E why \in Reasons \ {"dead_lettered", "dependency_dead_lettered"} :
          reasons' = [reasons EXCEPT ![Cur(r)] = @ \cup {why}]
    BY <1>3
    DEF StartTask, HandlerCompletes, HandlerBlocks, ScheduleRetry, Transition, Reasons
  <2>3. \A t \in Task : Dead(t)' = Dead(t)
    BY <2>1, <2>2 DEF TypeInv, TypeOK, Dead
  <2> QED
    BY <2>1, <2>3
<1>4. CASE AdvanceDependent(r)
  <2>1. PICK t \in todo[r] :
          reasons' = [reasons EXCEPT ![t] = @ \cup {"dependency_satisfied"}]
    BY <1>4 DEF AdvanceDependent, Transition
  <2>2. \A u \in Task : Dead(u)' = Dead(u)
    BY <2>1 DEF TypeInv, TypeOK, Dead
  <2> QED
    BY <1>4, <2>2 DEF AdvanceDependent, DeadLetter, CascadeDeadLetter
<1>5. CASE DeadLetter(r) \/ CascadeDeadLetter(r)
  <2>1. Cur(r) \in Task
    BY <1>5 DEF TaskSteps, FailureSteps, DeadLetter, CascadeDeadLetter, TypeInv
  <2>2. \E why \in {"dead_lettered", "dependency_dead_lettered"} :
          reasons' = [reasons EXCEPT ![Cur(r)] = @ \cup {why}]
    BY <1>5 DEF DeadLetter, CascadeDeadLetter, Transition
  <2>3. \A t \in Task : t # Cur(r) => Dead(t)' = Dead(t)
    BY <2>1, <2>2 DEF TypeInv, TypeOK, Dead
  <2>4. Dead(Cur(r))'
    <3>1. Cur(r)' = Cur(r)
      BY <1>5 DEF DeadLetter, CascadeDeadLetter, busVars, Cur
    <3>2. PICK why \in {"dead_lettered", "dependency_dead_lettered"} :
            reasons' = [reasons EXCEPT ![Cur(r)] = @ \cup {why}]
      BY <2>2
    <3>3. why \in reasons'[Cur(r)]
      BY <2>1, <3>2 DEF TypeInv, TypeOK
    <3> QED
      BY <3>1, <3>3 DEF Dead
  <2> QED
    BY <1>5, <2>1, <2>3, <2>4
<1>6. \/ UNCHANGED reasons
      \/ InsertTaskBatch(r) \/ StartTask(r) \/ HandlerCompletes(r) \/ HandlerBlocks(r)
      \/ ScheduleRetry(r) \/ AdvanceDependent(r) \/ DeadLetter(r) \/ CascadeDeadLetter(r)
  BY DEF Step, HandleHeartbeat, DispatchTask, HandleFailure, ReceiveEvents, ReceiveTasks,
         CompleteMessage, PublishTask, HeartbeatHandled, GateCleared, DuplicateDropped,
         NotDispatchable, FindBlockedDependency, HandlerRaises, SelectPendingDependents,
         CountCompletedDeps, RequeueNotReady, GiveUpNotReady, FailureIgnored,
         FailureAccepted, IncrementRetry, CascadeIgnored, CascadeAccepted, EmitAlert,
         rowVars
<1> QED
  BY <1>1, <1>2, <1>3, <1>4, <1>5, <1>6

\* An alert is published by EmitAlert, the last step of a dead task.
LEMMA AlertMoves ==
  ASSUME TypeInv, NEW r \in Replica, Step(r)
  PROVE  /\ ~EmitAlert(r) => alerts' = alerts /\ pc[r] # "alert"
         /\ pc'[r] = "alert" => DeadLetter(r) \/ CascadeDeadLetter(r)
BY DEF Step, HandleHeartbeat, DispatchTask, HandleFailure, ReceiveEvents, ReceiveTasks,
       CompleteMessage, InsertTaskBatch, PublishTask, HeartbeatHandled, GateCleared,
       DuplicateDropped, NotDispatchable, FindBlockedDependency, StartTask,
       HandlerCompletes, HandlerBlocks, HandlerRaises, SelectPendingDependents,
       CountCompletedDeps, AdvanceDependent, RequeueNotReady, GiveUpNotReady,
       FailureIgnored, FailureAccepted, IncrementRetry, ScheduleRetry, DeadLetter,
       CascadeIgnored, CascadeAccepted, CascadeDeadLetter, EmitAlert, Goto, FirstStep,
       TypeInv, TypeOK

\* Tasks that a replica has still to publish.
ToPublish(r) == IF pc[r] = "publish" THEN todo[r] ELSE {}

\* A message is received, requeued or published; no step makes one about a task
\* that had none.
LEMMA MessagesStay ==
  ASSUME TypeInv, OneEach, NEW r \in Replica, Step(r)
  PROVE  /\ Messages(taskQueue') \subseteq Messages(taskQueue) \cup Waiting(r) \cup ToPublish(r)
         /\ Waiting(r)' \subseteq Messages(taskQueue) \cup Waiting(r)
         /\ ToPublish(r)' \subseteq ToPublish(r)
<1>3. pc'[r] = "publish" => pc[r] = "publish" /\ todo'[r] \subseteq todo[r]
  BY DEF Step, HandleHeartbeat, DispatchTask, HandleFailure, ReceiveEvents, ReceiveTasks,
         CompleteMessage, InsertTaskBatch, PublishTask, HeartbeatHandled, GateCleared,
         DuplicateDropped, NotDispatchable, FindBlockedDependency, StartTask,
         HandlerCompletes, HandlerBlocks, HandlerRaises, SelectPendingDependents,
         CountCompletedDeps, AdvanceDependent, RequeueNotReady, GiveUpNotReady,
         FailureIgnored, FailureAccepted, IncrementRetry, ScheduleRetry, DeadLetter,
         CascadeIgnored, CascadeAccepted, CascadeDeadLetter, EmitAlert, Goto, FirstStep,
         TypeInv, TypeOK, OneEach
<1>4. ToPublish(r)' \subseteq ToPublish(r)
  BY <1>3 DEF ToPublish
<1>5. CASE ReceiveTasks(r)
  <2>1. PICK n \in 1..BatchMax :
          /\ n <= Len(taskQueue)
          /\ batch' = [batch EXCEPT ![r] = Locked(taskQueue, n)]
          /\ taskQueue' = SubSeq(taskQueue, n + 1, Len(taskQueue))
          /\ pc' = [pc EXCEPT ![r] = IF Head(taskQueue).redelivered
                                     THEN "rf_read" ELSE "check"]
    BY <1>5 DEF ReceiveTasks, Goto
  <2>2. taskQueue \in Seq(Message) /\ n \in 1..Len(taskQueue)
    BY <2>1, DispatchAssumption, LenProperties DEF TypeInv, TypeOK
  <2>3. Messages(batch'[r]) \subseteq Messages(taskQueue)
        /\ Messages(taskQueue') \subseteq Messages(taskQueue)
    BY <2>1, <2>2, MessagesPrefix DEF TypeInv, TypeOK
  <2>4. Waiting(r)' = Messages(batch'[r])
    BY <2>1 DEF Waiting, TypeInv, TypeOK
  <2> QED
    BY <1>4, <2>3, <2>4
<1>6. CASE PublishTask(r)
  <2>1. PICK t \in todo[r] : taskQueue' = Append(taskQueue, NewMessage(t, 0))
    BY <1>6 DEF PublishTask
  <2>2. t \in Task /\ taskQueue \in Seq(Message) /\ t \in ToPublish(r)
    BY <1>6, <2>1 DEF TypeInv, TypeOK, PublishTask, ToPublish
  <2>3. Messages(taskQueue') = Messages(taskQueue) \cup {t}
    BY <2>1, <2>2, MessagesAppend
  <2>4. Waiting(r)' = Waiting(r)
    BY <1>6 DEF PublishTask, Waiting
  <2> QED
    BY <1>4, <2>2, <2>3, <2>4
<1>7. CASE RequeueNotReady(r)
  <2>1. /\ taskQueue' = Append(taskQueue, NewMessage(Cur(r), Head(batch[r]).requeues + 1))
        /\ pc[r] \in TaskSteps /\ pc[r] # "complete" /\ batch[r] # <<>>
        /\ batch' = batch
    BY <1>7 DEF RequeueNotReady, TaskSteps, FailureSteps, TypeInv
  <2>2. Cur(r) \in Task /\ Cur(r) \in Waiting(r)
    BY <2>1, HeldIsWaiting
  <2>3. batch[r] \in Seq(Message) /\ taskQueue \in Seq(Message)
    BY DEF TypeInv, TypeOK
  <2>4. Head(batch[r]).requeues + 1 \in Nat
    <3>1. Head(batch[r]) \in Message
      BY <2>1, <2>3, HeadTailProperties
    <3> QED
      BY <3>1 DEF Message
  <2>5. Messages(taskQueue') = Messages(taskQueue) \cup {Cur(r)}
    BY <2>1, <2>2, <2>3, <2>4, MessagesAppend
  <2>6. Waiting(r)' \subseteq Waiting(r)
    BY <2>1, <2>3, MessagesTail DEF Waiting
  <2> QED
    BY <1>4, <2>2, <2>5, <2>6
<1>8. CASE CompleteMessage(r)
  <2>1. /\ pc[r] = "complete" /\ batch'[r] = Tail(batch[r]) /\ taskQueue' = taskQueue
        /\ pc'[r] # "complete"
    BY <1>8 DEF CompleteMessage, Goto, FirstStep, TypeInv, TypeOK
  <2>2. Waiting(r)' = Waiting(r)
    BY <2>1 DEF Waiting
  <2> QED
    BY <1>4, <2>1, <2>2
<1>9. CASE UNCHANGED <<taskQueue, batch>> /\ pc[r] # "complete" /\ pc[r] # "idle"
  <2>1. batch[r] \in Seq(Message) /\ batch[r] # <<>>
    BY <1>9 DEF TypeInv, TypeOK
  <2>2. Waiting(r)' \subseteq Waiting(r)
    BY <1>9, <2>1, MessagesTail DEF Waiting
  <2> QED
    BY <1>4, <1>9, <2>2
<1>10. ~ReceiveEvents(r)
  BY DispatchAssumption DEF ReceiveEvents, OneEach
<1>11. \/ ReceiveTasks(r) \/ PublishTask(r) \/ RequeueNotReady(r) \/ CompleteMessage(r)
       \/ UNCHANGED <<taskQueue, batch>> /\ pc[r] # "complete" /\ pc[r] # "idle"
  BY <1>10
  DEF Step, HandleHeartbeat, DispatchTask, HandleFailure, InsertTaskBatch,
      HeartbeatHandled, GateCleared, DuplicateDropped, NotDispatchable,
      FindBlockedDependency, StartTask, HandlerCompletes, HandlerBlocks, HandlerRaises,
      SelectPendingDependents, CountCompletedDeps, AdvanceDependent, GiveUpNotReady,
      FailureIgnored, FailureAccepted, IncrementRetry, ScheduleRetry, DeadLetter,
      CascadeIgnored, CascadeAccepted, CascadeDeadLetter, EmitAlert, busVars
<1> QED
  BY <1>5, <1>6, <1>7, <1>8, <1>9, <1>11

\* Messages about live tasks only are received, requeued and published.
LEMMA AlertMessages ==
  ASSUME TypeInv, OneEach, AlertInv, NEW r \in Replica, Step(r), pc[r] # "alert"
  PROVE  /\ \A t \in Messages(taskQueue') : t \in Task /\ ~Dead(t)
         /\ \A t \in Waiting(r)' \cap Task : ~Dead(t)
         /\ pc'[r] = "publish" => \A t \in todo'[r] : t \in Task /\ ~Dead(t)
<1>1. Messages(taskQueue) \subseteq Task /\ Messages(taskQueue') \subseteq Task
  <2>1. TypeInv'
    BY TypeStep DEF Next
  <2> QED
    BY <2>1 DEF TypeInv, TaskMessages, Messages
<1>2. /\ \A t \in Messages(taskQueue) : ~Dead(t)
      /\ \A t \in Waiting(r) \cap Task : ~Dead(t)
      /\ \A t \in ToPublish(r) : t \in Task /\ ~Dead(t)
  BY DEF AlertInv, ToPublish, TypeInv, TypeOK
<1>3. pc'[r] = "publish" => todo'[r] = ToPublish(r)'
  BY DEF ToPublish
<1> QED
  BY <1>1, <1>2, <1>3, MessagesStay

\* The step of a replica keeps the alerts of the other tasks and of its own.
LEMMA AlertReplicaStep ==
  ASSUME TypeInv, OneEach, AlertInv, NEW r \in Replica, Step(r)
  PROVE  AlertInv'
<1>1. OneEach'
  BY OneEachStep
<1>2. TypeInv'
  BY TypeStep DEF Next
<1>3. \A s \in Replica : s # r => pc'[s] = pc[s] /\ batch'[s] = batch[s] /\ todo'[s] = todo[s]
  BY StepIsLocal
<1>4. \A s \in Replica : s # r => Waiting(s)' = Waiting(s) /\ Cur(s)' = Cur(s)
  BY <1>3 DEF Waiting, Cur
<1>5. CASE DeadLetter(r) \/ CascadeDeadLetter(r)
  <2> DEFINE c == Cur(r)
  <2>1. /\ pc[r] \in TaskSteps /\ pc[r] # "alert" /\ pc[r] # "complete"
        /\ UNCHANGED <<busVars, todo, alerts>> /\ pc' = [pc EXCEPT ![r] = "alert"]
    BY <1>5 DEF DeadLetter, CascadeDeadLetter, Goto, localVars, TaskSteps, FailureSteps
  <2>2. c \in Task /\ c \in Waiting(r)
    BY <2>1, HeldIsWaiting
  <2>3. PICK c0 \in Task : c0 = c
    BY <2>2
  <2>4. Cur(r) = c0 /\ Cur(r)' = c0 /\ pc'[r] = "alert"
    BY <2>1, <2>3 DEF busVars, Cur, TypeInv, TypeOK
  <2>5. Dead(c0)' /\ \A t \in Task : t # c0 => Dead(t)' = Dead(t)
    BY <1>5, <2>4, DeadMoves
  <2>6. \A s \in Replica : Waiting(s)' = Waiting(s)
    BY <1>3, <2>1 DEF Waiting, busVars, TypeInv, TypeOK
  <2>7. c0 \notin Messages(taskQueue) /\ \A s \in Replica : s # r => c0 \notin Waiting(s)
    BY <2>2, <2>3 DEF OneEach
  <2>8. alerts[c0] = 0
    <3>1. ~Dead(c0)
      BY <2>1, <2>2, <2>3 DEF AlertInv
    <3> QED
      BY <3>1 DEF AlertInv
  <2>9. AlertDue(c0)' /\ \A t \in Task : t # c0 => AlertDue(t)' = AlertDue(t)
    BY <1>3, <1>4, <2>1, <2>4 DEF AlertDue
  <2>10. \A t \in Task : alerts'[t] = IF Dead(t)' /\ ~AlertDue(t)' THEN 1 ELSE 0
    BY <2>1, <2>5, <2>8, <2>9 DEF AlertInv
  <2>11. \A t \in Messages(taskQueue') : ~Dead(t)'
    <3>1. Messages(taskQueue) \subseteq Task
      BY DEF TypeInv, TaskMessages, Messages
    <3> QED
      BY <2>1, <2>5, <2>7, <3>1 DEF AlertInv, busVars
  <2>12. ASSUME NEW s \in Replica, NEW t \in Waiting(s)' \cap Task
         PROVE  Dead(t)' <=> (pc'[s] = "alert" /\ t = Cur(s)')
    <3>1. CASE s = r /\ t = c0
      BY <2>4, <2>5, <3>1
    <3>2. CASE s = r /\ t # c0
      BY <2>1, <2>4, <2>5, <2>6, <2>12, <3>2 DEF AlertInv
    <3>3. CASE s # r
      BY <1>3, <1>4, <2>5, <2>6, <2>7, <2>12, <3>3 DEF AlertInv
    <3> QED
      BY <3>1, <3>2, <3>3
  <2>13. ASSUME NEW s \in Replica, pc'[s] = "publish", NEW t \in todo'[s]
         PROVE  ~Dead(t)'
    <3>1. s # r /\ pc[s] = "publish" /\ t \in todo[s] /\ t \in Task
      BY <1>3, <2>1, <2>4, <2>13 DEF TypeInv, TypeOK
    <3>2. t # c0
      BY <2>2, <2>3, <3>1 DEF OneEach, SolePublisher
    <3> QED
      BY <2>5, <3>1, <3>2 DEF AlertInv
  <2> QED
    BY <2>10, <2>11, <2>12, <2>13 DEF AlertInv
<1>6. CASE EmitAlert(r)
  <2>1. /\ pc[r] = "alert" /\ pc[r] \in TaskSteps /\ UNCHANGED <<rowVars, busVars, todo>>
        /\ alerts' = [alerts EXCEPT ![Cur(r)] = @ + 1]
        /\ pc' = [pc EXCEPT ![r] = "complete"]
    BY <1>6 DEF EmitAlert, Goto, localVars, TaskSteps, FailureSteps
  <2>2. Cur(r) \in Task /\ Cur(r) \in Waiting(r)
    BY <2>1, HeldIsWaiting
  <2>3. PICK c0 \in Task : c0 = Cur(r)
    BY <2>2
  <2>4. /\ batch[r] \in Seq(Message) /\ batch[r] # <<>> /\ pc'[r] = "complete"
        /\ NoDup(batch[r])
    BY <2>1 DEF TypeInv, TypeOK, OneEach
  <2>5. /\ Waiting(r)' = Waiting(r) \ {c0}
        /\ \A s \in Replica : s # r => Waiting(s)' = Waiting(s) /\ c0 \notin Waiting(s)
    <3>1. Waiting(r)' = Messages(Tail(batch[r])) /\ Waiting(r) = Messages(batch[r])
      BY <2>1, <2>4 DEF Waiting, busVars
    <3>2. Messages(batch[r]) = {c0} \cup Messages(Tail(batch[r]))
          /\ c0 \notin Messages(Tail(batch[r]))
      BY <2>3, <2>4, MessagesTail DEF Cur
    <3> QED
      BY <1>4, <2>2, <2>3, <3>1, <3>2 DEF OneEach
  <2>6. \A t : Dead(t)' = Dead(t)
    BY <2>1 DEF Dead, rowVars
  <2>7. /\ ~AlertDue(c0)' /\ AlertDue(c0) /\ Dead(c0)
        /\ \A t \in Task : t # c0 => AlertDue(t)' = AlertDue(t)
    <3>1. ASSUME NEW s \in Replica, pc[s] = "alert", Cur(s) = c0 PROVE s = r
      BY <2>5, <3>1, HeldIsWaiting DEF TaskSteps, FailureSteps
    <3>2. ~AlertDue(c0)'
      BY <1>3, <1>4, <2>4, <3>1 DEF AlertDue
    <3>3. AlertDue(c0) /\ Dead(c0)
      BY <2>1, <2>2, <2>3 DEF AlertDue, AlertInv
    <3>4. ASSUME NEW t \in Task, t # c0 PROVE AlertDue(t)' = AlertDue(t)
      BY <1>3, <1>4, <2>1, <2>3, <2>4, <3>4 DEF AlertDue
    <3> QED
      BY <3>2, <3>3, <3>4
  <2>8. \A t \in Task : alerts'[t] = IF Dead(t)' /\ ~AlertDue(t)' THEN 1 ELSE 0
    BY <2>1, <2>3, <2>6, <2>7 DEF AlertInv, TypeInv, TypeOK
  <2>9. \A t \in Messages(taskQueue') : ~Dead(t)'
    BY <2>1, <2>6 DEF AlertInv, busVars
  <2>10. ASSUME NEW s \in Replica, NEW t \in Waiting(s)' \cap Task
         PROVE  Dead(t)' <=> (pc'[s] = "alert" /\ t = Cur(s)')
    <3>1. CASE s = r
      BY <2>1, <2>3, <2>4, <2>5, <2>6, <2>10, <3>1 DEF AlertInv
    <3>2. CASE s # r
      BY <1>3, <1>4, <2>5, <2>6, <2>10, <3>2 DEF AlertInv
    <3> QED
      BY <3>1, <3>2
  <2>11. \A s \in Replica : pc'[s] = "publish" => \A t \in todo'[s] : ~Dead(t)'
    BY <1>3, <2>4, <2>6 DEF AlertInv
  <2> QED
    BY <2>8, <2>9, <2>10, <2>11 DEF AlertInv
<1>7. CASE ~DeadLetter(r) /\ ~CascadeDeadLetter(r) /\ ~EmitAlert(r)
  <2>1. alerts' = alerts /\ pc[r] # "alert" /\ pc'[r] # "alert"
    BY <1>7, AlertMoves
  <2>2. \A t \in Task : Dead(t)' = Dead(t)
    BY <1>7, DeadMoves
  <2>3. \A t \in Task : AlertDue(t)' = AlertDue(t)
    BY <1>3, <1>4, <2>1 DEF AlertDue
  <2>4. \A t \in Task : alerts'[t] = IF Dead(t)' /\ ~AlertDue(t)' THEN 1 ELSE 0
    BY <2>1, <2>2, <2>3 DEF AlertInv
  <2>5. /\ \A t \in Messages(taskQueue') : t \in Task /\ ~Dead(t)
        /\ \A t \in Waiting(r)' \cap Task : ~Dead(t)
        /\ pc'[r] = "publish" => \A t \in todo'[r] : t \in Task /\ ~Dead(t)
    BY AlertMessages, <2>1, <1>7
  <2>6. ASSUME NEW s \in Replica, NEW t \in Waiting(s)' \cap Task
        PROVE  Dead(t)' <=> (pc'[s] = "alert" /\ t = Cur(s)')
    <3>1. CASE s = r
      BY <2>1, <2>2, <2>5, <2>6, <3>1
    <3>2. CASE s # r
      BY <1>3, <1>4, <2>2, <2>6, <3>2 DEF AlertInv
    <3> QED
      BY <3>1, <3>2
  <2>7. ASSUME NEW s \in Replica, pc'[s] = "publish", NEW t \in todo'[s]
        PROVE  ~Dead(t)'
    <3>1. CASE s = r
      BY <2>2, <2>5, <2>7, <3>1
    <3>2. CASE s # r
      BY <1>3, <2>2, <2>7, <3>2 DEF AlertInv, TypeInv, TypeOK
    <3> QED
      BY <3>1, <3>2
  <2> QED
    BY <2>2, <2>4, <2>5, <2>6, <2>7 DEF AlertInv
<1> QED
  BY <1>5, <1>6, <1>7

\* As long as the heartbeat is not read, nothing happens to any task.
LEMMA UnreadAlertStep ==
  ASSUME TypeInv, Unread, AlertInv, NEW r \in Replica, Step(r)
  PROVE  AlertInv'
<1>1. \A t \in Task : alerts[t] = 0 /\ ~Dead(t)
  BY DEF Unread, AlertInv, TypeInv, Dead
<1>2. pc[r] \in {"idle", "insert", "complete"}
  BY DEF Unread
<1>3. /\ ~EmitAlert(r) /\ ~DeadLetter(r) /\ ~CascadeDeadLetter(r)
      /\ ~PublishTask(r) /\ ~RequeueNotReady(r)
  BY <1>2 DEF EmitAlert, DeadLetter, CascadeDeadLetter, PublishTask, RequeueNotReady
<1>4. alerts' = alerts /\ \A t \in Task : Dead(t)' = Dead(t)
  BY <1>3, AlertMoves, DeadMoves
<1>5. pc'[r] # "alert" /\ \A s \in Replica : s # r => pc'[s] = pc[s]
  BY <1>3, AlertMoves, StepIsLocal
<1>6. \A s \in Replica : pc'[s] # "alert"
  BY <1>5 DEF Unread
<1>7. TypeInv'
  BY TypeStep DEF Next
<1>8. \A t \in Messages(taskQueue') : t \in Task
  BY <1>7 DEF TypeInv, TaskMessages, Messages
<1>9. \A s \in Replica : todo'[s] \subseteq Task
  BY <1>7 DEF TypeInv, TypeOK
<1> QED
  BY <1>1, <1>4, <1>6, <1>8, <1>9 DEF AlertInv

LEMMA AlertInit == Init => SoundAlerts
<1> SUFFICES ASSUME Init PROVE AlertInv
  BY DEF SoundAlerts
<1>1. \A t \in Task : ~Dead(t) /\ ~AlertDue(t) /\ alerts[t] = 0
  BY DEF Init, Start, Dead, AlertDue
<1>2. Messages(taskQueue) = {} /\ \A r \in Replica : pc[r] = "idle"
  BY DEF Init, Start, Messages
<1>3. \A r \in Replica : Waiting(r) = {}
  BY <1>2 DEF Init, Start, Messages, Waiting
<1> QED
  BY <1>1, <1>2, <1>3 DEF AlertInv

LEMMA AlertStep == TypeInv /\ Solo /\ SoundAlerts /\ [Next]_vars => SoundAlerts'
<1> SUFFICES ASSUME TypeInv, Solo, SoundAlerts, [Next]_vars, NoFault' PROVE AlertInv'
  BY DEF SoundAlerts
<1>1. \A r \in Replica : ~LockExpires(r) /\ ~Crash(r) /\ ~StepRaises(r)
  BY FaultsGrow DEF FaultKinds, NoFault
<1>2. \A k \in FaultKinds : faults[k] = 0
  BY FaultsGrow DEF NoFault
<1>3. AlertInv /\ (Unread \/ OneEach)
  BY <1>2 DEF SoundAlerts, NoFault, Solo, FaultKinds
<1>4. ~OrphanReturns
  BY <1>3 DEF Unread, OneEach, OrphanReturns
<1>5. ASSUME NEW r \in Replica, Step(r) PROVE AlertInv'
  <2>1. CASE OneEach
    BY <1>3, <1>5, <2>1, AlertReplicaStep
  <2>2. CASE Unread
    BY <1>3, <1>5, <2>2, UnreadAlertStep
  <2> QED
    BY <1>3, <2>1, <2>2
<1>6. CASE UNCHANGED vars
  BY <1>3, <1>6
  DEF AlertInv, Dead, AlertDue, Waiting, Cur, vars, rowVars, busVars, localVars
<1> QED
  BY <1>1, <1>4, <1>5, <1>6 DEF Next, Faulty, Quiet

\* worker.handle_dead_letter_alert, dead_letter.emit_alert: for any loop and any
\* number of replicas, a task that is dead-lettered, by its third strike or by a
\* dependency, has exactly one alert once the replica that buried it is past
\* that step, and no other task has one; as long as no fault happens.
THEOREM OneAlertEach == ASSUME OneHeartbeat PROVE Spec => []OneAlertPerDeadTask
<1>1. SoundAlerts => OneAlertPerDeadTask
  BY DEF SoundAlerts, NoFault, AlertInv, OneAlertPerDeadTask, Dead, AlertDue
<1>2. Init => TypeInv /\ Solo /\ SoundAlerts
  BY TypeInit, SoloInit, AlertInit
<1>3. TypeInv /\ Solo /\ SoundAlerts /\ [Next]_vars => (TypeInv /\ Solo /\ SoundAlerts)'
  BY TypeStep, SoloStep, AlertStep
<1> QED
  BY <1>1, <1>2, <1>3, PTL DEF Spec

-----------------------------------------------------------------------------
(* A cascade is a certainty *)

FinalReasons == BlockReasons \cup {"completed"}
Outcomes(t) == reasons[t] \cap FinalReasons

\* What a replica still has to do for a task with an outcome.
WindingUp == {"select", "count", "advance", "alert"}

\* A task has one outcome at most: once it has one, no message about it is left
\* to be handled, but the one whose handling led to it.
OutcomeInv ==
  /\ \A t \in Task : \A x, y \in Outcomes(t) : x = y
  /\ \A t \in Messages(taskQueue) : Outcomes(t) = {}
  /\ \A r \in Replica :
       /\ \A t \in Waiting(r) \cap Task : Outcomes(t) = {} \/ (pc[r] \in WindingUp /\ t = Cur(r))
       /\ \A t \in ToPublish(r) : Outcomes(t) = {}

OneOutcome == NoFault => OutcomeInv

\* A replica gives the task it handles an outcome in three places.
GivesOutcome(r) ==
  /\ pc[r] \in {"handler", "rf_move", "cas_move"}
  /\ pc'[r] \in WindingUp \cup {"complete"}
  /\ UNCHANGED <<busVars, todo>>
  /\ \E why \in FinalReasons : reasons' = [reasons EXCEPT ![Cur(r)] = @ \cup {why}]

LEMMA OutcomeMoves ==
  ASSUME TypeInv, NEW r \in Replica, Step(r)
  PROVE  GivesOutcome(r) \/ \A t \in Task : Outcomes(t)' = Outcomes(t)
<1> USE DEF FinalReasons, BlockReasons
<1>1. CASE UNCHANGED reasons
  BY <1>1 DEF Outcomes
<1>2. CASE InsertTaskBatch(r)
  <2>1. ASSUME NEW t \in Task PROVE Outcomes(t)' = Outcomes(t)
    <3>1. CASE state[t] = "absent"
      BY <1>2, <3>1 DEF InsertTaskBatch, TypeInv, TypeOK, Outcomes
    <3>2. CASE state[t] # "absent"
      BY <1>2, <3>2 DEF InsertTaskBatch, TypeInv, TypeOK, Outcomes
    <3> QED
      BY <3>1, <3>2
  <2> QED
    BY <2>1
<1>3. CASE StartTask(r) \/ ScheduleRetry(r)
  <2>1. \E why \in Reasons \ FinalReasons :
          reasons' = [reasons EXCEPT ![Cur(r)] = @ \cup {why}]
    BY <1>3 DEF StartTask, ScheduleRetry, Transition, Reasons
  <2> QED
    BY <2>1 DEF TypeInv, TypeOK, Outcomes
<1>4. CASE AdvanceDependent(r)
  <2>1. PICK t \in todo[r] :
          reasons' = [reasons EXCEPT ![t] = @ \cup {"dependency_satisfied"}]
    BY <1>4 DEF AdvanceDependent, Transition
  <2> QED
    BY <2>1 DEF TypeInv, TypeOK, Outcomes
<1>5. CASE \/ HandlerCompletes(r) \/ HandlerBlocks(r) \/ DeadLetter(r)
           \/ CascadeDeadLetter(r)
  BY <1>5
  DEF HandlerCompletes, HandlerBlocks, DeadLetter, CascadeDeadLetter, Transition, Goto,
      GivesOutcome, WindingUp, localVars, TypeInv, TypeOK
<1>6. \/ UNCHANGED reasons
      \/ InsertTaskBatch(r) \/ StartTask(r) \/ HandlerCompletes(r) \/ HandlerBlocks(r)
      \/ ScheduleRetry(r) \/ AdvanceDependent(r) \/ DeadLetter(r) \/ CascadeDeadLetter(r)
  BY DEF Step, HandleHeartbeat, DispatchTask, HandleFailure, ReceiveEvents, ReceiveTasks,
         CompleteMessage, PublishTask, HeartbeatHandled, GateCleared, DuplicateDropped,
         NotDispatchable, FindBlockedDependency, HandlerRaises, SelectPendingDependents,
         CountCompletedDeps, RequeueNotReady, GiveUpNotReady, FailureIgnored,
         FailureAccepted, IncrementRetry, CascadeIgnored, CascadeAccepted, EmitAlert,
         rowVars
<1> QED
  BY <1>1, <1>2, <1>3, <1>4, <1>5, <1>6

\* Winding up ends with the completion of the message.
LEMMA WindingUpMoves ==
  ASSUME TypeInv, NEW r \in Replica, Step(r), pc[r] \in WindingUp
  PROVE  pc'[r] \in WindingUp \cup {"complete"} /\ UNCHANGED busVars
BY DEF Step, HandleHeartbeat, DispatchTask, HandleFailure, ReceiveEvents, ReceiveTasks,
       CompleteMessage, InsertTaskBatch, PublishTask, HeartbeatHandled, GateCleared,
       DuplicateDropped, NotDispatchable, FindBlockedDependency, StartTask,
       HandlerCompletes, HandlerBlocks, HandlerRaises, SelectPendingDependents,
       CountCompletedDeps, AdvanceDependent, RequeueNotReady, GiveUpNotReady,
       FailureIgnored, FailureAccepted, IncrementRetry, ScheduleRetry, DeadLetter,
       CascadeIgnored, CascadeAccepted, CascadeDeadLetter, EmitAlert, Goto,
       WindingUp, TypeInv, TypeOK

\* A replica that winds up has no message left about the task once it completes
\* the one it holds.
LEMMA WaitingLeft ==
  ASSUME TypeInv, OneEach, NEW r \in Replica, pc[r] \in TaskSteps, UNCHANGED busVars,
         pc'[r] \in WindingUp \cup {"complete"}
  PROVE  /\ Waiting(r)' \subseteq Waiting(r) /\ Cur(r)' = Cur(r)
         /\ pc'[r] = "complete" => Cur(r) \notin Waiting(r)'
<1>1. batch[r] \in Seq(Message) /\ batch[r] # <<>> /\ NoDup(batch[r]) /\ pc[r] # "complete"
  BY DEF TypeInv, TypeOK, OneEach, TaskSteps, DispatchSteps, FailureSteps
<1>2. /\ Messages(batch[r]) = {Cur(r)} \cup Messages(Tail(batch[r]))
      /\ Cur(r) \notin Messages(Tail(batch[r]))
  BY <1>1, MessagesTail DEF Cur
<1>3. Waiting(r) = Messages(batch[r]) /\ Cur(r)' = Cur(r)
  BY <1>1 DEF Waiting, busVars, Cur
<1>4. Waiting(r)' = IF pc'[r] = "complete" THEN Messages(Tail(batch[r])) ELSE Messages(batch[r])
  BY DEF Waiting, busVars
<1> QED
  BY <1>2, <1>3, <1>4

\* Every message left is still about a task without an outcome.
LEMMA OutcomeReplicaStep ==
  ASSUME TypeInv, OneEach, OutcomeInv, NEW r \in Replica, Step(r)
  PROVE  OutcomeInv'
<1>1. /\ Messages(taskQueue) \subseteq Task /\ Messages(taskQueue') \subseteq Task
      /\ \A s \in Replica : ToPublish(s) \subseteq Task
  <2>1. TypeInv'
    BY TypeStep DEF Next
  <2> QED
    BY <2>1 DEF TypeInv, TypeOK, TaskMessages, Messages, ToPublish
<1>2. \A s \in Replica : s # r => pc'[s] = pc[s] /\ batch'[s] = batch[s] /\ todo'[s] = todo[s]
  BY StepIsLocal
<1>3. \A s \in Replica : s # r =>
        Waiting(s)' = Waiting(s) /\ Cur(s)' = Cur(s) /\ ToPublish(s)' = ToPublish(s)
  BY <1>2 DEF Waiting, Cur, ToPublish
<1>4. /\ Messages(taskQueue') \subseteq Messages(taskQueue) \cup Waiting(r) \cup ToPublish(r)
      /\ Waiting(r)' \subseteq Messages(taskQueue) \cup Waiting(r)
      /\ ToPublish(r)' \subseteq ToPublish(r)
  BY MessagesStay
<1>5. CASE GivesOutcome(r)
  <2>1. /\ pc[r] \in TaskSteps /\ pc[r] \notin WindingUp \cup {"publish"}
        /\ pc'[r] \in WindingUp \cup {"complete"} /\ UNCHANGED <<busVars, todo>>
    BY <1>5 DEF GivesOutcome, TaskSteps, DispatchSteps, FailureSteps, WindingUp
  <2>2. Cur(r) \in Waiting(r) /\ Cur(r) \in Task
    BY <2>1, HeldIsWaiting
  <2>3. PICK c \in Task : c = Cur(r)
    BY <2>2
  <2>4. PICK why \in FinalReasons : reasons' = [reasons EXCEPT ![c] = @ \cup {why}]
    BY <1>5, <2>3 DEF GivesOutcome
  <2>5. Outcomes(c) = {}
    BY <2>1, <2>2, <2>3 DEF OutcomeInv
  <2>6. reasons'[c] = reasons[c] \cup {why} /\ \A t \in Task : t # c => reasons'[t] = reasons[t]
    BY <2>4 DEF TypeInv, TypeOK
  <2>7. /\ \A x, y \in Outcomes(c)' : x = y
        /\ \A t \in Task : t # c => Outcomes(t)' = Outcomes(t)
    BY <2>5, <2>6 DEF Outcomes
  <2>8. /\ Waiting(r)' \subseteq Waiting(r) /\ Cur(r)' = c
        /\ pc'[r] = "complete" => c \notin Waiting(r)'
    BY <2>1, <2>3, WaitingLeft
  <2>9. /\ c \notin Messages(taskQueue) /\ taskQueue' = taskQueue
        /\ \A s \in Replica : s # r => c \notin Waiting(s)
        /\ \A s \in Replica : c \notin ToPublish(s)
    BY <2>1, <2>2, <2>3 DEF OneEach, SolePublisher, ToPublish, busVars
  <2>10. \A t \in Task : \A x, y \in Outcomes(t)' : x = y
    BY <2>7 DEF OutcomeInv
  <2>11. \A t \in Messages(taskQueue') : Outcomes(t)' = {}
    BY <1>1, <2>7, <2>9 DEF OutcomeInv
  <2>12. ASSUME NEW s \in Replica, NEW t \in Waiting(s)' \cap Task
         PROVE  Outcomes(t)' = {} \/ (pc'[s] \in WindingUp /\ t = Cur(s)')
    <3>1. CASE s = r /\ t = c
      BY <2>1, <2>8, <2>12, <3>1
    <3>2. CASE s = r /\ t # c
      BY <2>1, <2>7, <2>8, <2>12, <3>2 DEF OutcomeInv
    <3>3. CASE s # r
      BY <1>2, <1>3, <2>7, <2>9, <2>12, <3>3 DEF OutcomeInv
    <3> QED
      BY <3>1, <3>2, <3>3
  <2>13. ASSUME NEW s \in Replica, NEW t \in ToPublish(s)' PROVE Outcomes(t)' = {}
    <3>1. t \in ToPublish(s) /\ t \in Task
      BY <1>1, <1>3, <1>4, <2>13
    <3> QED
      BY <2>7, <2>9, <3>1 DEF OutcomeInv
  <2> QED
    BY <2>10, <2>11, <2>12, <2>13 DEF OutcomeInv
<1>6. CASE ~GivesOutcome(r) /\ pc[r] \in WindingUp
  <2>1. \A t \in Task : Outcomes(t)' = Outcomes(t)
    BY <1>6, OutcomeMoves
  <2>2. /\ pc[r] \in TaskSteps /\ pc'[r] \in WindingUp \cup {"complete"}
        /\ UNCHANGED busVars
    BY <1>6, WindingUpMoves DEF WindingUp, TaskSteps, DispatchSteps, FailureSteps
  <2>3. /\ Waiting(r)' \subseteq Waiting(r) /\ Cur(r)' = Cur(r)
        /\ pc'[r] = "complete" => Cur(r) \notin Waiting(r)'
    BY <2>2, WaitingLeft
  <2>4. \A t \in Messages(taskQueue') : Outcomes(t)' = {}
    BY <1>1, <2>1, <2>2 DEF OutcomeInv, busVars
  <2>5. ASSUME NEW s \in Replica, NEW t \in Waiting(s)' \cap Task
        PROVE  Outcomes(t)' = {} \/ (pc'[s] \in WindingUp /\ t = Cur(s)')
    <3>1. CASE s = r
      BY <2>1, <2>2, <2>3, <2>5, <3>1 DEF OutcomeInv
    <3>2. CASE s # r
      BY <1>2, <1>3, <2>1, <2>5, <3>2 DEF OutcomeInv
    <3> QED
      BY <3>1, <3>2
  <2>6. \A s \in Replica : \A t \in ToPublish(s)' : Outcomes(t)' = {}
    BY <1>1, <1>3, <1>4, <2>1 DEF OutcomeInv
  <2> QED
    BY <2>1, <2>4, <2>5, <2>6 DEF OutcomeInv
<1>7. CASE ~GivesOutcome(r) /\ pc[r] \notin WindingUp
  <2>1. \A t \in Task : Outcomes(t)' = Outcomes(t)
    BY <1>7, OutcomeMoves
  <2>2. /\ \A t \in Messages(taskQueue) : Outcomes(t) = {}
        /\ \A t \in Waiting(r) \cap Task : Outcomes(t) = {}
        /\ \A t \in ToPublish(r) : Outcomes(t) = {}
    BY <1>7 DEF OutcomeInv
  <2>3. \A t \in Messages(taskQueue') : Outcomes(t)' = {}
    BY <1>1, <1>4, <2>1, <2>2
  <2>4. ASSUME NEW s \in Replica, NEW t \in Waiting(s)' \cap Task
        PROVE  Outcomes(t)' = {} \/ (pc'[s] \in WindingUp /\ t = Cur(s)')
    <3>1. CASE s = r
      BY <1>4, <2>1, <2>2, <2>4, <3>1
    <3>2. CASE s # r
      BY <1>2, <1>3, <2>1, <2>4, <3>2 DEF OutcomeInv
    <3> QED
      BY <3>1, <3>2
  <2>5. \A s \in Replica : \A t \in ToPublish(s)' : Outcomes(t)' = {}
    BY <1>1, <1>3, <1>4, <2>1 DEF OutcomeInv
  <2> QED
    BY <2>1, <2>3, <2>4, <2>5 DEF OutcomeInv
<1> QED
  BY <1>5, <1>6, <1>7

\* As long as the heartbeat is not read, no task has an outcome.
LEMMA UnreadOutcomeStep ==
  ASSUME TypeInv, Unread, NEW r \in Replica, Step(r)
  PROVE  OutcomeInv'
<1>1. \A t \in Task : Outcomes(t) = {}
  BY DEF Unread, TypeInv, Outcomes
<1>2. ~GivesOutcome(r)
  BY DEF Unread, GivesOutcome
<1>3. \A t \in Task : Outcomes(t)' = {}
  BY <1>1, <1>2, OutcomeMoves
<1>4. TypeInv'
  BY TypeStep DEF Next
<1>5. Messages(taskQueue') \subseteq Task /\ \A s \in Replica : ToPublish(s)' \subseteq Task
  BY <1>4 DEF TypeInv, TypeOK, TaskMessages, Messages, ToPublish
<1> QED
  BY <1>3, <1>5 DEF OutcomeInv

LEMMA OutcomeInit == Init => OneOutcome
<1> SUFFICES ASSUME Init PROVE OutcomeInv
  BY DEF OneOutcome
<1>1. \A t \in Task : Outcomes(t) = {}
  BY DEF Init, Start, Outcomes
<1>2. Messages(taskQueue) = {} /\ \A r \in Replica : pc[r] = "idle"
  BY DEF Init, Start, Messages
<1>3. \A r \in Replica : Waiting(r) = {} /\ ToPublish(r) = {}
  BY <1>2 DEF Init, Start, Messages, Waiting, ToPublish
<1> QED
  BY <1>1, <1>2, <1>3 DEF OutcomeInv

LEMMA OutcomeStep == TypeInv /\ Solo /\ OneOutcome /\ [Next]_vars => OneOutcome'
<1> SUFFICES ASSUME TypeInv, Solo, OneOutcome, [Next]_vars, NoFault' PROVE OutcomeInv'
  BY DEF OneOutcome
<1>1. \A r \in Replica : ~LockExpires(r) /\ ~Crash(r) /\ ~StepRaises(r)
  BY FaultsGrow DEF FaultKinds, NoFault
<1>2. NoFault
  BY FaultsGrow DEF NoFault
<1>3. OutcomeInv /\ (Unread \/ OneEach)
  BY <1>2 DEF OneOutcome, NoFault, Solo, FaultKinds
<1>4. ~OrphanReturns
  BY <1>3 DEF Unread, OneEach, OrphanReturns
<1>5. ASSUME NEW r \in Replica, Step(r) PROVE OutcomeInv'
  BY <1>3, <1>5, OutcomeReplicaStep, UnreadOutcomeStep
<1>6. CASE UNCHANGED vars
  BY <1>3, <1>6
  DEF OutcomeInv, Outcomes, Waiting, ToPublish, Cur, vars, rowVars, busVars, localVars
<1> QED
  BY <1>1, <1>4, <1>5, <1>6 DEF Next, Faulty, Quiet

\* state_machine.cascade_dead_letter, "provably cannot ever complete": for any
\* loop, any number of replicas and any faults, a task is dead-lettered for its
\* dependencies only if one of them was dead-lettered or refused by QA before;
\* and that one has not completed and never does, as long as no fault happens.
THEOREM CascadeSafe == ASSUME OneHeartbeat PROVE Spec => []CascadeJustified
<1>1. CascadeInv /\ OneOutcome => CascadeJustified
  <2> SUFFICES ASSUME CascadeInv, OneOutcome, NEW t \in Task,
                      "dependency_dead_lettered" \in reasons[t]
               PROVE  \E d \in Deps[t] : /\ reasons[d] \cap BlockReasons # {}
                                         /\ NoFault => "completed" \notin reasons[d]
    BY DEF CascadeJustified
  <2>1. PICK d \in Deps[t] : reasons[d] \cap BlockReasons # {}
    BY DEF CascadeInv, CascadeRow, BlockedDep
  <2>2. d \in Task
    BY DispatchAssumption
  <2>3. NoFault => "completed" \notin reasons[d]
    BY <2>1, <2>2 DEF OneOutcome, OutcomeInv, Outcomes, FinalReasons, BlockReasons
  <2> QED
    BY <2>1, <2>3
<1>2. Init => TypeInv /\ Solo /\ CascadeInv /\ OneOutcome
  BY TypeInit, SoloInit, CascadeInit, OutcomeInit
<1>3. TypeInv /\ Solo /\ CascadeInv /\ OneOutcome /\ [Next]_vars
        => (TypeInv /\ Solo /\ CascadeInv /\ OneOutcome)'
  BY TypeStep, SoloStep, CascadeStep, OutcomeStep
<1> QED
  BY <1>1, <1>2, <1>3, PTL DEF Spec

-----------------------------------------------------------------------------
(* Replicas that take turns lose no message *)

\* A set of messages is about A if and only if its abouts are in A.
LEMMA AboutMessages ==
  ASSUME NEW q \in Seq(Message), NEW A
  PROVE  About(q, A) <=> Messages(q) \subseteq A
BY MessagesAbout DEF About

LEMMA MessagesConcat ==
  ASSUME NEW q \in Seq(Message), NEW p \in Seq(Message)
  PROVE  q \o p \in Seq(Message) /\ Messages(q \o p) = Messages(q) \cup Messages(p)
<1>1. q \o p \in Seq(Message)
  BY ConcatProperties
<1>2. About(q \o p, Messages(q \o p)) /\ About(q, Messages(q)) /\ About(p, Messages(p))
  BY <1>1, AboutMessages
<1>3. Messages(q) \subseteq Messages(q \o p) /\ Messages(p) \subseteq Messages(q \o p)
  BY <1>2, AboutConcat, AboutMessages
<1>4. About(q, Messages(q) \cup Messages(p)) /\ About(p, Messages(q) \cup Messages(p))
  BY <1>2 DEF About
<1>5. Messages(q \o p) \subseteq Messages(q) \cup Messages(p)
  BY <1>1, <1>4, AboutConcat, AboutMessages
<1> QED
  BY <1>1, <1>3, <1>5

\* Receiving a batch loses nothing, and the batch is locked.
LEMMA MessagesReceived ==
  ASSUME NEW q \in Seq(Message), NEW n \in 1..Len(q)
  PROVE  /\ Messages(q) \subseteq Messages(Locked(q, n)) \cup Messages(SubSeq(q, n + 1, Len(q)))
         /\ \A i \in 1..Len(Locked(q, n)) : Locked(q, n)[i].locked
<1>1. n \in Nat /\ Len(q) \in Nat /\ n >= 1 /\ n <= Len(q)
  BY LenProperties
<1>2. \A i \in 1..n : q[i] \in Message
  BY <1>1, ElementOfSeq
<1>3. \A i \in 1..n : /\ [q[i] EXCEPT !.locked = TRUE].about = q[i].about
                      /\ [q[i] EXCEPT !.locked = TRUE].locked
  BY <1>2 DEF Message
<1>4. Len(Locked(q, n)) = n
  <2>1. Locked(q, n) \in [1..n -> Message]
    BY <1>2 DEF Locked, Message
  <2> QED
    BY <1>1, <2>1
<1>5. \A i \in 1..n : Locked(q, n)[i].about = q[i].about /\ Locked(q, n)[i].locked
  BY <1>3 DEF Locked
<1> DEFINE b == Locked(q, n)
           c == SubSeq(q, n + 1, Len(q))
<1>6. /\ Len(c) = Len(q) - n
      /\ \A i \in 1..(Len(q) - n) : c[i] = q[n + i]
  BY <1>1
<1> HIDE DEF b, c
<1>7. ASSUME NEW a \in Messages(q) PROVE a \in Messages(b) \cup Messages(c)
  <2>1. PICK i \in 1..Len(q) : a = q[i].about
    BY <1>7 DEF Messages
  <2>2. CASE i <= n
    <3>1. i \in 1..n
      BY <2>2
    <3> QED
      BY <1>4, <1>5, <2>1, <3>1 DEF Messages, b
  <2>3. CASE i > n
    <3>1. i - n \in 1..(Len(q) - n) /\ n + (i - n) = i
      BY <1>1, <2>3
    <3>2. c[i - n] = q[i]
      BY <1>6, <3>1
    <3> QED
      BY <1>6, <2>1, <3>1, <3>2 DEF Messages
  <2> QED
    BY <1>1, <2>2, <2>3
<1> QED
  BY <1>4, <1>5, <1>7 DEF b, c

Queued == Messages(eventQueue) \cup Messages(taskQueue)

\* A message that goes back to its queue is there, with what was there.
LEMMA MessagesPutBack ==
  ASSUME TypeInv, NEW m \in Message, PutBack(m)
  PROVE  /\ Queued \subseteq Queued' /\ m.about \in Queued'
         /\ Messages(taskQueue) \subseteq Messages(taskQueue)'
         /\ About(eventQueue, {Heartbeat}) => About(eventQueue, {Heartbeat})'
<1> DEFINE b == [m EXCEPT !.redelivered = TRUE, !.locked = FALSE]
<1>1. b \in Message /\ b.about = m.about
  BY DEF Message
<1>2. \/ /\ m.about = Heartbeat
         /\ eventQueue' = <<b>> \o eventQueue /\ taskQueue' = taskQueue
      \/ taskQueue' = <<b>> \o taskQueue /\ eventQueue' = eventQueue
  BY DEF PutBack
<1> HIDE DEF b
<1>3. <<b>> \in Seq(Message) /\ Messages(<<b>>) = {m.about}
  <2>1. <<b>> \in Seq(Message) /\ Len(<<b>>) = 1 /\ <<b>>[1] = b
    BY <1>1
  <2> QED
    BY <1>1, <2>1 DEF Messages
<1>4. eventQueue \in Seq(Message) /\ taskQueue \in Seq(Message)
  BY DEF TypeInv, TypeOK
<1>5. /\ Messages(<<b>> \o eventQueue) = {m.about} \cup Messages(eventQueue)
      /\ Messages(<<b>> \o taskQueue) = {m.about} \cup Messages(taskQueue)
      /\ <<b>> \o eventQueue \in Seq(Message)
  BY <1>3, <1>4, MessagesConcat
<1>6. About(eventQueue, {Heartbeat}) => About(eventQueue', {Heartbeat})
  BY <1>2, <1>4, <1>5, AboutMessages
<1> QED
  BY <1>2, <1>5, <1>6 DEF Queued

\* The messages that are on their way to their queue: of a dead process, and
\* still locked.
LockedOf(q) == {q[i].about : i \in {j \in 1..Len(q) : q[j].locked}}

LEMMA LockedConcat ==
  ASSUME NEW q \in Seq(Message), NEW p \in Seq(Message)
  PROVE  LockedOf(q) \cup LockedOf(p) \subseteq LockedOf(q \o p)
<1>1. /\ Len(q) \in Nat /\ Len(p) \in Nat /\ Len(q \o p) = Len(q) + Len(p)
      /\ \A i \in 1..(Len(q) + Len(p)) :
           (q \o p)[i] = IF i <= Len(q) THEN q[i] ELSE p[i - Len(q)]
  OBVIOUS
<1>2. \A i \in 1..Len(q) : i \in 1..Len(q \o p) /\ (q \o p)[i] = q[i]
  BY <1>1
<1>3. ASSUME NEW i \in 1..Len(p)
      PROVE  Len(q) + i \in 1..Len(q \o p) /\ (q \o p)[Len(q) + i] = p[i]
  <2>1. Len(q) + i \in 1..(Len(q) + Len(p)) /\ ~(Len(q) + i <= Len(q))
        /\ (Len(q) + i) - Len(q) = i
    BY <1>1
  <2> QED
    BY <1>1, <2>1
<1>4. LockedOf(q) \subseteq LockedOf(q \o p)
  <2> SUFFICES ASSUME NEW i \in 1..Len(q), q[i].locked PROVE q[i].about \in LockedOf(q \o p)
    BY DEF LockedOf
  <2> QED
    BY <1>2 DEF LockedOf
<1>5. LockedOf(p) \subseteq LockedOf(q \o p)
  <2> SUFFICES ASSUME NEW i \in 1..Len(p), p[i].locked PROVE p[i].about \in LockedOf(q \o p)
    BY DEF LockedOf
  <2> QED
    BY <1>3 DEF LockedOf
<1> QED
  BY <1>4, <1>5

LEMMA LockedTail ==
  ASSUME NEW q \in Seq(Message), q # <<>>
  PROVE  \A a \in LockedOf(q) : a \in LockedOf(Tail(q)) \/ (Head(q).locked /\ a = Head(q).about)
<1>1. /\ Head(q) = q[1] /\ Len(q) \in Nat /\ Len(q) >= 1
      /\ Len(Tail(q)) = Len(q) - 1
      /\ \A i \in 1..(Len(q) - 1) : Tail(q)[i] = q[i + 1]
  BY LenProperties
<1> SUFFICES ASSUME NEW i \in 1..Len(q), q[i].locked
             PROVE  q[i].about \in LockedOf(Tail(q)) \/ (Head(q).locked /\ q[i].about = Head(q).about)
  BY DEF LockedOf
<1>2. CASE i # 1
  <2>1. i - 1 \in 1..(Len(q) - 1) /\ (i - 1) + 1 = i
    BY <1>1, <1>2
  <2>2. Tail(q)[i - 1] = q[i] /\ i - 1 \in 1..Len(Tail(q))
    BY <1>1, <2>1
  <2> QED
    BY <2>2 DEF LockedOf
<1> QED
  BY <1>1, <1>2

OpenStates == {"pending", "dispatchable", "running"}
Open(t) == state[t] \in OpenStates

\* Whatever will be handled.  An orphan that is not locked has another copy.
Supply == Queued \cup LockedOf(orphaned) \cup UNION {Messages(batch[r]) : r \in Replica}

Backed(r) == \A i \in 1..Len(batch[r]) : batch[r][i].locked \/ batch[r][i].about \in Queued

\* What the step a replica is at says of the rows and of the task queue while
\* the others are idle: whoever completes a message needs it no more, and a
\* message whose lock has expired is on a queue.
TurnRow(r) ==
  /\ pc[r] = "idle" => batch[r] = <<>>
  /\ pc[r] = "insert" => Cur(r) = Heartbeat
  /\ pc[r] = "publish" => Task \ todo[r] \subseteq Messages(taskQueue)
  /\ pc[r] = "complete" =>
       \A t \in Task : Open(t) /\ Cur(r) \in {t, Heartbeat} => t \in Messages(taskQueue)
  /\ pc[r] \in {"select", "count", "advance"} => state[Cur(r)] = "completed"
  /\ pc[r] \in {"count", "advance"} => \A t \in todo[r] : state[t] = "pending"
  /\ pc[r] = "alert" => state[Cur(r)] = "dead_lettered"
  /\ Backed(r)

Supplied == \A t \in Task : Open(t) => t \in Supply \/ Heartbeat \in Supply

DrivenInv ==
  /\ Alternate
  /\ About(eventQueue, {Heartbeat})
  /\ Supplied
  /\ \A r \in Replica : TurnRow(r)

LEMMA DrivenInit == Init => DrivenInv
<1> SUFFICES ASSUME Init PROVE DrivenInv
  OBVIOUS
<1>1. About(eventQueue, {Heartbeat})
  <2>1. eventQueue = [i \in 1..Heartbeats |-> NewMessage(Heartbeat, 0)]
    BY DEF Init, Start
  <2>2. \A i \in 1..Heartbeats : eventQueue[i].about = Heartbeat
    BY <2>1 DEF NewMessage
  <2>3. Len(eventQueue) = Heartbeats
    BY <2>1, DispatchAssumption
  <2> QED
    BY <2>2, <2>3 DEF About
<1>2. Alternate /\ Supplied
  BY DEF Init, Start, Alternate, Supplied, Open, OpenStates
<1>3. \A r \in Replica : TurnRow(r)
  <2>1. \A r \in Replica : pc[r] = "idle" /\ batch[r] = <<>>
    BY DEF Init, Start
  <2>2. Len(<<>>) = 0
    OBVIOUS
  <2> QED
    BY <2>1, <2>2 DEF TurnRow, Backed
<1> QED
  BY <1>1, <1>2, <1>3 DEF DrivenInv

\* Where a message can be.
LEMMA SupplyParts ==
  /\ \A a : a \in Supply <=> \/ a \in Queued \/ a \in LockedOf(orphaned)
                             \/ \E r \in Replica : a \in Messages(batch[r])
  /\ \A a : a \in Supply' <=> \/ a \in Queued' \/ a \in LockedOf(orphaned')
                              \/ \E r \in Replica : a \in Messages(batch'[r])
<1>1. \A a : a \in Supply <=> \/ a \in Queued \/ a \in LockedOf(orphaned)
                              \/ \E r \in Replica : a \in Messages(batch[r])
  BY DEF Supply
<1>2. \A a : a \in Supply' <=> \/ a \in Queued' \/ a \in LockedOf(orphaned')
                               \/ \E r \in Replica : a \in Messages(batch'[r])
  BY DEF Supply, LockedOf, Messages
<1> QED
  BY <1>1, <1>2

\* Who takes its turn has the others idle, before and after its step.
LEMMA TurnOthers ==
  ASSUME TypeInv, DrivenInv, Alternate', NEW r \in Replica,
         pc[r] # "idle" \/ pc'[r] # "idle",
         \A s \in Replica : s # r => pc'[s] = pc[s] /\ batch'[s] = batch[s]
  PROVE  \A s \in Replica : s # r => TurnRow(s)'
<1> SUFFICES ASSUME NEW s \in Replica, s # r PROVE TurnRow(s)'
  OBVIOUS
<1>1. pc[s] = "idle" /\ pc'[s] = "idle"
  BY DEF DrivenInv, Alternate
<1>2. batch'[s] = <<>>
  BY <1>1 DEF DrivenInv, TurnRow
<1>3. Len(<<>>) = 0
  OBVIOUS
<1> QED
  BY <1>1, <1>2, <1>3 DEF TurnRow, Backed

LEMMA DrivenReceive ==
  ASSUME TypeInv, DrivenInv, Alternate', NEW r \in Replica, NEW q, NEW n,
         q = eventQueue \/ q = taskQueue,
         n \in 1..Len(q),
         batch' = [batch EXCEPT ![r] = Locked(q, n)],
         Messages(SubSeq(q, n + 1, Len(q))) \cup (Queued \ Messages(q)) \subseteq Queued',
         About(eventQueue, {Heartbeat})',
         pc[r] = "idle",
         pc'[r] \in {"insert", "rf_read", "check"},
         pc'[r] = "insert" => q = eventQueue,
         \A s \in Replica : s # r => pc'[s] = pc[s],
         UNCHANGED <<state, orphaned>>
  PROVE  DrivenInv'
<1>1. q \in Seq(Message)
  BY DEF TypeInv, TypeOK
<1>2. /\ batch'[r] = Locked(q, n) /\ \A s \in Replica : s # r => batch'[s] = batch[s]
      /\ batch[r] = <<>>
  BY DEF TypeInv, TypeOK, DrivenInv, TurnRow
<1>3. /\ Messages(q) \subseteq Messages(batch'[r]) \cup Messages(SubSeq(q, n + 1, Len(q)))
      /\ \A i \in 1..Len(batch'[r]) : batch'[r][i].locked
  BY <1>1, <1>2, MessagesReceived
<1>4. Cur(r)' = Head(q).about /\ Head(q) = q[1] /\ 1 \in 1..Len(q)
  BY <1>1, <1>2, LockedPrefix DEF Cur
<1>5. pc'[r] = "insert" => Cur(r)' = Heartbeat
  BY <1>4 DEF DrivenInv, About
<1>6. TurnRow(r)'
  BY <1>3, <1>5 DEF TurnRow, Backed
<1>7. \A s \in Replica : s # r => TurnRow(s)'
  BY <1>2, TurnOthers
<1>8. Queued \subseteq Queued' \cup Messages(batch'[r])
  BY <1>3
<1>9. Supply \subseteq Supply'
  <2>1. ASSUME NEW a, a \in Supply PROVE a \in Supply'
    <3>1. a \in Queued \/ a \in LockedOf(orphaned) \/ \E s \in Replica : a \in Messages(batch[s])
      BY <2>1, SupplyParts
    <3>2. Messages(batch[r]) = {}
      <4>1. Len(<<>>) = 0
        OBVIOUS
      <4> QED
        BY <1>2, <4>1 DEF Messages
    <3>3. \A s \in Replica : a \in Messages(batch[s]) => a \in Messages(batch'[s])
      BY <1>2, <3>2
    <3> QED
      BY <1>8, <3>1, <3>3, SupplyParts
  <2> QED
    BY <2>1
<1>10. Supplied'
  BY <1>9 DEF DrivenInv, Supplied, Open
<1> QED
  BY <1>6, <1>7, <1>10 DEF DrivenInv

LEMMA DrivenReceives ==
  ASSUME TypeInv, DrivenInv, Alternate', NEW r \in Replica,
         ReceiveEvents(r) \/ ReceiveTasks(r)
  PROVE  DrivenInv'
<1>0. eventQueue \in Seq(Message) /\ taskQueue \in Seq(Message)
  BY DEF TypeInv, TypeOK
<1>1. CASE ReceiveEvents(r)
  <2>1. PICK n \in 1..BatchMax :
          /\ n <= Len(eventQueue)
          /\ batch' = [batch EXCEPT ![r] = Locked(eventQueue, n)]
          /\ eventQueue' = SubSeq(eventQueue, n + 1, Len(eventQueue))
          /\ pc' = [pc EXCEPT ![r] = "insert"]
    BY <1>1 DEF ReceiveEvents, Goto
  <2>2. n \in 1..Len(eventQueue)
    BY <1>0, <2>1, DispatchAssumption, LenProperties
  <2>3. /\ pc[r] = "idle" /\ pc'[r] = "insert"
        /\ \A s \in Replica : s # r => pc'[s] = pc[s]
        /\ UNCHANGED <<state, orphaned, taskQueue>>
    BY <1>1, <2>1 DEF TypeInv, TypeOK, ReceiveEvents, rowVars
  <2>4. About(eventQueue', {Heartbeat})
    BY <1>0, <2>1, <2>2, AboutPrefix DEF DrivenInv
  <2>5. Messages(SubSeq(eventQueue, n + 1, Len(eventQueue)))
          \cup (Queued \ Messages(eventQueue)) \subseteq Queued'
    BY <2>1, <2>3 DEF Queued
  <2> QED
    BY <2>1, <2>2, <2>3, <2>4, <2>5, DrivenReceive DEF About
<1>2. CASE ReceiveTasks(r)
  <2>1. PICK n \in 1..BatchMax :
          /\ n <= Len(taskQueue)
          /\ batch' = [batch EXCEPT ![r] = Locked(taskQueue, n)]
          /\ taskQueue' = SubSeq(taskQueue, n + 1, Len(taskQueue))
          /\ pc' = [pc EXCEPT ![r] = IF Head(taskQueue).redelivered
                                     THEN "rf_read" ELSE "check"]
    BY <1>2 DEF ReceiveTasks, Goto
  <2>2. n \in 1..Len(taskQueue)
    BY <1>0, <2>1, DispatchAssumption, LenProperties
  <2>3. /\ pc[r] = "idle" /\ pc'[r] \in {"rf_read", "check"}
        /\ \A s \in Replica : s # r => pc'[s] = pc[s]
        /\ UNCHANGED <<state, orphaned, eventQueue>>
    BY <1>2, <2>1 DEF TypeInv, TypeOK, ReceiveTasks, rowVars
  <2>4. About(eventQueue', {Heartbeat})
    BY <2>3 DEF DrivenInv
  <2>5. Messages(SubSeq(taskQueue, n + 1, Len(taskQueue)))
          \cup (Queued \ Messages(taskQueue)) \subseteq Queued'
    BY <2>1, <2>3 DEF Queued
  <2> QED
    BY <2>1, <2>2, <2>3, <2>4, <2>5, DrivenReceive DEF About
<1> QED
  BY <1>1, <1>2

\* Completing drops a message that is needed no more.
LEMMA DrivenComplete ==
  ASSUME TypeInv, DrivenInv, Alternate', NEW r \in Replica, CompleteMessage(r)
  PROVE  DrivenInv'
<1> DEFINE b == batch[r]
<1>1. /\ pc[r] = "complete" /\ batch'[r] = Tail(b) /\ pc'[r] = FirstStep(Tail(b))
      /\ \A s \in Replica : s # r => pc'[s] = pc[s] /\ batch'[s] = batch[s]
      /\ UNCHANGED <<state, eventQueue, taskQueue, orphaned>>
  BY DEF CompleteMessage, Goto, TypeInv, TypeOK, rowVars
<1>2. b \in Seq(Message) /\ b # <<>>
  BY <1>1 DEF TypeInv, TypeOK
<1>3. /\ Tail(b) \in Seq(Message)
      /\ Messages(b) = {Cur(r)} \cup Messages(Tail(b))
  BY <1>2, MessagesTail DEF Cur
<1>4. /\ Queued' = Queued /\ LockedOf(orphaned') = LockedOf(orphaned)
      /\ UNCHANGED <<state, eventQueue, taskQueue, orphaned>>
  BY <1>1 DEF Queued
<1>5. ASSUME NEW a, a \in Supply PROVE a \in Supply' \/ a = Cur(r)
  <2>1. a \in Queued \/ a \in LockedOf(orphaned) \/ \E s \in Replica : a \in Messages(batch[s])
    BY <1>5, SupplyParts
  <2>2. \A s \in Replica : a \in Messages(batch[s]) => a \in Messages(batch'[s]) \/ a = Cur(r)
    BY <1>1, <1>3
  <2> QED
    BY <1>4, <2>1, <2>2, SupplyParts
<1>6. Supplied'
  <2> SUFFICES ASSUME NEW t \in Task, Open(t) PROVE t \in Supply' \/ Heartbeat \in Supply'
    BY <1>4 DEF Supplied, Open
  <2>1. t \in Supply \/ Heartbeat \in Supply
    BY DEF DrivenInv, Supplied
  <2>2. CASE Cur(r) \in {t, Heartbeat}
    <3>1. t \in Messages(taskQueue)
      BY <1>1, <2>2 DEF DrivenInv, TurnRow
    <3> QED
      BY <1>4, <3>1, SupplyParts DEF Queued
  <2>3. CASE Cur(r) \notin {t, Heartbeat}
    BY <1>5, <2>1, <2>3
  <2> QED
    BY <2>2, <2>3
<1>7. Backed(r)'
  <2> SUFFICES ASSUME NEW i \in 1..Len(Tail(b))
               PROVE  Tail(b)[i].locked \/ Tail(b)[i].about \in Queued
    BY <1>1, <1>4 DEF Backed
  <2>1. i + 1 \in 1..Len(b) /\ Tail(b)[i] = b[i + 1]
    BY <1>2, LenProperties
  <2> QED
    BY <2>1 DEF DrivenInv, TurnRow, Backed
<1>8. pc'[r] \in {"idle", "insert", "rf_read", "check"}
  BY <1>1 DEF FirstStep
<1>9. /\ pc'[r] = "idle" => batch'[r] = <<>>
      /\ pc'[r] = "insert" => Cur(r)' = Heartbeat
  <2>1. CASE Tail(b) = <<>>
    BY <1>1, <2>1 DEF FirstStep
  <2>2. CASE Tail(b) # <<>>
    BY <1>1, <2>2 DEF FirstStep, Cur
  <2> QED
    BY <2>1, <2>2
<1>10. TurnRow(r)'
  BY <1>7, <1>8, <1>9 DEF TurnRow
<1>11. \A s \in Replica : s # r => TurnRow(s)'
  BY <1>1, TurnOthers
<1> QED
  BY <1>4, <1>6, <1>10, <1>11 DEF DrivenInv

\* A step that keeps the queues and every batch, and opens no task but the
\* one whose message is handled, or all of them for the heartbeat.
LEMMA DrivenLocal ==
  ASSUME TypeInv, DrivenInv, Alternate', NEW r \in Replica,
         UNCHANGED <<eventQueue, orphaned, batch>>,
         Messages(taskQueue) \subseteq Messages(taskQueue)',
         pc[r] # "idle", pc'[r] \notin {"idle", "insert"},
         \A s \in Replica : s # r => pc'[s] = pc[s],
         \A t \in Task : Open(t)' => Open(t) \/ Cur(r) \in {t, Heartbeat},
         pc'[r] = "publish" => Task \ todo'[r] \subseteq Messages(taskQueue)',
         pc'[r] = "complete" =>
           \A t \in Task : Open(t)' /\ Cur(r) \in {t, Heartbeat} => t \in Messages(taskQueue)',
         pc'[r] \in {"select", "count", "advance"} => state'[Cur(r)] = "completed",
         pc'[r] \in {"count", "advance"} => \A t \in todo'[r] : state'[t] = "pending",
         pc'[r] = "alert" => state'[Cur(r)] = "dead_lettered"
  PROVE  DrivenInv'
<1>1. batch[r] \in Seq(Message) /\ batch[r] # <<>>
  BY DEF TypeInv, TypeOK
<1>2. Cur(r) \in Messages(batch[r])
  BY <1>1, MessagesTail DEF Cur
<1>3. Queued \subseteq Queued' /\ LockedOf(orphaned') = LockedOf(orphaned)
  BY DEF Queued
<1>4. ASSUME NEW a, a \in Supply PROVE a \in Supply'
  BY <1>3, <1>4, SupplyParts
<1>5. Cur(r) \in Supply'
  BY <1>2, SupplyParts
<1>6. Supplied'
  BY <1>4, <1>5 DEF DrivenInv, Supplied
<1>7. Cur(r)' = Cur(r)
  BY DEF Cur
<1>8. Backed(r)'
  BY <1>3 DEF DrivenInv, TurnRow, Backed
<1>9. TurnRow(r)'
  BY <1>7, <1>8 DEF TurnRow
<1>10. \A s \in Replica : s # r => TurnRow(s)'
  BY TurnOthers
<1> QED
  BY <1>6, <1>9, <1>10 DEF DrivenInv

LEMMA DrivenHeartbeat ==
  ASSUME TypeInv, DrivenInv, Alternate', NEW r \in Replica, HandleHeartbeat(r)
  PROVE  DrivenInv'
<1>0. TurnRow(r) /\ taskQueue \in Seq(Message)
  BY DEF DrivenInv, TypeInv, TypeOK
<1>1. CASE InsertTaskBatch(r)
  <2>1. /\ UNCHANGED <<eventQueue, taskQueue, orphaned, batch>>
        /\ pc[r] = "insert" /\ pc'[r] = "publish" /\ todo'[r] = Task
        /\ \A s \in Replica : s # r => pc'[s] = pc[s]
    BY <1>1 DEF InsertTaskBatch, Goto, busVars, TypeInv, TypeOK
  <2>2. Cur(r) = Heartbeat
    BY <1>0, <2>1 DEF TurnRow
  <2> QED
    BY <2>1, <2>2, DrivenLocal
<1>2. CASE PublishTask(r)
  <2>1. PICK t \in todo[r] :
          /\ taskQueue' = Append(taskQueue, NewMessage(t, 0))
          /\ todo' = [todo EXCEPT ![r] = @ \ {t}]
    BY <1>2 DEF PublishTask
  <2>2. /\ UNCHANGED <<state, eventQueue, orphaned, batch, pc>> /\ pc[r] = "publish"
        /\ t \in Task /\ todo'[r] = todo[r] \ {t}
    BY <1>2, <2>1 DEF PublishTask, TypeInv, TypeOK, rowVars
  <2>3. Messages(taskQueue') = Messages(taskQueue) \cup {t}
    BY <1>0, <2>1, <2>2, MessagesAppend
  <2>4. Task \ todo'[r] \subseteq Messages(taskQueue')
    BY <1>0, <2>2, <2>3 DEF TurnRow
  <2>5. \A u \in Task : Open(u)' => Open(u)
    BY <2>2 DEF Open
  <2> QED
    BY <2>2, <2>3, <2>4, <2>5, DrivenLocal
<1>3. CASE HeartbeatHandled(r)
  <2>1. /\ UNCHANGED <<state, eventQueue, taskQueue, orphaned, batch>>
        /\ pc[r] = "publish" /\ pc'[r] = "complete" /\ todo[r] = {}
        /\ \A s \in Replica : s # r => pc'[s] = pc[s]
    BY <1>3 DEF HeartbeatHandled, Goto, busVars, rowVars, TypeInv, TypeOK
  <2>2. \A t \in Task : t \in Messages(taskQueue) /\ (Open(t)' => Open(t))
    BY <1>0, <2>1 DEF TurnRow, Open
  <2> QED
    BY <2>1, <2>2, DrivenLocal
<1> QED
  BY <1>1, <1>2, <1>3 DEF HandleHeartbeat

\* The steps of dispatch_task, where only a finished task lets its dependents go.
LEMMA DrivenDispatch ==
  ASSUME TypeInv, DrivenInv, Alternate', NEW r \in Replica, DispatchTask(r)
  PROVE  DrivenInv'
<1>0. /\ TurnRow(r) /\ UNCHANGED busVars
      /\ pc \in [Replica -> Steps] /\ todo \in [Replica -> SUBSET Task]
      /\ state \in [Task -> TaskStates] /\ reasons \in [Task -> SUBSET Reasons]
  BY DEF DrivenInv, TypeInv, TypeOK, DispatchTask, GateCleared, DuplicateDropped,
     NotDispatchable, FindBlockedDependency, StartTask, HandlerCompletes, HandlerBlocks,
     HandlerRaises, SelectPendingDependents, CountCompletedDeps, AdvanceDependent
<1>a. UNCHANGED <<eventQueue, taskQueue, orphaned, batch>>
  BY <1>0 DEF busVars
<1>b. Cur(r) \in Task
  BY DEF TypeInv, TaskSteps, DispatchSteps, DispatchTask, GateCleared, DuplicateDropped,
     NotDispatchable, FindBlockedDependency, StartTask, HandlerCompletes, HandlerBlocks,
     HandlerRaises, SelectPendingDependents, CountCompletedDeps, AdvanceDependent
<1>c. Cur(r) # Heartbeat
  BY <1>b, DispatchAssumption
<1> USE DEF Goto, rowVars, localVars
<1>1. CASE GateCleared(r) \/ NotDispatchable(r) \/ HandlerRaises(r)
  <2>1. /\ pc[r] \in {"check", "handler"} /\ pc'[r] \in {"start", "deps", "rf_read"}
        /\ \A s \in Replica : s # r => pc'[s] = pc[s]
        /\ UNCHANGED state
    BY <1>0, <1>1 DEF GateCleared, NotDispatchable, HandlerRaises
  <2> QED
    BY <1>a, <2>1, DrivenLocal DEF Open
<1>2. CASE DuplicateDropped(r)
  <2>1. /\ pc[r] = "check" /\ pc'[r] = "complete" /\ UNCHANGED state
        /\ \A s \in Replica : s # r => pc'[s] = pc[s]
        /\ ~Open(Cur(r))
    BY <1>0, <1>2 DEF DuplicateDropped, Terminal, PermanentlyBlocked, Open, OpenStates
  <2> QED
    BY <1>a, <1>c, <2>1, DrivenLocal DEF Open
<1>3. CASE FindBlockedDependency(r)
  <2>1. /\ pc[r] = "deps" /\ pc'[r] \in {"cas_read", "not_ready"} /\ UNCHANGED state
        /\ \A s \in Replica : s # r => pc'[s] = pc[s]
    BY <1>0, <1>3 DEF FindBlockedDependency
  <2> QED
    BY <1>a, <2>1, DrivenLocal DEF Open
<1>4. CASE StartTask(r) \/ HandlerCompletes(r) \/ HandlerBlocks(r)
  <2>1. /\ pc[r] \in {"start", "handler"}
        /\ pc'[r] \in {"handler", "select", "complete"}
        /\ \A s \in Replica : s # r => pc'[s] = pc[s]
        /\ \A t \in Task : t # Cur(r) => state'[t] = state[t]
        /\ pc'[r] = "select" => state'[Cur(r)] = "completed"
        /\ pc'[r] = "complete" => state'[Cur(r)] = "failed"
    <3>1. CASE StartTask(r)
      BY <1>0, <1>b, <3>1 DEF StartTask, Transition
    <3>2. CASE HandlerCompletes(r)
      BY <1>0, <1>b, <3>2 DEF HandlerCompletes, Transition
    <3>3. CASE HandlerBlocks(r)
      BY <1>0, <1>b, <3>3 DEF HandlerBlocks, Transition
    <3> QED
      BY <1>4, <3>1, <3>2, <3>3
  <2>2. \A t \in Task : Open(t)' => Open(t) \/ Cur(r) = t
    BY <2>1 DEF Open
  <2>3. pc'[r] = "complete" => ~Open(Cur(r))'
    BY <2>1, <1>a DEF Open, OpenStates, Cur
  <2>4. pc'[r] = "complete" =>
          \A t \in Task : Open(t)' /\ Cur(r) \in {t, Heartbeat} => t \in Messages(taskQueue)'
    BY <1>c, <1>a, <2>1, <2>3 DEF Open, OpenStates
  <2> QED
    BY <1>a, <2>1, <2>2, <2>4, DrivenLocal
<1>5. CASE SelectPendingDependents(r)
  <2>1. /\ pc[r] = "select" /\ pc'[r] = "count" /\ UNCHANGED state
        /\ \A s \in Replica : s # r => pc'[s] = pc[s]
        /\ \A t \in todo'[r] : state'[t] = "pending"
    BY <1>0, <1>5 DEF SelectPendingDependents
  <2>2. state'[Cur(r)] = "completed"
    BY <1>0, <2>1 DEF TurnRow
  <2> QED
    BY <1>a, <2>1, <2>2, DrivenLocal DEF Open
<1>6. CASE CountCompletedDeps(r)
  <2>1. /\ pc[r] = "count" /\ pc'[r] \in {"complete", "advance"} /\ UNCHANGED state
        /\ \A s \in Replica : s # r => pc'[s] = pc[s]
        /\ \A t \in todo'[r] : t \in todo[r]
    BY <1>0, <1>6 DEF CountCompletedDeps
  <2>2. state'[Cur(r)] = "completed" /\ \A t \in todo'[r] : state'[t] = "pending"
    BY <1>0, <2>1 DEF TurnRow
  <2>3. pc'[r] = "complete" =>
          \A t \in Task : Open(t)' /\ Cur(r) \in {t, Heartbeat} => t \in Messages(taskQueue)'
    BY <1>c, <2>2 DEF Open, OpenStates
  <2> QED
    BY <1>a, <2>1, <2>2, <2>3, DrivenLocal DEF Open
<1>7. CASE AdvanceDependent(r)
  <2>1. PICK u \in todo[r] :
          /\ Transition(u, "dispatchable", "dependency_satisfied")
          /\ todo' = [todo EXCEPT ![r] = @ \ {u}]
          /\ pc' = [pc EXCEPT ![r] = IF todo[r] = {u} THEN "complete" ELSE "advance"]
    BY <1>7 DEF AdvanceDependent
  <2>2. /\ pc[r] = "advance" /\ pc'[r] \in {"complete", "advance"} /\ u \in Task
        /\ \A s \in Replica : s # r => pc'[s] = pc[s]
        /\ \A t \in Task : t # u => state'[t] = state[t]
        /\ todo'[r] = todo[r] \ {u} /\ todo[r] \subseteq Task
    BY <1>0, <1>7, <2>1 DEF AdvanceDependent, Transition
  <2>3. /\ state[Cur(r)] = "completed" /\ \A t \in todo[r] : state[t] = "pending"
    BY <1>0, <2>2 DEF TurnRow
  <2>4. /\ state'[Cur(r)] = "completed" /\ \A t \in todo'[r] : state'[t] = "pending"
    BY <1>b, <2>2, <2>3
  <2>5. \A t \in Task : Open(t)' => Open(t)
    BY <2>2, <2>3 DEF Open, OpenStates
  <2>6. pc'[r] = "complete" =>
          \A t \in Task : Open(t)' /\ Cur(r) \in {t, Heartbeat} => t \in Messages(taskQueue)'
    BY <1>c, <2>4 DEF Open, OpenStates
  <2> QED
    BY <1>a, <2>2, <2>4, <2>5, <2>6, DrivenLocal
<1> QED
  BY <1>1, <1>2, <1>3, <1>4, <1>5, <1>6, <1>7 DEF DispatchTask

LEMMA DrivenFailure ==
  ASSUME TypeInv, DrivenInv, Alternate', NEW r \in Replica, HandleFailure(r)
  PROVE  DrivenInv'
<1>0. /\ TurnRow(r) /\ pc \in [Replica -> Steps] /\ taskQueue \in Seq(Message)
      /\ state \in [Task -> TaskStates] /\ reasons \in [Task -> SUBSET Reasons]
  BY DEF DrivenInv, TypeInv, TypeOK
<1>1. Cur(r) \in Task /\ batch[r] \in Seq(Message) /\ batch[r] # <<>>
  BY DEF TypeInv, TypeOK, TaskSteps, FailureSteps, HandleFailure, RequeueNotReady,
     GiveUpNotReady, FailureIgnored, FailureAccepted, IncrementRetry, ScheduleRetry,
     DeadLetter, CascadeIgnored, CascadeAccepted, CascadeDeadLetter, EmitAlert
<1>2. Cur(r) # Heartbeat
  BY <1>1, DispatchAssumption
<1> USE DEF Goto, rowVars, busVars, localVars
<1>3. CASE RequeueNotReady(r)
  <2>1. /\ taskQueue' = Append(taskQueue, NewMessage(Cur(r), Head(batch[r]).requeues + 1))
        /\ UNCHANGED <<state, eventQueue, orphaned, batch>>
        /\ pc[r] = "not_ready" /\ pc'[r] = "complete"
        /\ \A s \in Replica : s # r => pc'[s] = pc[s]
    BY <1>0, <1>3 DEF RequeueNotReady
  <2>2. Head(batch[r]).requeues + 1 \in Nat
    <3>1. Head(batch[r]) \in Message
      BY <1>1, HeadTailProperties
    <3> QED
      BY <3>1 DEF Message
  <2>3. Messages(taskQueue') = Messages(taskQueue) \cup {Cur(r)}
    BY <1>0, <1>1, <2>1, <2>2, MessagesAppend
  <2>4. \A t \in Task : Open(t)' => Open(t)
    BY <2>1 DEF Open
  <2> QED
    BY <1>2, <2>1, <2>3, <2>4, DrivenLocal
<1>4. CASE GiveUpNotReady(r) \/ FailureAccepted(r) \/ IncrementRetry(r) \/ CascadeAccepted(r)
  <2>1. /\ UNCHANGED <<state, eventQueue, taskQueue, orphaned, batch>>
        /\ pc[r] # "idle" /\ pc'[r] \in {"rf_read", "rf_incr", "rf_move", "cas_move"}
        /\ \A s \in Replica : s # r => pc'[s] = pc[s]
    BY <1>0, <1>4 DEF GiveUpNotReady, FailureAccepted, IncrementRetry, CascadeAccepted
  <2>2. \A t \in Task : Open(t)' => Open(t)
    BY <2>1 DEF Open
  <2> QED
    BY <2>1, <2>2, DrivenLocal
<1>5. CASE FailureIgnored(r) \/ CascadeIgnored(r) \/ EmitAlert(r)
  <2>1. /\ UNCHANGED <<state, eventQueue, taskQueue, orphaned, batch>>
        /\ pc[r] # "idle" /\ pc'[r] = "complete"
        /\ \A s \in Replica : s # r => pc'[s] = pc[s]
        /\ pc[r] # "alert" => state[Cur(r)] \in Terminal
    BY <1>0, <1>5
    DEF FailureIgnored, CascadeIgnored, EmitAlert, Terminal, PermanentlyBlocked
  <2>2. pc[r] = "alert" => state[Cur(r)] = "dead_lettered"
    BY <1>0 DEF TurnRow
  <2>3. ~Open(Cur(r))
    BY <2>1, <2>2 DEF Open, OpenStates, Terminal, PermanentlyBlocked
  <2>4. \A t \in Task : Open(t)' => Open(t)
    BY <2>1 DEF Open
  <2>5. \A t \in Task : ~(Open(t)' /\ Cur(r) \in {t, Heartbeat})
    BY <1>2, <2>3, <2>4
  <2> QED
    BY <2>1, <2>4, <2>5, DrivenLocal
<1>6. CASE ScheduleRetry(r) \/ DeadLetter(r) \/ CascadeDeadLetter(r)
  <2>1. /\ UNCHANGED <<eventQueue, taskQueue, orphaned, batch>>
        /\ pc[r] # "idle" /\ pc'[r] \in {"complete", "handler", "start", "alert"}
        /\ \A s \in Replica : s # r => pc'[s] = pc[s]
        /\ \A t \in Task : t # Cur(r) => state'[t] = state[t]
        /\ state'[Cur(r)] \in {"retry_pending", "dead_lettered"}
        /\ pc'[r] = "alert" => state'[Cur(r)] = "dead_lettered"
    <3>1. CASE ScheduleRetry(r)
      BY <1>0, <1>1, <3>1 DEF ScheduleRetry, Transition
    <3>2. CASE DeadLetter(r)
      BY <1>0, <1>1, <3>2 DEF DeadLetter, Transition
    <3>3. CASE CascadeDeadLetter(r)
      BY <1>0, <1>1, <3>3 DEF CascadeDeadLetter, Transition
    <3> QED
      BY <1>6, <3>1, <3>2, <3>3
  <2>2. \A t \in Task : Open(t)' => Open(t) /\ t # Cur(r)
    BY <2>1 DEF Open, OpenStates
  <2>3. \A t \in Task : ~(Open(t)' /\ Cur(r) \in {t, Heartbeat})
    BY <1>2, <2>2
  <2> QED
    BY <2>1, <2>2, <2>3, DrivenLocal
<1> QED
  BY <1>3, <1>4, <1>5, <1>6 DEF HandleFailure

\* More messages in the queues disturb nobody.
LEMMA TurnRowStays ==
  ASSUME TypeInv, NEW r \in Replica, TurnRow(r),
         UNCHANGED <<state, pc, todo>>,
         Messages(taskQueue) \subseteq Messages(taskQueue)',
         batch[r] = <<>> => batch'[r] = <<>>,
         batch[r] # <<>> => Cur(r)' = Cur(r),
         Backed(r)'
  PROVE  TurnRow(r)'
<1>1. pc[r] # "idle" => Cur(r)' = Cur(r)
  BY DEF TypeInv
<1> QED
  BY <1>1 DEF TurnRow, Open

\* A dead process's batch is on a queue or will be.
LEMMA DrivenCrash ==
  ASSUME TypeInv, DrivenInv, Alternate', NEW r \in Replica, Crash(r)
  PROVE  DrivenInv'
<1>1. /\ pc[r] # "idle" /\ orphaned' = orphaned \o batch[r]
      /\ batch'[r] = <<>> /\ pc'[r] = "idle"
      /\ \A s \in Replica : s # r => pc'[s] = pc[s] /\ batch'[s] = batch[s]
      /\ UNCHANGED <<state, eventQueue, taskQueue>>
  BY DEF Crash, Goto, TypeInv, TypeOK, rowVars
<1>2. orphaned \in Seq(Message) /\ batch[r] \in Seq(Message)
  BY DEF TypeInv, TypeOK
<1>3. LockedOf(orphaned) \cup LockedOf(batch[r]) \subseteq LockedOf(orphaned')
  BY <1>1, <1>2, LockedConcat
<1>4. Queued' = Queued
  BY <1>1 DEF Queued
<1>5. Messages(batch[r]) \subseteq LockedOf(batch[r]) \cup Queued
  <2> SUFFICES ASSUME NEW i \in 1..Len(batch[r])
               PROVE  batch[r][i].about \in LockedOf(batch[r]) \cup Queued
    BY DEF Messages
  <2>1. batch[r][i].locked \/ batch[r][i].about \in Queued
    BY DEF DrivenInv, TurnRow, Backed
  <2> QED
    BY <2>1 DEF LockedOf
<1>6. ASSUME NEW a, a \in Supply PROVE a \in Supply'
  <2>1. a \in Queued \/ a \in LockedOf(orphaned) \/ \E s \in Replica : a \in Messages(batch[s])
    BY <1>6, SupplyParts
  <2>2. \A s \in Replica : a \in Messages(batch[s]) =>
          a \in Messages(batch'[s]) \/ a \in LockedOf(batch[r]) \cup Queued
    BY <1>1, <1>5
  <2> QED
    BY <1>3, <1>4, <2>1, <2>2, SupplyParts
<1>7. Supplied'
  BY <1>1, <1>6 DEF DrivenInv, Supplied, Open
<1>8. TurnRow(r)'
  <2>1. Len(<<>>) = 0
    OBVIOUS
  <2> QED
    BY <1>1, <2>1 DEF TurnRow, Backed
<1>9. \A s \in Replica : s # r => TurnRow(s)'
  BY <1>1, TurnOthers
<1> QED
  BY <1>1, <1>7, <1>8, <1>9 DEF DrivenInv

\* The messages of a dead process return to their queues.
LEMMA DrivenReturn ==
  ASSUME TypeInv, DrivenInv, Alternate', OrphanReturns
  PROVE  DrivenInv'
<1>1. /\ orphaned \in Seq(Message) /\ orphaned # <<>> /\ orphaned' = Tail(orphaned)
      /\ Head(orphaned) \in Message
      /\ UNCHANGED <<state, batch, pc, todo>>
  <2>1. orphaned \in Seq(Message) /\ orphaned # <<>>
    BY DEF TypeInv, TypeOK, OrphanReturns
  <2> QED
    BY <2>1, HeadTailProperties DEF OrphanReturns, rowVars, localVars
<1>2. /\ Queued \subseteq Queued' /\ Messages(taskQueue) \subseteq Messages(taskQueue)'
      /\ About(eventQueue, {Heartbeat})'
      /\ Head(orphaned).locked => Head(orphaned).about \in Queued'
  <2>1. CASE Head(orphaned).locked
    BY <1>1, <2>1, MessagesPutBack DEF OrphanReturns, DrivenInv
  <2>2. CASE ~Head(orphaned).locked
    BY <2>2 DEF OrphanReturns, DrivenInv, Queued
  <2> QED
    BY <2>1, <2>2
<1>3. \A a \in LockedOf(orphaned) : a \in LockedOf(orphaned') \/ a \in Queued'
  BY <1>1, <1>2, LockedTail
<1>4. ASSUME NEW a, a \in Supply PROVE a \in Supply'
  <2>1. a \in Queued \/ a \in LockedOf(orphaned) \/ \E s \in Replica : a \in Messages(batch[s])
    BY <1>4, SupplyParts
  <2>2. \A s \in Replica : batch'[s] = batch[s]
    BY <1>1
  <2> QED
    BY <1>2, <1>3, <2>1, <2>2, SupplyParts
<1>5. Supplied'
  BY <1>1, <1>4 DEF DrivenInv, Supplied, Open
<1>6. ASSUME NEW r \in Replica PROVE TurnRow(r)'
  <2>1. Backed(r)'
    BY <1>1, <1>2 DEF DrivenInv, TurnRow, Backed
  <2>2. Cur(r)' = Cur(r)
    BY <1>1 DEF Cur
  <2> QED
    BY <1>1, <1>2, <2>1, <2>2, TurnRowStays DEF DrivenInv
<1> QED
  BY <1>2, <1>5, <1>6 DEF DrivenInv

\* An expired lock gives a message a second copy.
LEMMA DrivenExpiry ==
  ASSUME TypeInv, DrivenInv, Alternate', NEW r \in Replica, LockExpires(r)
  PROVE  DrivenInv'
<1>1. PICK i \in 1..Len(batch[r]) :
        batch' = [batch EXCEPT ![r][i].locked = FALSE] /\ PutBack(batch[r][i])
  BY DEF LockExpires
<1>2. batch[r] \in Seq(Message) /\ batch[r][i] \in Message /\ batch[r] # <<>>
  BY <1>1, ElementOfSeq DEF TypeInv, TypeOK
<1>3. /\ Queued \subseteq Queued' /\ Messages(taskQueue) \subseteq Messages(taskQueue)'
      /\ About(eventQueue, {Heartbeat})' /\ batch[r][i].about \in Queued'
  BY <1>1, <1>2, MessagesPutBack DEF DrivenInv
<1> DEFINE m == [batch[r][i] EXCEPT !.locked = FALSE]
           b == [batch[r] EXCEPT ![i] = m]
<1>4. m \in Message /\ m.about = batch[r][i].about
  BY <1>2 DEF Message
<1>5. batch'[r] = b /\ \A s \in Replica : s # r => batch'[s] = batch[s]
  BY <1>1 DEF TypeInv, TypeOK
<1> HIDE DEF m
<1>6. /\ Len(b) = Len(batch[r])
      /\ \A j \in 1..Len(batch[r]) : b[j] = IF j = i THEN m ELSE batch[r][j]
  BY <1>2, <1>4, ExceptSeq
<1> HIDE DEF b
<1>7. Messages(batch[r]) \subseteq Messages(b)
  BY <1>4, <1>6 DEF Messages
<1>8. ASSUME NEW a, a \in Supply PROVE a \in Supply'
  <2>1. \A s \in Replica : a \in Messages(batch[s]) => a \in Messages(batch'[s])
    BY <1>5, <1>7
  <2>2. orphaned' = orphaned
    BY DEF LockExpires
  <2> QED
    BY <1>3, <1>8, <2>1, <2>2, SupplyParts
<1>9. Supplied'
  BY <1>8 DEF DrivenInv, Supplied, Open, LockExpires, rowVars
<1>10. /\ UNCHANGED <<state, pc, todo>>
       /\ \A s \in Replica : Cur(s)' = Cur(s)
  BY LockExpiryKeepsHead DEF LockExpires, rowVars, localVars
<1>11. TurnRow(r)'
  <2>1. Backed(r)
    BY DEF DrivenInv, TurnRow
  <2>2. Backed(r)'
    <3> SUFFICES ASSUME NEW j \in 1..Len(b) PROVE b[j].locked \/ b[j].about \in Queued'
      BY <1>5 DEF Backed
    <3> QED
      BY <1>3, <1>4, <1>6, <2>1 DEF Backed
  <2> QED
    BY <1>2, <1>3, <1>10, <2>2, TurnRowStays DEF DrivenInv
<1>12. pc[r] # "idle"
  BY <1>2 DEF DrivenInv, TurnRow
<1>13. \A s \in Replica : s # r => TurnRow(s)'
  BY <1>5, <1>10, <1>12, TurnOthers
<1> QED
  BY <1>3, <1>9, <1>11, <1>13 DEF DrivenInv

\* An exception inside dispatch_task keeps the message with its replica.
LEMMA DrivenRaise ==
  ASSUME TypeInv, DrivenInv, Alternate', NEW r \in Replica, StepRaises(r),
         pc[r] \in DispatchSteps
  PROVE  DrivenInv'
<1>1. /\ UNCHANGED <<state, eventQueue, taskQueue, orphaned, batch>>
      /\ pc[r] # "idle" /\ pc'[r] = "rf_read"
      /\ \A s \in Replica : s # r => pc'[s] = pc[s]
  BY DEF StepRaises, Goto, rowVars, busVars, TypeInv, TypeOK, DispatchSteps
<1>2. \A t \in Task : Open(t)' => Open(t)
  BY <1>1 DEF Open
<1> QED
  BY <1>1, <1>2, DrivenLocal

LEMMA DrivenStep ==
  ASSUME FaultySteps \subseteq DispatchSteps
  PROVE  TypeInv /\ DrivenInv /\ [Next /\ Alternate']_vars => DrivenInv'
<1> SUFFICES ASSUME TypeInv, DrivenInv, [Next /\ Alternate']_vars PROVE DrivenInv'
  OBVIOUS
<1>1. CASE UNCHANGED vars
  <2>1. Supply' = Supply /\ Queued' = Queued
    BY <1>1 DEF Supply, Queued, LockedOf, Messages, vars, busVars
  <2> QED
    BY <1>1, <2>1
    DEF DrivenInv, Alternate, Supplied, Open, TurnRow, Backed, Cur, About, Messages,
        vars, rowVars, busVars, localVars
<1>2. ASSUME NEW r \in Replica, Step(r), Alternate' PROVE DrivenInv'
  BY <1>2, DrivenReceives, DrivenComplete, DrivenHeartbeat, DrivenDispatch, DrivenFailure
  DEF Step
<1>3. ASSUME NEW r \in Replica, Faulty(r), Alternate' PROVE DrivenInv'
  <2>1. StepRaises(r) => pc[r] \in DispatchSteps
    BY DEF StepRaises
  <2> QED
    BY <1>3, <2>1, DrivenRaise, DrivenCrash, DrivenExpiry DEF Faulty
<1>4. CASE OrphanReturns /\ Alternate'
  BY <1>4, DrivenReturn
<1> QED
  BY <1>1, <1>2, <1>3, <1>4 DEF Next, Quiet

\* worker.run_worker_loop, _retry_or_dead_letter: for any number of replicas that
\* take turns, in particular a single one, and any crashes, expired locks and
\* exceptions inside dispatch_task, a task that is not final has its own message
\* or the heartbeat somewhere, unless it is retry_pending.
THEOREM DrivenInTurn ==
  ASSUME FaultySteps \subseteq DispatchSteps
  PROVE  TurnSpec => []Driven
<1>1. DrivenInv => Driven
  <2> SUFFICES ASSUME DrivenInv, NEW t \in Task, Open(t)
               PROVE  InFlight \cap {t, Heartbeat} # {}
    BY DEF Driven, Open, OpenStates
  <2>1. t \in Supply \/ Heartbeat \in Supply
    BY DEF DrivenInv, Supplied
  <2>2. LockedOf(orphaned) \subseteq Messages(orphaned)
    BY DEF LockedOf, Messages
  <2>3. \A a \in Supply : a \in InFlight
    BY <2>2 DEF Supply, Queued, InFlight
  <2> QED
    BY <2>1, <2>3
<1>2. TypeInv /\ [Next /\ Alternate']_vars => TypeInv'
  BY TypeStep
<1>3. TypeInv /\ DrivenInv /\ [Next /\ Alternate']_vars => DrivenInv'
  BY DrivenStep
<1> QED
  BY <1>1, <1>2, <1>3, TypeInit, DrivenInit, PTL DEF TurnSpec

-----------------------------------------------------------------------------
(* Replicas that take turns keep the promises of LoopRun *)

LiveStates == {"pending", "dispatchable", "running", "retry_pending"}
LiveSteps == {"deps", "not_ready", "start", "handler", "rf_incr", "rf_move",
              "cas_read", "cas_move"}

\* Outcomes stand: the row still says what its history says.
Settled(t) ==
  /\ "completed" \in reasons[t] => state[t] = "completed"
  /\ reasons[t] \cap BlockReasons # {} => state[t] \in PermanentlyBlocked

\* What a replica has read of a row still holds when it writes it.
SettledRow(r) ==
  /\ pc[r] \in LiveSteps => state[Cur(r)] \in LiveStates
  /\ pc[r] \in {"count", "advance"} => \A t \in todo[r] : state[t] = "pending"

SettledInv ==
  /\ Alternate
  /\ \A t \in Task : Settled(t)
  /\ \A r \in Replica : SettledRow(r)

LEMMA SettledInit == Init => SettledInv
BY DEF Init, Start, SettledInv, Alternate, Settled, SettledRow, LiveSteps

LEMMA SettledOthers ==
  ASSUME Alternate, Alternate', NEW r \in Replica,
         pc[r] # "idle" \/ pc'[r] # "idle",
         \A s \in Replica : s # r => pc'[s] = pc[s],
         \A t \in Task : Settled(t)',
         SettledRow(r)'
  PROVE  SettledInv'
<1>1. \A s \in Replica : s # r => pc'[s] = "idle"
  BY DEF Alternate
<1> QED
  BY <1>1 DEF SettledInv, SettledRow, LiveSteps

\* A row that has no outcome yet is moved.
LEMMA SettledMove ==
  ASSUME TypeInv, SettledInv, NEW t \in Task, NEW to, NEW why,
         state[t] \in LiveStates, Transition(t, to, why),
         why = "completed" => to = "completed",
         why \in BlockReasons => to \in PermanentlyBlocked
  PROVE  /\ \A u \in Task : Settled(u)'
         /\ state'[t] = to /\ \A u \in Task : u # t => state'[u] = state[u]
<1>1. /\ state' = [state EXCEPT ![t] = to]
      /\ reasons' = [reasons EXCEPT ![t] = @ \cup {why}]
      /\ state \in [Task -> TaskStates] /\ reasons \in [Task -> SUBSET Reasons]
  BY DEF Transition, TypeInv, TypeOK
<1>2. "completed" \notin reasons[t] /\ reasons[t] \cap BlockReasons = {}
  BY DEF SettledInv, Settled, LiveStates, PermanentlyBlocked
<1> QED
  BY <1>1, <1>2 DEF SettledInv, Settled

LEMMA SettledStep ==
  ASSUME TypeInv, WakeInv, SettledInv, Alternate', NEW r \in Replica,
         Step(r) \/ StepRaises(r)
  PROVE  SettledInv'
<1>0. /\ pc \in [Replica -> Steps] /\ todo \in [Replica -> SUBSET Task]
      /\ state \in [Task -> TaskStates] /\ reasons \in [Task -> SUBSET Reasons]
      /\ \A t \in Task : state[t] = "absent" => reasons[t] = {}
      /\ SettledRow(r) /\ Alternate
      /\ \A t \in Task : Settled(t)
  BY DEF TypeInv, TypeOK, SettledInv
<1>1. pc[r] \in TaskSteps => Cur(r) \in Task /\ state[Cur(r)] # "absent"
  <2>1. pc[r] \in TaskSteps => Cur(r) \in Task
    BY DEF TypeInv
  <2>2. NothingYet => pc[r] \notin TaskSteps
    BY DEF NothingYet, TaskSteps, DispatchSteps, FailureSteps
  <2> QED
    BY <2>1, <2>2 DEF WakeInv, Started
<1>s. \A t \in Task : UNCHANGED <<state, reasons>> => Settled(t)'
  BY <1>0 DEF Settled
<1> USE DEF Goto, rowVars, busVars, localVars
<1>2. CASE ReceiveEvents(r) \/ ReceiveTasks(r) \/ CompleteMessage(r)
  <2>1. /\ pc[r] # "idle" \/ pc'[r] # "idle"
        /\ pc'[r] \in {"idle", "insert", "rf_read", "check"}
        /\ \A s \in Replica : s # r => pc'[s] = pc[s]
        /\ UNCHANGED <<state, reasons>>
    <3>1. CASE ReceiveEvents(r)
      BY <1>0, <3>1 DEF ReceiveEvents
    <3>2. CASE ReceiveTasks(r)
      BY <1>0, <3>2 DEF ReceiveTasks
    <3>3. CASE CompleteMessage(r)
      BY <1>0, <3>3 DEF CompleteMessage, FirstStep
    <3> QED
      BY <1>2, <3>1, <3>2, <3>3
  <2>2. SettledRow(r)'
    BY <2>1 DEF SettledRow, LiveSteps
  <2> QED
    BY <1>0, <1>s, <2>1, <2>2, SettledOthers
<1>3. CASE InsertTaskBatch(r)
  <2>1. /\ pc[r] = "insert" /\ pc'[r] = "publish"
        /\ \A s \in Replica : s # r => pc'[s] = pc[s]
    BY <1>0, <1>3 DEF InsertTaskBatch
  <2>2. \A t \in Task : Settled(t)'
    BY <1>0, <1>3 DEF InsertTaskBatch, Settled, BlockReasons
  <2>3. SettledRow(r)'
    BY <2>1 DEF SettledRow, LiveSteps
  <2> QED
    BY <1>0, <2>1, <2>2, <2>3, SettledOthers
<1>4. CASE \/ PublishTask(r) \/ HeartbeatHandled(r) \/ GateCleared(r) \/ DuplicateDropped(r)
           \/ NotDispatchable(r) \/ FindBlockedDependency(r) \/ HandlerRaises(r)
           \/ RequeueNotReady(r) \/ GiveUpNotReady(r) \/ FailureIgnored(r)
           \/ FailureAccepted(r) \/ IncrementRetry(r) \/ CascadeIgnored(r)
           \/ CascadeAccepted(r) \/ EmitAlert(r) \/ StepRaises(r)
  <2>1. /\ pc[r] # "idle" /\ UNCHANGED <<state, reasons, batch>>
        /\ \A s \in Replica : s # r => pc'[s] = pc[s]
        /\ pc'[r] \in {"publish", "complete", "rf_read"} \cup LiveSteps
    BY <1>0, <1>4, DispatchAssumption
    DEF PublishTask, HeartbeatHandled, GateCleared, DuplicateDropped, NotDispatchable,
        FindBlockedDependency, HandlerRaises, RequeueNotReady, GiveUpNotReady,
        FailureIgnored, FailureAccepted, IncrementRetry, CascadeIgnored,
        CascadeAccepted, EmitAlert, StepRaises, LiveSteps, HeartbeatSteps, TaskSteps,
        DispatchSteps, FailureSteps
  <2>2. pc'[r] \in LiveSteps => state[Cur(r)] \in LiveStates
    <3>1. CASE GateCleared(r)
      BY <3>1 DEF GateCleared, LiveStates
    <3>2. CASE NotDispatchable(r) \/ FailureAccepted(r)
      <4>1. pc[r] \in TaskSteps /\ state[Cur(r)] \notin Terminal
        BY <3>2 DEF NotDispatchable, FailureAccepted, TaskSteps, DispatchSteps, FailureSteps
      <4> QED
        BY <1>0, <1>1, <4>1 DEF LiveStates, Terminal, PermanentlyBlocked, TaskStates
    <3>3. CASE ~(GateCleared(r) \/ NotDispatchable(r) \/ FailureAccepted(r))
      <4>1. pc'[r] \in LiveSteps => pc[r] \in LiveSteps
        BY <1>0, <1>4, <3>3, DispatchAssumption
        DEF PublishTask, HeartbeatHandled, DuplicateDropped, FindBlockedDependency,
            HandlerRaises, RequeueNotReady, GiveUpNotReady, FailureIgnored,
            IncrementRetry, CascadeIgnored, CascadeAccepted, EmitAlert, StepRaises,
            LiveSteps
      <4> QED
        BY <1>0, <4>1 DEF SettledRow
    <3> QED
      BY <3>1, <3>2, <3>3
  <2>3. Cur(r)' = Cur(r)
    BY <2>1 DEF Cur
  <2>4. SettledRow(r)'
    BY <2>1, <2>2, <2>3 DEF SettledRow, LiveSteps
  <2> QED
    BY <1>0, <1>s, <2>1, <2>4, SettledOthers
<1>5. CASE StartTask(r) \/ HandlerCompletes(r) \/ HandlerBlocks(r)
           \/ ScheduleRetry(r) \/ DeadLetter(r) \/ CascadeDeadLetter(r)
  <2> DEFINE Moves(to, why, next) ==
        Transition(Cur(r), to, why) /\ pc' = [pc EXCEPT ![r] = next]
  <2>1. /\ pc[r] \in LiveSteps \cap TaskSteps /\ UNCHANGED batch
        /\ \/ Moves("running", "dispatched", "handler")
           \/ Moves("completed", "completed", "select")
           \/ Moves("failed", "qa_blocked", "complete")
           \/ \E why \in {"failed_attempt_1", "failed_attempt_2"},
                 next \in {"complete", "handler", "start"} : Moves("retry_pending", why, next)
           \/ \E why \in {"dead_lettered", "dependency_dead_lettered"} :
                Moves("dead_lettered", why, "alert")
    BY <1>0, <1>5
    DEF StartTask, HandlerCompletes, HandlerBlocks, ScheduleRetry, DeadLetter,
        CascadeDeadLetter, LiveSteps, TaskSteps, DispatchSteps, FailureSteps
  <2>2. PICK to, why, next :
          /\ Moves(to, why, next)
          /\ why = "completed" => to = "completed"
          /\ why \in BlockReasons => to \in PermanentlyBlocked
          /\ next \in {"handler", "select", "complete", "start", "alert"}
          /\ next \in LiveSteps => to \in LiveStates
    BY <2>1 DEF BlockReasons, PermanentlyBlocked, LiveSteps, LiveStates
  <2>3. Cur(r) \in Task /\ state[Cur(r)] \in LiveStates
    BY <1>0, <1>1, <2>1 DEF SettledRow
  <2>4. /\ \A u \in Task : Settled(u)'
        /\ state'[Cur(r)] = to
    BY <2>2, <2>3, SettledMove
  <2>5. /\ pc'[r] = next /\ \A s \in Replica : s # r => pc'[s] = pc[s]
        /\ pc[r] # "idle"
    BY <1>0, <2>1, <2>2 DEF LiveSteps
  <2>6. Cur(r)' = Cur(r)
    BY <2>1 DEF Cur
  <2>7. SettledRow(r)'
    BY <2>2, <2>4, <2>5, <2>6 DEF SettledRow
  <2> QED
    BY <1>0, <2>4, <2>5, <2>7, SettledOthers
<1>6. CASE SelectPendingDependents(r) \/ CountCompletedDeps(r)
  <2>1. /\ pc[r] \in {"select", "count"} /\ pc'[r] \in {"count", "complete", "advance"}
        /\ \A s \in Replica : s # r => pc'[s] = pc[s]
        /\ UNCHANGED <<state, reasons>>
        /\ \A t \in todo'[r] : state[t] = "pending"
    <3>1. CASE SelectPendingDependents(r)
      BY <1>0, <3>1 DEF SelectPendingDependents
    <3>2. CASE CountCompletedDeps(r)
      BY <1>0, <3>2 DEF CountCompletedDeps, SettledRow
    <3> QED
      BY <1>6, <3>1, <3>2
  <2>2. SettledRow(r)'
    BY <2>1 DEF SettledRow, LiveSteps
  <2> QED
    BY <1>0, <1>s, <2>1, <2>2, SettledOthers
<1>7. CASE AdvanceDependent(r)
  <2>1. PICK u \in todo[r] :
          /\ Transition(u, "dispatchable", "dependency_satisfied")
          /\ todo' = [todo EXCEPT ![r] = @ \ {u}]
          /\ pc' = [pc EXCEPT ![r] = IF todo[r] = {u} THEN "complete" ELSE "advance"]
    BY <1>7 DEF AdvanceDependent
  <2>2. /\ pc[r] = "advance" /\ pc'[r] \in {"complete", "advance"} /\ u \in Task
        /\ \A s \in Replica : s # r => pc'[s] = pc[s]
        /\ todo'[r] = todo[r] \ {u} /\ todo[r] \subseteq Task
        /\ \A t \in todo[r] : state[t] = "pending"
    BY <1>0, <1>7, <2>1 DEF AdvanceDependent, SettledRow
  <2>3. /\ \A t \in Task : Settled(t)'
        /\ \A t \in Task : t # u => state'[t] = state[t]
    BY <2>1, <2>2, SettledMove DEF LiveStates, BlockReasons
  <2>4. SettledRow(r)'
    BY <2>2, <2>3 DEF SettledRow, LiveSteps
  <2> QED
    BY <1>0, <2>2, <2>3, <2>4, SettledOthers
<1> QED
  BY <1>2, <1>3, <1>4, <1>5, <1>6, <1>7 DEF Step, HandleHeartbeat, DispatchTask, HandleFailure

-----------------------------------------------------------------------------
(* Strikes before the turn of a task *)

\* The messages of q that let task t be handled: its envelopes and the heartbeats,
\* each of which publishes one more.
Chances(q, t) == Cardinality({i \in 1..Len(q) : q[i].about \in {t, Heartbeat}})
Chance(a, t) == IF a \in {t, Heartbeat} THEN 1 ELSE 0

\* Message for message, q is p followed by s.
Joined(q, p, s) ==
  /\ Len(p) \in Nat /\ Len(s) \in Nat /\ Len(q) = Len(p) + Len(s)
  /\ \A i \in 1..Len(p) : q[i].about = p[i].about
  /\ \A i \in 1..Len(s) : q[Len(p) + i].about = s[i].about

LEMMA ChancesJoined ==
  ASSUME NEW t, NEW q, NEW p, NEW s, Joined(q, p, s)
  PROVE  /\ Chances(q, t) = Chances(p, t) + Chances(s, t)
         /\ Chances(p, t) \in Nat /\ Chances(s, t) \in Nat
<1> DEFINE A == {t, Heartbeat}
           P == {i \in 1..Len(p) : p[i].about \in A}
           S == {i \in 1..Len(s) : s[i].about \in A}
           Q == {i \in 1..Len(q) : q[i].about \in A}
           shift == [i \in S |-> Len(p) + i]
           T == {Len(p) + i : i \in S}
<1> USE DEF Joined
<1>1. IsFiniteSet(P) /\ IsFiniteSet(S)
  <2>1. IsFiniteSet(1..Len(p)) /\ IsFiniteSet(1..Len(s))
    BY FS_Interval
  <2> QED
    BY <2>1, FS_Subset
<1>2. IsFiniteSet(T) /\ Cardinality(T) = Cardinality(S)
  <2>1. \A i, j \in S : Len(p) + i = Len(p) + j => i = j
    OBVIOUS
  <2>2. shift \in [S -> T] /\ \A i \in S : shift[i] = Len(p) + i
    OBVIOUS
  <2>3. \A k \in T : \E i \in S : shift[i] = k
    BY <2>2
  <2>5. \A i, j \in S : shift[i] = shift[j] => i = j
    BY <2>1, <2>2
  <2> HIDE DEF S, T, shift
  <2>4. shift \in Bijection(S, T)
    BY <2>2, <2>3, <2>5 DEF Bijection, Injection, Surjection, IsInjective
  <2> QED
    BY <1>1, <2>4, FS_Bijection DEF ExistsBijection
<1>3. Q = P \cup T /\ P \cap T = {}
  <2>1. ASSUME NEW i \in Q PROVE i \in P \cup T
    <3>1. CASE i <= Len(p)
      BY <2>1, <3>1
    <3>2. CASE ~(i <= Len(p))
      <4>1. i - Len(p) \in 1..Len(s) /\ Len(p) + (i - Len(p)) = i
        BY <3>2
      <4> QED
        BY ZenonT(40), <2>1, <4>1
    <3> QED
      BY <3>1, <3>2
  <2>2. P \subseteq Q /\ T \subseteq Q /\ P \cap T = {}
    OBVIOUS
  <2> QED
    BY <2>1, <2>2
<1> HIDE DEF P, S, Q, T
<1>4. Cardinality(P) \in Nat /\ Cardinality(S) \in Nat
  BY <1>1, FS_CardinalityType
<1>5. Cardinality(P \cup T) = Cardinality(P) + Cardinality(T) - Cardinality(P \cap T)
  BY <1>1, <1>2, FS_Union
<1>6. Cardinality(Q) = Cardinality(P) + Cardinality(S)
  <2>1. Cardinality(P \cap T) = 0
    BY <1>3, FS_EmptySet
  <2> QED
    BY <1>2, <1>3, <1>4, <1>5, <2>1
<1> QED
  BY <1>4, <1>6 DEF Chances, P, S, Q

LEMMA ChancesOfOne ==
  ASSUME NEW t, NEW m
  PROVE  Chances(<<m>>, t) = Chance(m.about, t)
<1> DEFINE S == {i \in 1..Len(<<m>>) : <<m>>[i].about \in {t, Heartbeat}}
<1>1. CASE m.about \in {t, Heartbeat}
  <2>1. S = {1}
    BY <1>1
  <2> QED
    BY <1>1, <2>1, FS_Singleton DEF Chances, Chance
<1>2. CASE m.about \notin {t, Heartbeat}
  <2>1. S = {}
    BY <1>2
  <2> QED
    BY <1>2, <2>1, FS_EmptySet DEF Chances, Chance
<1> QED
  BY <1>1, <1>2

LEMMA ChancesTyped ==
  ASSUME NEW t, NEW q \in Seq(Message)
  PROVE  Chances(q, t) \in Nat
<1>1. IsFiniteSet(1..Len(q))
  BY LenProperties, FS_Interval
<1>2. IsFiniteSet({i \in 1..Len(q) : q[i].about \in {t, Heartbeat}})
  BY <1>1, FS_Subset
<1> QED
  BY <1>2, FS_CardinalityType DEF Chances

LEMMA ChancesAppend ==
  ASSUME NEW t, NEW q \in Seq(Message), NEW m \in Message
  PROVE  Chances(Append(q, m), t) = Chances(q, t) + Chance(m.about, t)
<1>1. Joined(Append(q, m), q, <<m>>)
  BY LenProperties DEF Joined
<1> QED
  BY <1>1, ChancesJoined, ChancesOfOne

LEMMA ChancesBoth ==
  ASSUME NEW t, NEW p \in Seq(Message), NEW s \in Seq(Message)
  PROVE  Chances(p \o s, t) = Chances(p, t) + Chances(s, t)
<1>1. Joined(p \o s, p, s)
  BY ConcatProperties, LenProperties DEF Joined
<1> QED
  BY <1>1, ChancesJoined

LEMMA ChancesTail ==
  ASSUME NEW t, NEW q \in Seq(Message), q # <<>>
  PROVE  Chances(q, t) = Chance(Head(q).about, t) + Chances(Tail(q), t)
<1>1. Joined(q, <<Head(q)>>, Tail(q))
  BY LenProperties DEF Joined
<1> QED
  BY <1>1, ChancesJoined, ChancesOfOne

LEMMA ChancesReceived ==
  ASSUME NEW t, NEW q \in Seq(Message), NEW n \in 1..Len(q)
  PROVE  Chances(q, t) = Chance(Head(q).about, t) + Chances(Tail(Locked(q, n)), t)
                           + Chances(SubSeq(q, n + 1, Len(q)), t)
<1> DEFINE p == Locked(q, n)
           s == SubSeq(q, n + 1, Len(q))
<1>1. n \in Nat /\ Len(q) \in Nat /\ n >= 1 /\ n <= Len(q)
  BY LenProperties
<1>2. p \in Seq(Message) /\ p # <<>> /\ Head(p).about = Head(q).about
  BY LockedPrefix
<1>3. Len(p) = n /\ \A i \in 1..n : p[i].about = q[i].about
  <2>1. \A i \in 1..n : q[i] \in Message
    BY <1>1, ElementOfSeq
  <2>2. \A i \in 1..n : [q[i] EXCEPT !.locked = TRUE].about = q[i].about
    BY <2>1 DEF Message
  <2>3. DOMAIN p = 1..n /\ \A i \in 1..n : p[i].about = q[i].about
    BY <2>2 DEF Locked
  <2>4. DOMAIN p = 1..Len(p) /\ Len(p) \in Nat
    BY <1>2, LenProperties
  <2> HIDE DEF p
  <2>5. Len(p) = n
    BY <1>1, <2>3, <2>4
  <2> QED
    BY <2>3, <2>5
<1>4. Len(s) = Len(q) - n /\ \A i \in 1..Len(s) : s[i] = q[n + i]
  BY <1>1
<1> HIDE DEF p, s
<1>5. Joined(q, p, s)
  BY <1>1, <1>3, <1>4 DEF Joined
<1>7. Chances(q, t) = Chances(p, t) + Chances(s, t)
  BY <1>5, ChancesJoined
<1>6. Chances(p, t) = Chance(Head(q).about, t) + Chances(Tail(p), t)
  BY <1>2, ChancesTail
<1> QED
  BY <1>6, <1>7 DEF p, s

\* The message in the hands of replica r may still cost t a strike.
AtStake(r, t) ==
  \/ pc[r] = "insert"
  \/ pc[r] = "publish" /\ t \in todo[r]
  \/ pc[r] \in {"check", "deps", "not_ready", "rf_read", "rf_incr"} /\ Cur(r) = t

Held(r, t) ==
  IF pc[r] = "idle" THEN 0
  ELSE Chances(Tail(batch[r]), t) + (IF AtStake(r, t) THEN 1 ELSE 0)

\* The strikes of t, and those that it may still get while its dependencies are
\* not done.
Loose(t) == Chances(eventQueue, t) + Chances(taskQueue, t) + Chances(orphaned, t)
Strikes(r, t) == retryCount[t] + Loose(t) + Held(r, t)

\* The heartbeats, and the messages that faults have delivered once more.
Deliveries == Heartbeats + faults["crash"] + faults["lock"]

StrikeInv ==
  /\ About(eventQueue, {Heartbeat})
  /\ \A t \in Task : DepsDone(t) \/ \A r \in Replica : Strikes(r, t) <= Deliveries
  /\ \A r \in Replica : pc[r] = "rf_move" => strike[r] = retryCount[Cur(r)]

LEMMA DeliveriesTyped == ASSUME TypeInv PROVE Deliveries \in Nat
BY DispatchAssumption DEF Deliveries, TypeInv, TypeOK, FaultKinds

LEMMA StrikeInit == Init => StrikeInv
<1> SUFFICES ASSUME Init PROVE StrikeInv
  OBVIOUS
<1>1. /\ eventQueue \in Seq(Message) /\ Len(eventQueue) = Heartbeats
      /\ About(eventQueue, {Heartbeat}) /\ orphaned = <<>> /\ taskQueue = <<>>
      /\ \A t \in Task : retryCount[t] = 0
      /\ \A r \in Replica : pc[r] = "idle"
      /\ Deliveries = Heartbeats
  BY DispatchAssumption DEF Init, Start, About, NewMessage, Message, Deliveries, FaultKinds
<1>2. ASSUME NEW t \in Task, NEW r \in Replica PROVE Strikes(r, t) <= Deliveries
  <2>1. Chances(<<>>, t) = 0
    <3>1. {i \in 1..Len(<<>>) : <<>>[i].about \in {t, Heartbeat}} = {}
      OBVIOUS
    <3> QED
      BY <3>1, FS_EmptySet DEF Chances
  <2>2. Chances(eventQueue, t) \in Nat /\ Chances(eventQueue, t) <= Heartbeats
    <3> DEFINE S == {i \in 1..Len(eventQueue) : eventQueue[i].about \in {t, Heartbeat}}
    <3>1. IsFiniteSet(1..Heartbeats) /\ Cardinality(1..Heartbeats) = Heartbeats
      BY DispatchAssumption, FS_Interval
    <3>2. S \in SUBSET (1..Heartbeats)
      BY <1>1
    <3> HIDE DEF S
    <3>3. IsFiniteSet(S) /\ Cardinality(S) <= Cardinality(1..Heartbeats)
      BY <3>1, <3>2, FS_Subset
    <3>4. Cardinality(S) \in Nat
      BY <3>3, FS_CardinalityType
    <3> QED
      BY <3>1, <3>3, <3>4 DEF Chances, S
  <2> QED
    BY <1>1, <2>1, <2>2, DispatchAssumption DEF Strikes, Loose, Held
<1> QED
  BY <1>1, <1>2 DEF StrikeInv

\* The counts are numbers.
LEMMA LooseTyped ==
  ASSUME eventQueue \in Seq(Message), taskQueue \in Seq(Message), orphaned \in Seq(Message),
         NEW t \in Task
  PROVE  /\ Chances(eventQueue, t) \in Nat /\ Chances(taskQueue, t) \in Nat
         /\ Chances(orphaned, t) \in Nat /\ Loose(t) \in Nat
BY ChancesTyped DEF Loose

LEMMA StrikesTyped ==
  ASSUME TypeInv, NEW r \in Replica, NEW t \in Task
  PROVE  /\ Chances(eventQueue, t) \in Nat /\ Chances(taskQueue, t) \in Nat
         /\ Chances(orphaned, t) \in Nat /\ Loose(t) \in Nat
         /\ retryCount[t] \in Nat /\ Held(r, t) \in Nat
<1>1. /\ eventQueue \in Seq(Message) /\ taskQueue \in Seq(Message)
      /\ orphaned \in Seq(Message)
      /\ retryCount[t] \in Nat /\ batch[r] \in Seq(Message)
      /\ pc[r] # "idle" => batch[r] # <<>>
  BY DEF TypeInv, TypeOK
<1>2. pc[r] # "idle" => Tail(batch[r]) \in Seq(Message)
  BY <1>1, HeadTailProperties
<1>3. pc[r] # "idle" => Chances(Tail(batch[r]), t) \in Nat
  BY <1>2, ChancesTyped
<1>4. Held(r, t) \in Nat
  BY <1>3 DEF Held
<1> QED
  BY <1>1, <1>4, LooseTyped

\* A step within a message after which no more is at stake than before.
LEMMA StrikesLocal ==
  ASSUME TypeInv, NEW r \in Replica, NEW t \in Task, UNCHANGED busVars,
         retryCount'[t] = retryCount[t], pc[r] # "idle", pc'[r] # "idle",
         AtStake(r, t)' => AtStake(r, t)
  PROVE  Strikes(r, t)' <= Strikes(r, t)
<1>1. /\ Loose(t)' = Loose(t)
      /\ Chances(Tail(batch[r]), t)' = Chances(Tail(batch[r]), t)
  BY DEF busVars, Loose
<1>2. Chances(Tail(batch[r]), t) \in Nat
  BY HeadTailProperties, ChancesTyped DEF TypeInv, TypeOK
<1> QED
  BY <1>1, <1>2, StrikesTyped DEF Strikes, Held

\* Messages are received: what was queued is held.
LEMMA StrikesReceived ==
  ASSUME TypeInv, About(eventQueue, {Heartbeat}), NEW r \in Replica, NEW t \in Task,
         ReceiveEvents(r) \/ ReceiveTasks(r)
  PROVE  Strikes(r, t)' <= Strikes(r, t)
<1>0. /\ eventQueue \in Seq(Message) /\ taskQueue \in Seq(Message)
      /\ pc \in [Replica -> Steps] /\ batch \in [Replica -> Seq(Message)]
  BY DEF TypeInv, TypeOK
<1> USE DEF Goto, rowVars, localVars
<1>1. CASE ReceiveEvents(r)
  <2>1. PICK n \in 1..BatchMax :
          /\ n <= Len(eventQueue)
          /\ batch' = [batch EXCEPT ![r] = Locked(eventQueue, n)]
          /\ eventQueue' = SubSeq(eventQueue, n + 1, Len(eventQueue))
          /\ pc' = [pc EXCEPT ![r] = "insert"]
    BY <1>1 DEF ReceiveEvents
  <2>2. n \in 1..Len(eventQueue)
    BY <1>0, <2>1, DispatchAssumption, LenProperties
  <2>3. /\ pc[r] = "idle" /\ pc'[r] = "insert" /\ batch'[r] = Locked(eventQueue, n)
        /\ UNCHANGED <<retryCount, taskQueue, orphaned>>
    BY <1>0, <1>1, <2>1 DEF ReceiveEvents
  <2>4. Chance(Head(eventQueue).about, t) = 1
    <3>1. 1 \in 1..Len(eventQueue) /\ Head(eventQueue) = eventQueue[1]
      BY <1>0, <2>2
    <3> QED
      BY <3>1 DEF About, Chance
  <2>5. Chances(eventQueue, t) = 1 + Chances(Tail(batch'[r]), t) + Chances(eventQueue', t)
    BY <1>0, <2>1, <2>2, <2>3, <2>4, ChancesReceived
  <2>6. AtStake(r, t)'
    BY <2>3 DEF AtStake
  <2>7. Tail(batch'[r]) \in Seq(Message) /\ eventQueue' \in Seq(Message)
    BY <1>0, <2>1, <2>2, <2>3, LockedPrefix, HeadTailProperties
  <2>8. Chances(Tail(batch'[r]), t) \in Nat /\ Chances(eventQueue', t) \in Nat
    BY <2>7, ChancesTyped
  <2>9. Held(r, t) = 0 /\ Held(r, t)' = Chances(Tail(batch'[r]), t) + 1
    BY <2>3, <2>6 DEF Held
  <2> QED
    BY <2>3, <2>5, <2>8, <2>9, StrikesTyped DEF Strikes, Loose
<1>2. CASE ReceiveTasks(r)
  <2>1. PICK n \in 1..BatchMax :
          /\ n <= Len(taskQueue)
          /\ batch' = [batch EXCEPT ![r] = Locked(taskQueue, n)]
          /\ taskQueue' = SubSeq(taskQueue, n + 1, Len(taskQueue))
          /\ pc' = [pc EXCEPT ![r] = IF Head(taskQueue).redelivered
                                     THEN "rf_read" ELSE "check"]
    BY <1>2 DEF ReceiveTasks
  <2>2. n \in 1..Len(taskQueue)
    BY <1>0, <2>1, DispatchAssumption, LenProperties
  <2>3. /\ pc[r] = "idle" /\ pc'[r] \in {"rf_read", "check"}
        /\ batch'[r] = Locked(taskQueue, n)
        /\ UNCHANGED <<retryCount, eventQueue, orphaned>>
    BY <1>0, <1>2, <2>1 DEF ReceiveTasks
  <2>4. Cur(r)' = Head(taskQueue).about
    BY <1>0, <2>2, <2>3, LockedPrefix DEF Cur
  <2>5. Chances(taskQueue, t) = Chance(Cur(r)', t) + Chances(Tail(batch'[r]), t)
                                  + Chances(taskQueue', t)
    BY <1>0, <2>1, <2>2, <2>3, <2>4, ChancesReceived
  <2>6. AtStake(r, t)' => Chance(Cur(r)', t) = 1
    BY <2>3 DEF AtStake, Chance
  <2>7. Tail(batch'[r]) \in Seq(Message) /\ taskQueue' \in Seq(Message)
    BY <1>0, <2>1, <2>2, <2>3, LockedPrefix, HeadTailProperties
  <2>8. /\ Chances(Tail(batch'[r]), t) \in Nat /\ Chances(taskQueue', t) \in Nat
        /\ Chance(Cur(r)', t) \in Nat
    BY <2>7, ChancesTyped DEF Chance
  <2>9. Held(r, t) = 0 /\ Held(r, t)' <= Chances(Tail(batch'[r]), t) + Chance(Cur(r)', t)
    BY <2>3, <2>6, <2>8 DEF Held
  <2>10. Held(r, t)' \in Nat
    BY <2>8 DEF Held
  <2> QED
    BY <2>3, <2>5, <2>8, <2>9, <2>10, StrikesTyped DEF Strikes, Loose
<1> QED
  BY <1>1, <1>2

\* The next message of a batch: it was held, it is at stake.
LEMMA StrikesCompleted ==
  ASSUME TypeInv, NEW r \in Replica, NEW t \in Task, CompleteMessage(r)
  PROVE  Strikes(r, t)' <= Strikes(r, t)
<1>1. /\ batch[r] \in Seq(Message) /\ batch[r] # <<>>
      /\ pc[r] = "complete" /\ pc'[r] = FirstStep(Tail(batch[r]))
      /\ batch'[r] = Tail(batch[r])
      /\ UNCHANGED <<retryCount, eventQueue, taskQueue, orphaned>>
  BY DEF TypeInv, TypeOK, CompleteMessage, Goto, rowVars
<1> DEFINE b == Tail(batch[r])
<1>2. b \in Seq(Message)
  BY <1>1, HeadTailProperties
<1>3. Held(r, t) = Chances(b, t) /\ Chances(b, t) \in Nat
  <2>1. ~AtStake(r, t) /\ pc[r] # "idle"
    BY <1>1 DEF AtStake
  <2>2. Chances(b, t) \in Nat
    BY <1>2, ChancesTyped
  <2> QED
    BY <2>1, <2>2 DEF Held
<1>4. Held(r, t)' \in Nat /\ Held(r, t)' <= Chances(b, t)
  <2>1. CASE b = <<>>
    BY <1>1, <1>3, <2>1 DEF Held, FirstStep
  <2>2. CASE b # <<>>
    <3>1. /\ Chances(b, t) = Chance(Head(b).about, t) + Chances(Tail(b), t)
          /\ Tail(b) \in Seq(Message) /\ Chances(Tail(b), t) \in Nat
      BY <1>2, <2>2, ChancesTail, HeadTailProperties, ChancesTyped
    <3>2. pc'[r] \in {"insert", "rf_read", "check"} /\ Cur(r)' = Head(b).about
      BY <1>1, <2>2 DEF FirstStep, Cur
    <3>3. pc'[r] = "insert" => Head(b).about = Heartbeat
      BY <1>1, <2>2 DEF FirstStep
    <3>4. AtStake(r, t)' => Chance(Head(b).about, t) = 1
      BY <3>2, <3>3 DEF AtStake, Chance
    <3>5. Held(r, t)' = Chances(Tail(b), t) + (IF AtStake(r, t)' THEN 1 ELSE 0)
      BY <1>1, <3>2 DEF Held
    <3>6. Chance(Head(b).about, t) \in Nat
      BY DEF Chance
    <3> QED
      BY <3>1, <3>4, <3>5, <3>6
  <2> QED
    BY <2>1, <2>2
<1> QED
  BY <1>1, <1>3, <1>4, StrikesTyped DEF Strikes, Loose

\* An envelope is published: what was at stake is queued.
LEMMA StrikesPublished ==
  ASSUME TypeInv, NEW r \in Replica, NEW t \in Task, PublishTask(r) \/ RequeueNotReady(r)
  PROVE  Strikes(r, t)' <= Strikes(r, t)
<1>0. /\ taskQueue \in Seq(Message) /\ batch \in [Replica -> Seq(Message)]
      /\ pc \in [Replica -> Steps] /\ todo \in [Replica -> SUBSET Task]
  BY DEF TypeInv, TypeOK
<1>1. PICK u \in Task, n \in Nat :
        /\ taskQueue' = Append(taskQueue, NewMessage(u, n))
        /\ UNCHANGED <<retryCount, eventQueue, orphaned, batch>>
        /\ pc[r] # "idle" /\ pc'[r] # "idle"
        /\ u = t => AtStake(r, t) /\ ~AtStake(r, t)'
        /\ AtStake(r, t)' => AtStake(r, t)
  <2>1. CASE PublishTask(r)
    <3>1. PICK u \in todo[r] :
            /\ taskQueue' = Append(taskQueue, NewMessage(u, 0))
            /\ todo' = [todo EXCEPT ![r] = @ \ {u}]
      BY <2>1 DEF PublishTask
    <3>2. /\ pc[r] = "publish" /\ UNCHANGED <<pc, retryCount, eventQueue, orphaned, batch>>
          /\ u \in Task /\ todo'[r] = todo[r] \ {u}
      BY <1>0, <2>1, <3>1 DEF PublishTask, rowVars
    <3>3. /\ u = t => AtStake(r, t) /\ ~AtStake(r, t)'
          /\ AtStake(r, t)' => AtStake(r, t)
      BY <3>1, <3>2 DEF AtStake
    <3> QED
      BY <3>1, <3>2, <3>3
  <2>2. CASE RequeueNotReady(r)
    <3>1. /\ pc[r] = "not_ready" /\ pc'[r] = "complete"
          /\ UNCHANGED <<retryCount, eventQueue, orphaned, batch>>
          /\ taskQueue' = Append(taskQueue, NewMessage(Cur(r), Head(batch[r]).requeues + 1))
      BY <1>0, <2>2 DEF RequeueNotReady, Goto, rowVars
    <3>2. Cur(r) \in Task /\ batch[r] # <<>>
      BY <3>1 DEF TypeInv, TaskSteps, FailureSteps
    <3>3. Head(batch[r]).requeues + 1 \in Nat
      <4>1. Head(batch[r]) \in Message
        BY <1>0, <3>2, HeadTailProperties
      <4> QED
        BY <4>1 DEF Message
    <3>4. ~AtStake(r, t)' /\ (Cur(r) = t => AtStake(r, t))
      BY <3>1 DEF AtStake
    <3> QED
      BY <3>1, <3>2, <3>3, <3>4
  <2> QED
    BY <2>1, <2>2
<1>2. NewMessage(u, n) \in Message /\ NewMessage(u, n).about = u
  BY DEF NewMessage, Message
<1>3. Chances(taskQueue', t) = Chances(taskQueue, t) + Chance(u, t)
  BY <1>0, <1>1, <1>2, ChancesAppend
<1>4. Chance(u, t) = IF u = t THEN 1 ELSE 0
  BY DispatchAssumption DEF Chance
<1>5. Chances(Tail(batch[r]), t) \in Nat
  BY <1>0, <1>1, HeadTailProperties, ChancesTyped DEF TypeInv
<1>6. /\ Held(r, t) = Chances(Tail(batch[r]), t) + (IF AtStake(r, t) THEN 1 ELSE 0)
      /\ Held(r, t)' = Chances(Tail(batch[r]), t) + (IF AtStake(r, t)' THEN 1 ELSE 0)
  BY <1>1 DEF Held
<1>7. Held(r, t)' + Chance(u, t) <= Held(r, t) /\ Held(r, t)' \in Nat
  BY <1>1, <1>4, <1>5, <1>6
<1>8. Loose(t)' = Loose(t) + Chance(u, t) /\ Chance(u, t) \in Nat
  BY SMTT(30), <1>1, <1>3, <1>4, StrikesTyped DEF Loose
<1> QED
  BY SMTT(30), <1>1, <1>7, <1>8, StrikesTyped DEF Strikes

\* A strike is counted: it was at stake.
LEMMA StrikesIncremented ==
  ASSUME TypeInv, NEW r \in Replica, NEW t \in Task, IncrementRetry(r)
  PROVE  Strikes(r, t)' <= Strikes(r, t)
<1>1. /\ pc[r] = "rf_incr" /\ pc'[r] = "rf_move" /\ UNCHANGED <<eventQueue, taskQueue, orphaned, batch>>
      /\ retryCount' = [retryCount EXCEPT ![Cur(r)] = @ + 1]
      /\ retryCount \in [Task -> Nat] /\ batch[r] \in Seq(Message)
  BY DEF TypeInv, TypeOK, IncrementRetry, Goto, busVars
<1>2. batch[r] # <<>>
  BY <1>1 DEF TypeInv
<1>3. Chances(Tail(batch[r]), t) \in Nat
  BY <1>1, <1>2, HeadTailProperties, ChancesTyped
<1>4. ~AtStake(r, t)' /\ (Cur(r) = t => AtStake(r, t))
  BY <1>1 DEF AtStake
<1>5. /\ Held(r, t) = Chances(Tail(batch[r]), t) + (IF AtStake(r, t) THEN 1 ELSE 0)
      /\ Held(r, t)' = Chances(Tail(batch[r]), t)
  BY <1>1, <1>3, <1>4 DEF Held
<1>6. retryCount'[t] + Held(r, t)' <= retryCount[t] + Held(r, t)
  BY <1>1, <1>3, <1>4, <1>5
<1>7. Loose(t)' = Loose(t) /\ Held(r, t)' \in Nat
  BY <1>1, <1>3, <1>5 DEF Loose
<1>8. retryCount'[t] \in Nat
  BY <1>1
<1> QED
  BY <1>6, <1>7, <1>8, StrikesTyped DEF Strikes

\* Every step of a replica: a strike of a task whose dependencies are not done costs
\* one of the messages that could let it be handled.
LEMMA StrikesFall ==
  ASSUME TypeInv, GateInv, About(eventQueue, {Heartbeat}), NEW r \in Replica,
         Step(r) \/ StepRaises(r), NEW t \in Task, ~DepsDone(t)
  PROVE  Strikes(r, t)' <= Strikes(r, t)
<1>1. CASE ReceiveEvents(r) \/ ReceiveTasks(r)
  BY <1>1, StrikesReceived
<1>2. CASE CompleteMessage(r)
  BY <1>2, StrikesCompleted
<1>3. CASE PublishTask(r) \/ RequeueNotReady(r)
  BY <1>3, StrikesPublished
<1>4. CASE IncrementRetry(r)
  BY <1>4, StrikesIncremented
<1>5. CASE \/ InsertTaskBatch(r) \/ HeartbeatHandled(r) \/ DispatchTask(r) \/ StepRaises(r)
           \/ HandleFailure(r) /\ ~RequeueNotReady(r) /\ ~IncrementRetry(r)
  <2>0. /\ pc \in [Replica -> Steps] /\ todo \in [Replica -> SUBSET Task]
        /\ GateReplica(r)
    BY DEF TypeInv, TypeOK, GateInv
  <2> USE DEF Goto, rowVars, localVars, Transition
  <2>1. UNCHANGED busVars /\ retryCount' = retryCount
    BY <1>5
    DEF InsertTaskBatch, HeartbeatHandled, DispatchTask, HandleFailure, StepRaises,
        GateCleared, DuplicateDropped, NotDispatchable, FindBlockedDependency, StartTask,
        HandlerCompletes, HandlerBlocks, HandlerRaises, SelectPendingDependents,
        CountCompletedDeps, AdvanceDependent, GiveUpNotReady, FailureIgnored,
        FailureAccepted, ScheduleRetry, DeadLetter, CascadeIgnored, CascadeAccepted,
        CascadeDeadLetter, EmitAlert
  <2>2. Cur(r)' = Cur(r)
    BY <2>1 DEF Cur, busVars
  <2> DEFINE Safe == {"publish", "start", "handler", "select", "count", "advance", "rf_move",
                      "cas_read", "cas_move", "alert", "complete"}
             Early == {"check", "deps", "not_ready", "rf_read", "rf_incr"}
  <2>3. /\ pc[r] # "idle" /\ pc'[r] \in Safe \cup Early
        /\ pc'[r] = "publish" => pc[r] = "insert"
        /\ pc'[r] \in Early => \/ pc[r] \in Early
                               \/ pc[r] \in {"start", "handler", "select", "count", "advance"}
    <3>1. CASE InsertTaskBatch(r) \/ HeartbeatHandled(r)
      BY <2>0, <3>1 DEF InsertTaskBatch, HeartbeatHandled
    <3>2. CASE DispatchTask(r)
      BY <2>0, <3>2
      DEF DispatchTask, GateCleared, DuplicateDropped, NotDispatchable,
          FindBlockedDependency, StartTask, HandlerCompletes, HandlerBlocks, HandlerRaises,
          SelectPendingDependents, CountCompletedDeps, AdvanceDependent
    <3>3. CASE HandleFailure(r) /\ ~RequeueNotReady(r) /\ ~IncrementRetry(r)
      BY <2>0, <3>3
      DEF HandleFailure, GiveUpNotReady, FailureIgnored, FailureAccepted, ScheduleRetry,
          DeadLetter, CascadeIgnored, CascadeAccepted, CascadeDeadLetter, EmitAlert
    <3>4. CASE StepRaises(r)
      BY <2>0, <3>4, DispatchAssumption
      DEF StepRaises, HeartbeatSteps, TaskSteps, DispatchSteps, FailureSteps
    <3> QED
      BY <1>5, <3>1, <3>2, <3>3, <3>4
  <2>4. AtStake(r, t)' => AtStake(r, t)
    <3> SUFFICES ASSUME AtStake(r, t)' PROVE AtStake(r, t)
      OBVIOUS
    <3>1. CASE pc'[r] \in Early
      <4>1. Cur(r) = t
        BY <2>2, <3>1 DEF AtStake
      <4>2. pc[r] \in Early
        BY <2>0, <2>3, <3>1, <4>1 DEF GateReplica
      <4> QED
        BY <4>1, <4>2 DEF AtStake
    <3>2. CASE pc'[r] \in Safe
      <4>1. pc'[r] = "publish"
        BY <3>2 DEF AtStake
      <4> QED
        BY <2>3, <4>1 DEF AtStake
    <3> QED
      BY <2>3, <3>1, <3>2
  <2>5. pc'[r] # "idle"
    BY <2>3
  <2> HIDE DEF Safe, Early
  <2> QED
    BY <2>1, <2>3, <2>4, <2>5, StrikesLocal
<1> QED
  BY <1>1, <1>2, <1>3, <1>4, <1>5 DEF Step, HandleHeartbeat, HandleFailure

\* Only increment_retry counts, and only it leads to the third step.
LEMMA StrikesCounted ==
  ASSUME TypeInv, NEW r \in Replica, Step(r) \/ StepRaises(r)
  PROVE  IncrementRetry(r) \/ (retryCount' = retryCount /\ pc'[r] # "rf_move")
<1>0. pc \in [Replica -> Steps]
  BY DEF TypeInv, TypeOK
<1> USE DEF Goto, rowVars
<1>1. CASE ReceiveEvents(r) \/ ReceiveTasks(r) \/ CompleteMessage(r) \/ HandleHeartbeat(r)
  BY <1>0, <1>1
  DEF HandleHeartbeat, ReceiveEvents, ReceiveTasks, CompleteMessage, FirstStep,
      InsertTaskBatch, PublishTask, HeartbeatHandled
<1>2. CASE DispatchTask(r) \/ StepRaises(r)
  BY <1>0, <1>2
  DEF DispatchTask, StepRaises, GateCleared, DuplicateDropped, NotDispatchable,
      FindBlockedDependency, StartTask, HandlerCompletes, HandlerBlocks, HandlerRaises,
      SelectPendingDependents, CountCompletedDeps, AdvanceDependent, Transition
<1>3. CASE HandleFailure(r)
  BY <1>0, <1>3
  DEF HandleFailure, RequeueNotReady, GiveUpNotReady, FailureIgnored, FailureAccepted,
      ScheduleRetry, DeadLetter, CascadeIgnored, CascadeAccepted, CascadeDeadLetter,
      EmitAlert, Transition
<1> QED
  BY <1>1, <1>2, <1>3 DEF Step

LEMMA NextStrikesTyped ==
  ASSUME TypeInv', NEW r \in Replica, NEW t \in Task
  PROVE  /\ Loose(t)' \in Nat /\ retryCount[t]' \in Nat /\ Held(r, t)' \in Nat
         /\ Deliveries' \in Nat
<1>1. /\ eventQueue' \in Seq(Message) /\ taskQueue' \in Seq(Message)
      /\ orphaned' \in Seq(Message)
      /\ retryCount'[t] \in Nat /\ batch'[r] \in Seq(Message)
      /\ pc'[r] # "idle" => batch'[r] # <<>>
      /\ faults' \in [FaultKinds -> Nat]
  BY DEF TypeInv, TypeOK
<1>2. pc'[r] # "idle" => Tail(batch'[r]) \in Seq(Message)
  BY <1>1, HeadTailProperties
<1>3. pc'[r] # "idle" => Chances(Tail(batch'[r]), t) \in Nat
  BY <1>2, ChancesTyped
<1>4. Held(r, t)' \in Nat
  BY <1>3 DEF Held
<1>5. Loose(t)' \in Nat
  BY <1>1, ChancesTyped DEF Loose
<1> QED
  BY SMTT(30), <1>1, <1>4, <1>5, DispatchAssumption DEF Deliveries, FaultKinds

\* Whoever is idle holds nothing.
LEMMA StrikesOfOthers ==
  ASSUME TypeInv', NEW r \in Replica, NEW s \in Replica, NEW t \in Task,
         s # r => pc'[s] = "idle", Strikes(r, t)' <= Deliveries'
  PROVE  Strikes(s, t)' <= Deliveries'
<1>1. s # r => Held(s, t)' = 0
  BY DEF Held
<1>2. /\ Loose(t)' \in Nat /\ retryCount[t]' \in Nat /\ Deliveries' \in Nat
      /\ Held(r, t)' \in Nat /\ Held(s, t)' \in Nat
  BY NextStrikesTyped
<1> QED
  BY <1>1, <1>2 DEF Strikes

LEMMA StrikeStep ==
  ASSUME TypeInv, GateInv, SettledInv, StrikeInv, Alternate', [Next]_vars,
         NEW r \in Replica, Step(r) \/ StepRaises(r)
  PROVE  StrikeInv'
<1>0. /\ pc \in [Replica -> Steps] /\ retryCount \in [Task -> Nat]
      /\ strike \in [Replica -> Nat] /\ eventQueue \in Seq(Message)
  BY DEF TypeInv, TypeOK
<1>1. /\ pc[r] # "idle" \/ pc'[r] # "idle"
      /\ \A s \in Replica : s # r => pc'[s] = pc[s]
      /\ UNCHANGED eventQueue \/ ReceiveEvents(r)
  <2>1. CASE StepRaises(r)
    BY <1>0, <2>1, DispatchAssumption
    DEF StepRaises, Goto, busVars, HeartbeatSteps, TaskSteps, DispatchSteps, FailureSteps
  <2>2. CASE Step(r)
    <3>1. \A s \in Replica : s # r => pc'[s] = pc[s]
      BY <2>2, StepIsLocal
    <3>2. UNCHANGED eventQueue \/ ReceiveEvents(r)
      BY <2>2
      DEF Step, HandleHeartbeat, DispatchTask, HandleFailure, ReceiveEvents, ReceiveTasks,
          CompleteMessage, InsertTaskBatch, PublishTask, HeartbeatHandled, GateCleared,
          DuplicateDropped, NotDispatchable, FindBlockedDependency, StartTask,
          HandlerCompletes, HandlerBlocks, HandlerRaises, SelectPendingDependents,
          CountCompletedDeps, AdvanceDependent, RequeueNotReady, GiveUpNotReady,
          FailureIgnored, FailureAccepted, IncrementRetry, ScheduleRetry, DeadLetter,
          CascadeIgnored, CascadeAccepted, CascadeDeadLetter, EmitAlert, busVars
    <3>3. pc[r] # "idle" \/ pc'[r] # "idle"
      BY <1>0, <2>2
      DEF Step, HandleHeartbeat, DispatchTask, HandleFailure, ReceiveEvents, ReceiveTasks,
          CompleteMessage, InsertTaskBatch, PublishTask, HeartbeatHandled, GateCleared,
          DuplicateDropped, NotDispatchable, FindBlockedDependency, StartTask,
          HandlerCompletes, HandlerBlocks, HandlerRaises, SelectPendingDependents,
          CountCompletedDeps, AdvanceDependent, RequeueNotReady, GiveUpNotReady,
          FailureIgnored, FailureAccepted, IncrementRetry, ScheduleRetry, DeadLetter,
          CascadeIgnored, CascadeAccepted, CascadeDeadLetter, EmitAlert, Goto
    <3> QED
      BY <3>1, <3>2, <3>3
  <2> QED
    BY <2>1, <2>2
<1>2. \A s \in Replica : s # r => pc'[s] = "idle"
  BY <1>1 DEF SettledInv, Alternate
<1>3. About(eventQueue, {Heartbeat})'
  <2>1. CASE UNCHANGED eventQueue
    BY <2>1 DEF StrikeInv, About
  <2>2. CASE ReceiveEvents(r)
    <3>1. PICK n \in 1..BatchMax :
            /\ n <= Len(eventQueue)
            /\ eventQueue' = SubSeq(eventQueue, n + 1, Len(eventQueue))
      BY <2>2 DEF ReceiveEvents
    <3>2. n \in 1..Len(eventQueue)
      BY <1>0, <3>1, DispatchAssumption, LenProperties
    <3>3. About(eventQueue', {Heartbeat})
      BY <1>0, <3>1, <3>2, AboutPrefix DEF StrikeInv
    <3> QED
      BY <3>3 DEF About
  <2> QED
    BY <1>1, <2>1, <2>2
<1>4. Deliveries' = Deliveries
  <2>1. CASE Step(r)
    <3>1. UNCHANGED faults
      BY <2>1
      DEF Step, HandleHeartbeat, DispatchTask, HandleFailure, ReceiveEvents, ReceiveTasks,
          CompleteMessage, InsertTaskBatch, PublishTask, HeartbeatHandled, GateCleared,
          DuplicateDropped, NotDispatchable, FindBlockedDependency, StartTask,
          HandlerCompletes, HandlerBlocks, HandlerRaises, SelectPendingDependents,
          CountCompletedDeps, AdvanceDependent, RequeueNotReady, GiveUpNotReady,
          FailureIgnored, FailureAccepted, IncrementRetry, ScheduleRetry, DeadLetter,
          CascadeIgnored, CascadeAccepted, CascadeDeadLetter, EmitAlert
    <3> QED
      BY <3>1 DEF Deliveries
  <2>2. CASE StepRaises(r)
    BY <2>2 DEF StepRaises, Fault, TypeInv, TypeOK, FaultKinds, Deliveries
  <2> QED
    BY <2>1, <2>2
<1>5. TypeInv'
  BY TypeStep
<1>6. ASSUME NEW t \in Task, ~DepsDone(t)', NEW s \in Replica
      PROVE  Strikes(s, t)' <= Deliveries'
  <2>1. ~DepsDone(t)
    <3>1. Deps[t] \subseteq Task
      BY DispatchAssumption
    <3> QED
      BY <1>6, <3>1, ReasonsGrow DEF DepsDone
  <2>2. Strikes(r, t)' <= Strikes(r, t) /\ Strikes(r, t) <= Deliveries
    BY <2>1, StrikesFall DEF StrikeInv
  <2>3. Strikes(r, t)' <= Deliveries'
    <3>1. Strikes(r, t) \in Nat /\ Deliveries \in Nat
      BY StrikesTyped, DeliveriesTyped DEF Strikes
    <3>2. Strikes(r, t)' \in Nat
      BY <1>5, NextStrikesTyped DEF Strikes
    <3> QED
      BY <1>4, <2>2, <3>1, <3>2
  <2> QED
    BY <1>2, <1>5, <2>3, StrikesOfOthers
<1>7. ASSUME NEW s \in Replica, pc'[s] = "rf_move"
      PROVE  strike'[s] = retryCount'[Cur(s)']
  <2>1. s = r
    BY <1>2, <1>7
  <2>2. IncrementRetry(r)
    BY <1>7, <2>1, StrikesCounted
  <2>3. pc[r] = "rf_incr" /\ batch' = batch
    BY <2>2 DEF IncrementRetry, busVars
  <2>4. Cur(r) \in Task /\ Cur(r)' = Cur(r)
    BY <2>3 DEF TypeInv, TaskSteps, FailureSteps, Cur
  <2> QED
    BY <1>0, <2>1, <2>2, <2>4 DEF IncrementRetry
<1> QED
  BY <1>3, <1>6, <1>7 DEF StrikeInv

\* A crash and an expired lock deliver one message more.
LEMMA DeliveriesRise ==
  ASSUME TypeInv, NEW kind \in {"crash", "lock"}, Fault(kind)
  PROVE  Deliveries' = Deliveries + 1
<1>1. faults["crash"] \in Nat /\ faults["lock"] \in Nat /\ Heartbeats \in Nat
  BY DispatchAssumption DEF TypeInv, TypeOK, FaultKinds
<1>2. CASE kind = "crash"
  <2>1. faults'["crash"] = faults["crash"] + 1 /\ faults'["lock"] = faults["lock"]
    BY <1>2 DEF Fault, TypeInv, TypeOK, FaultKinds
  <2> QED
    BY <1>1, <2>1 DEF Deliveries
<1>3. CASE kind = "lock"
  <2>1. faults'["lock"] = faults["lock"] + 1 /\ faults'["crash"] = faults["crash"]
    BY <1>3 DEF Fault, TypeInv, TypeOK, FaultKinds
  <2> QED
    BY <1>1, <2>1 DEF Deliveries
<1> QED
  BY <1>2, <1>3

\* A replica dies: the message in its hands will be delivered once more.
LEMMA StrikesCrash ==
  ASSUME TypeInv, SettledInv, StrikeInv, Alternate', [Next]_vars, NEW r \in Replica, Crash(r)
  PROVE  StrikeInv'
<1>1. /\ pc[r] # "idle" /\ orphaned' = orphaned \o batch[r]
      /\ pc'[r] = "idle" /\ batch[r] # <<>>
      /\ \A s \in Replica : pc'[s] = "idle"
      /\ UNCHANGED <<reasons, retryCount, eventQueue, taskQueue>>
      /\ orphaned \in Seq(Message) /\ batch[r] \in Seq(Message)
      /\ Deliveries' = Deliveries + 1
  <2>1. pc[r] # "idle" /\ orphaned' = orphaned \o batch[r]
        /\ UNCHANGED <<reasons, retryCount, eventQueue, taskQueue>>
    BY DEF Crash, rowVars
  <2>2. batch[r] # <<>> /\ orphaned \in Seq(Message) /\ batch[r] \in Seq(Message)
    BY <2>1 DEF TypeInv, TypeOK
  <2>3. pc'[r] = "idle" /\ \A s \in Replica : pc'[s] = "idle"
    BY <2>1 DEF Crash, Goto, TypeInv, TypeOK, SettledInv, Alternate
  <2>4. Deliveries' = Deliveries + 1
    BY DeliveriesRise DEF Crash
  <2> QED
    BY <2>1, <2>2, <2>3, <2>4
<1>2. TypeInv'
  BY TypeStep
<1>3. ASSUME NEW t \in Task, ~DepsDone(t)', NEW s \in Replica
      PROVE  Strikes(s, t)' <= Deliveries'
  <2>1. Strikes(r, t) <= Deliveries
    BY <1>1, <1>3 DEF StrikeInv, DepsDone
  <2>2. Chances(batch[r], t) = Chance(Cur(r), t) + Chances(Tail(batch[r]), t)
    BY <1>1, ChancesTail DEF Cur
  <2>3. Loose(t)' = Loose(t) + Chances(batch[r], t)
    <3>1. Chances(orphaned', t) = Chances(orphaned, t) + Chances(batch[r], t)
      BY <1>1, ChancesBoth
    <3>2. Chances(batch[r], t) \in Nat
      BY <1>1, ChancesTyped
    <3> QED
      BY <1>1, <3>1, <3>2, StrikesTyped DEF Loose
  <2>4. Held(r, t) >= Chances(Tail(batch[r]), t) /\ Chances(Tail(batch[r]), t) \in Nat
    <3>1. Chances(Tail(batch[r]), t) \in Nat
      BY <1>1, HeadTailProperties, ChancesTyped
    <3> QED
      BY <1>1, <3>1 DEF Held
  <2>5. Chance(Cur(r), t) \in Nat /\ Chance(Cur(r), t) <= 1
    BY DEF Chance
  <2>6. Held(s, t)' = 0
    BY <1>1 DEF Held
  <2>7. Strikes(s, t)' = retryCount[t] + Loose(t) + Chances(batch[r], t)
    BY SMTT(30), <1>1, <2>2, <2>3, <2>4, <2>5, <2>6, StrikesTyped DEF Strikes
  <2> QED
    BY SMTT(30), <1>1, <2>1, <2>2, <2>4, <2>5, <2>7, StrikesTyped, DeliveriesTyped DEF Strikes
<1> QED
  BY <1>1, <1>3 DEF StrikeInv, About

LEMMA ChancesPutBack ==
  ASSUME TypeInv, NEW m \in Message, PutBack(m), NEW t
  PROVE  Chances(eventQueue', t) + Chances(taskQueue', t)
           = Chances(eventQueue, t) + Chances(taskQueue, t) + Chance(m.about, t)
<1> DEFINE b == [m EXCEPT !.redelivered = TRUE, !.locked = FALSE]
<1>1. b \in Message /\ b.about = m.about
  BY DEF Message
<1>2. \/ eventQueue' = <<b>> \o eventQueue /\ taskQueue' = taskQueue
      \/ taskQueue' = <<b>> \o taskQueue /\ eventQueue' = eventQueue
  BY DEF PutBack
<1> HIDE DEF b
<1>3. eventQueue \in Seq(Message) /\ taskQueue \in Seq(Message)
  BY DEF TypeInv, TypeOK
<1>4. /\ Chances(eventQueue, t) \in Nat /\ Chances(taskQueue, t) \in Nat
      /\ Chance(m.about, t) \in Nat
  BY <1>3, ChancesTyped DEF Chance
<1>5. \A q \in Seq(Message) : Chances(<<b>> \o q, t) = Chance(m.about, t) + Chances(q, t)
  <2> SUFFICES ASSUME NEW q \in Seq(Message)
               PROVE  Chances(<<b>> \o q, t) = Chance(m.about, t) + Chances(q, t)
    OBVIOUS
  <2>1. <<b>> \in Seq(Message)
    BY <1>1
  <2>2. Chances(<<b>>, t) = Chance(m.about, t)
    BY <1>1, ChancesOfOne
  <2> QED
    BY <2>1, <2>2, ChancesBoth
<1>6. CASE eventQueue' = <<b>> \o eventQueue /\ taskQueue' = taskQueue
  <2>1. Chances(eventQueue', t) = Chance(m.about, t) + Chances(eventQueue, t)
    BY <1>3, <1>5, <1>6
  <2>2. Chances(taskQueue', t) = Chances(taskQueue, t)
    BY <1>6
  <2> QED
    BY <1>4, <2>1, <2>2
<1>7. CASE taskQueue' = <<b>> \o taskQueue /\ eventQueue' = eventQueue
  <2>1. Chances(taskQueue', t) = Chance(m.about, t) + Chances(taskQueue, t)
    BY <1>3, <1>5, <1>7
  <2>2. Chances(eventQueue', t) = Chances(eventQueue, t)
    BY <1>7
  <2> QED
    BY <1>4, <2>1, <2>2
<1> QED
  BY <1>2, <1>6, <1>7

\* A message of a dead process returns to its queue, or was there already.
LEMMA StrikesReturn ==
  ASSUME TypeInv, SettledInv, StrikeInv, [Next]_vars, OrphanReturns
  PROVE  StrikeInv'
<1>1. /\ orphaned \in Seq(Message) /\ orphaned # <<>> /\ orphaned' = Tail(orphaned)
      /\ Head(orphaned) \in Message
      /\ UNCHANGED <<reasons, retryCount, batch, pc, todo, strike>>
      /\ Deliveries' = Deliveries
  <2>1. orphaned \in Seq(Message) /\ orphaned # <<>>
    BY DEF TypeInv, TypeOK, OrphanReturns
  <2> QED
    BY <2>1, HeadTailProperties DEF OrphanReturns, rowVars, localVars, Deliveries
<1>2. About(eventQueue, {Heartbeat})'
  <2>1. CASE Head(orphaned).locked
    BY <1>1, <2>1, MessagesPutBack DEF OrphanReturns, StrikeInv
  <2>2. CASE ~Head(orphaned).locked
    BY <2>2 DEF OrphanReturns, StrikeInv, About
  <2> QED
    BY <2>1, <2>2
<1>3. ASSUME NEW t \in Task, ~DepsDone(t)', NEW r \in Replica
      PROVE  Strikes(r, t)' <= Deliveries'
  <2>1. Strikes(r, t) <= Deliveries
    BY <1>1, <1>3 DEF StrikeInv, DepsDone
  <2>2. Chances(orphaned, t) = Chance(Head(orphaned).about, t) + Chances(orphaned', t)
    BY <1>1, ChancesTail
  <2>3. /\ Chances(eventQueue', t) \in Nat /\ Chances(taskQueue', t) \in Nat
        /\ Chances(orphaned', t) \in Nat
    <3>1. TypeInv'
      BY TypeStep
    <3>2. /\ eventQueue' \in Seq(Message) /\ taskQueue' \in Seq(Message)
          /\ orphaned' \in Seq(Message)
      BY <3>1 DEF TypeInv, TypeOK
    <3> QED
      BY <3>2, ChancesTyped
  <2>4. Chance(Head(orphaned).about, t) \in Nat
    BY DEF Chance
  <2>5. Chances(eventQueue', t) + Chances(taskQueue', t)
          <= Chances(eventQueue, t) + Chances(taskQueue, t) + Chance(Head(orphaned).about, t)
    <3>1. CASE Head(orphaned).locked
      BY <1>1, <2>3, <2>4, <3>1, StrikesTyped, ChancesPutBack DEF OrphanReturns
    <3>2. CASE ~Head(orphaned).locked
      BY <2>4, <3>2, StrikesTyped DEF OrphanReturns
    <3> QED
      BY <3>1, <3>2
  <2>6. Loose(t)' <= Loose(t) /\ Loose(t)' \in Nat
    BY <2>2, <2>3, <2>4, <2>5, StrikesTyped DEF Loose
  <2>7. Held(r, t)' = Held(r, t)
    BY <1>1 DEF Held, AtStake, Cur
  <2> QED
    BY SMTT(30), <1>1, <2>1, <2>6, <2>7, StrikesTyped, DeliveriesTyped DEF Strikes
<1> QED
  BY <1>1, <1>2, <1>3 DEF StrikeInv, Cur

\* A lock expires: the message is delivered once more.
LEMMA StrikesExpire ==
  ASSUME TypeInv, SettledInv, StrikeInv, [Next]_vars, NEW r \in Replica, LockExpires(r)
  PROVE  StrikeInv'
<1>1. PICK i \in 1..Len(batch[r]) :
        batch' = [batch EXCEPT ![r][i].locked = FALSE] /\ PutBack(batch[r][i])
  BY DEF LockExpires
<1>2. batch[r] \in Seq(Message) /\ batch[r][i] \in Message /\ batch[r] # <<>>
  BY <1>1, ElementOfSeq DEF TypeInv, TypeOK
<1>3. /\ UNCHANGED <<reasons, retryCount, orphaned, pc, todo, strike>>
      /\ Deliveries' = Deliveries + 1
      /\ \A s \in Replica : Cur(s)' = Cur(s)
  <2>1. \A s \in Replica : Cur(s)' = Cur(s)
    BY LockExpiryKeepsHead
  <2>2. UNCHANGED <<reasons, retryCount, orphaned, pc, todo, strike>>
    BY DEF LockExpires, rowVars, localVars
  <2>3. Deliveries' = Deliveries + 1
    BY DeliveriesRise DEF LockExpires
  <2> QED
    BY <2>1, <2>2, <2>3
<1>4. About(eventQueue, {Heartbeat})'
  BY <1>1, <1>2, MessagesPutBack DEF StrikeInv
<1>5. TypeInv'
  BY TypeStep
<1> DEFINE m == [batch[r][i] EXCEPT !.locked = FALSE]
           b == [batch[r] EXCEPT ![i] = m]
<1>6. m \in Message /\ m.about = batch[r][i].about
  BY <1>2 DEF Message
<1>7. batch'[r] = b /\ \A s \in Replica : s # r => batch'[s] = batch[s]
  BY <1>1 DEF TypeInv, TypeOK
<1> HIDE DEF m
<1>8. /\ b \in Seq(Message) /\ Len(b) = Len(batch[r])
      /\ \A j \in 1..Len(batch[r]) : b[j] = IF j = i THEN m ELSE batch[r][j]
  BY <1>2, <1>6, ExceptSeq
<1> HIDE DEF b
<1>9. /\ b # <<>> /\ Len(Tail(b)) = Len(Tail(batch[r]))
      /\ \A j \in 1..Len(Tail(b)) : Tail(b)[j].about = Tail(batch[r])[j].about
  <2>1. b # <<>>
    BY <1>2, <1>8
  <2>2. /\ Len(Tail(b)) = Len(b) - 1 /\ Len(Tail(batch[r])) = Len(batch[r]) - 1
        /\ Len(b) \in Nat
    BY <1>2, <1>8, <2>1
  <2>3. ASSUME NEW j \in 1..Len(Tail(b))
        PROVE  Tail(b)[j].about = Tail(batch[r])[j].about
    <3>1. j + 1 \in 1..Len(batch[r])
      BY <1>8, <2>2
    <3>2. Tail(b)[j] = b[j + 1] /\ Tail(batch[r])[j] = batch[r][j + 1]
      BY <1>2, <1>8, <2>1, <2>2
    <3> QED
      BY <1>6, <1>8, <3>1, <3>2
  <2> QED
    BY <1>8, <2>1, <2>2, <2>3
<1>10. ASSUME NEW t \in Task, ~DepsDone(t)', NEW s \in Replica
       PROVE  Strikes(s, t)' <= Deliveries'
  <2>1. Strikes(s, t) <= Deliveries
    BY <1>3, <1>10 DEF StrikeInv, DepsDone
  <2>2. Chances(Tail(batch'[s]), t) = Chances(Tail(batch[s]), t)
    <3>1. CASE s = r
      BY <1>7, <1>9, <3>1 DEF Chances
    <3>2. CASE s # r
      BY <1>7, <3>2
    <3> QED
      BY <3>1, <3>2
  <2>3. AtStake(s, t)' <=> AtStake(s, t)
    BY <1>3 DEF AtStake
  <2>4. Held(s, t)' = Held(s, t)
    BY <1>3, <2>2, <2>3 DEF Held
  <2>5. Chances(eventQueue', t) \in Nat /\ Chances(taskQueue', t) \in Nat
    <3>1. eventQueue' \in Seq(Message) /\ taskQueue' \in Seq(Message)
      BY <1>5 DEF TypeInv, TypeOK
    <3> QED
      BY <3>1, ChancesTyped
  <2>6. /\ Chances(eventQueue', t) + Chances(taskQueue', t)
             = Chances(eventQueue, t) + Chances(taskQueue, t) + Chance(batch[r][i].about, t)
        /\ Chance(batch[r][i].about, t) \in {0, 1}
    <3>1. Chance(batch[r][i].about, t) \in {0, 1}
      BY DEF Chance
    <3> QED
      BY <1>1, <1>2, <3>1, ChancesPutBack
  <2>7. Loose(t)' <= Loose(t) + 1 /\ Loose(t)' \in Nat
    BY SMTT(30), <1>3, <2>5, <2>6, StrikesTyped DEF Loose
  <2> QED
    BY SMTT(30), <1>3, <2>1, <2>4, <2>7, StrikesTyped, DeliveriesTyped DEF Strikes
<1> QED
  BY <1>3, <1>4, <1>10 DEF StrikeInv

\* Nobody touches a row while a message is given up.
LEMMA SettledFaults ==
  ASSUME TypeInv, SettledInv, Alternate',
         OrphanReturns \/ \E r \in Replica : Crash(r) \/ LockExpires(r)
  PROVE  SettledInv'
<1>1. UNCHANGED <<state, reasons>>
  BY DEF OrphanReturns, Crash, LockExpires, rowVars
<1>2. \A t \in Task : Settled(t)'
  BY <1>1 DEF SettledInv, Settled
<1>3. ASSUME NEW s \in Replica PROVE SettledRow(s)'
  <2>1. pc'[s] = "idle" \/ (pc'[s] = pc[s] /\ todo'[s] = todo[s] /\ Cur(s)' = Cur(s))
    <3>1. CASE OrphanReturns
      BY <3>1 DEF OrphanReturns, localVars, Cur
    <3>2. ASSUME NEW r \in Replica, Crash(r)
          PROVE  pc'[s] = "idle" \/ (pc'[s] = pc[s] /\ todo'[s] = todo[s] /\ Cur(s)' = Cur(s))
      BY <3>2 DEF Crash, Goto, TypeInv, TypeOK, Cur
    <3>3. ASSUME NEW r \in Replica, LockExpires(r)
          PROVE  pc'[s] = pc[s] /\ todo'[s] = todo[s] /\ Cur(s)' = Cur(s)
      BY <3>3, LockExpiryKeepsHead DEF LockExpires, localVars
    <3> QED
      BY <3>1, <3>2, <3>3
  <2>2. SettledRow(s)
    BY DEF SettledInv
  <2> QED
    BY <1>1, <2>1, <2>2 DEF SettledRow, LiveSteps
<1> QED
  BY <1>2, <1>3 DEF SettledInv

\* No fault happens more often than the bound allows.
FaultsBounded == \A k \in FaultKinds : faults[k] <= MaxFaults[k]

LEMMA FaultBound ==
  ASSUME TypeInv, FaultsBounded, NEW kind \in FaultKinds, Fault(kind)
  PROVE  FaultsBounded'
<1>1. /\ faults \in [FaultKinds -> Nat] /\ MaxFaults \in [FaultKinds -> Nat]
      /\ faults[kind] < MaxFaults[kind]
      /\ faults' = [faults EXCEPT ![kind] = faults[kind] + 1]
  BY DispatchAssumption DEF TypeInv, TypeOK, Fault
<1>2. ASSUME NEW k \in FaultKinds PROVE faults'[k] <= MaxFaults[k]
  <2>1. faults[k] \in Nat /\ MaxFaults[k] \in Nat /\ faults[k] <= MaxFaults[k]
    BY <1>1 DEF FaultsBounded
  <2>2. faults'[k] = IF k = kind THEN faults[k] + 1 ELSE faults[k]
    BY <1>1
  <2> QED
    BY <1>1, <2>1, <2>2
<1> QED
  BY <1>2 DEF FaultsBounded

LEMMA FaultsStep ==
  ASSUME TypeInv, FaultsBounded, [Next]_vars
  PROVE  FaultsBounded'
<1>1. CASE UNCHANGED faults
  BY <1>1 DEF FaultsBounded
<1>2. ASSUME NEW r \in Replica, Step(r) PROVE UNCHANGED faults
  BY <1>2
  DEF Step, HandleHeartbeat, DispatchTask, HandleFailure, ReceiveEvents, ReceiveTasks,
      CompleteMessage, InsertTaskBatch, PublishTask, HeartbeatHandled, GateCleared,
      DuplicateDropped, NotDispatchable, FindBlockedDependency, StartTask,
      HandlerCompletes, HandlerBlocks, HandlerRaises, SelectPendingDependents,
      CountCompletedDeps, AdvanceDependent, RequeueNotReady, GiveUpNotReady,
      FailureIgnored, FailureAccepted, IncrementRetry, ScheduleRetry, DeadLetter,
      CascadeIgnored, CascadeAccepted, CascadeDeadLetter, EmitAlert
<1>3. ASSUME NEW r \in Replica, Faulty(r) PROVE FaultsBounded'
  BY <1>3, FaultBound DEF Faulty, StepRaises, Crash, LockExpires, FaultKinds
<1>4. OrphanReturns \/ UNCHANGED vars => UNCHANGED faults
  BY DEF OrphanReturns, vars
<1> QED
  BY <1>1, <1>2, <1>3, <1>4 DEF Next, Quiet

\* The inductive invariant of the replicas that take turns.
SerialInv ==
  /\ TypeInv /\ GateInv /\ CascadeInv /\ WakeInv /\ SettledInv /\ StrikeInv
  /\ FaultsBounded

LEMMA SerialInit == Init => SerialInv
<1>1. Init => FaultsBounded
  BY DispatchAssumption DEF Init, FaultsBounded
<1> QED
  BY <1>1, TypeInit, GateInit, CascadeInit, WakeInit, SettledInit, StrikeInit DEF SerialInv

LEMMA SerialStep ==
  ASSUME GateReadsSucceed
  PROVE  SerialInv /\ [Next /\ Alternate']_vars => SerialInv'
<1> SUFFICES ASSUME SerialInv, [Next /\ Alternate']_vars PROVE SerialInv'
  OBVIOUS
<1>0. /\ TypeInv /\ GateInv /\ CascadeInv /\ WakeInv /\ SettledInv /\ StrikeInv
      /\ FaultsBounded
  BY DEF SerialInv
<1>1. [Next]_vars
  OBVIOUS
<1>2. TypeInv' /\ GateInv' /\ CascadeInv' /\ WakeInv' /\ FaultsBounded'
  BY <1>0, <1>1, TypeStep, GateStep, CascadeStep, WakeStep, FaultsStep
<1>3. CASE UNCHANGED vars
  <2>1. SettledInv'
    BY <1>0, <1>3
    DEF SettledInv, Alternate, Settled, SettledRow, Cur, vars, rowVars, busVars, localVars
  <2>2. StrikeInv'
    <3>1. /\ UNCHANGED <<reasons, retryCount, eventQueue, taskQueue, batch, orphaned>>
          /\ UNCHANGED <<pc, todo, strike, faults>>
      BY <1>3 DEF vars, rowVars, busVars, localVars
    <3>2. ASSUME NEW t \in Task, NEW r \in Replica PROVE Strikes(r, t)' = Strikes(r, t)
      <4>1. AtStake(r, t)' <=> AtStake(r, t)
        BY <3>1 DEF AtStake, Cur
      <4>2. Held(r, t)' = Held(r, t) /\ Loose(t)' = Loose(t)
        BY <3>1, <4>1 DEF Held, Loose
      <4> QED
        BY <3>1, <4>2 DEF Strikes
    <3>3. Deliveries' = Deliveries
      BY <3>1 DEF Deliveries
    <3> QED
      BY <1>0, <3>1, <3>2, <3>3 DEF StrikeInv, About, DepsDone, Cur
  <2> QED
    BY <1>2, <2>1, <2>2 DEF SerialInv
<1>4. ASSUME NEW r \in Replica, Step(r) \/ StepRaises(r), Alternate'
      PROVE  SerialInv'
  <2>1. SettledInv'
    BY <1>0, <1>4, SettledStep
  <2>2. StrikeInv'
    BY <1>0, <1>1, <1>4, StrikeStep
  <2> QED
    BY <1>2, <2>1, <2>2 DEF SerialInv
<1>5. ASSUME Alternate', OrphanReturns \/ \E r \in Replica : Crash(r) \/ LockExpires(r)
      PROVE  SerialInv'
  <2>1. SettledInv'
    BY <1>0, <1>5, SettledFaults
  <2>2. StrikeInv'
    BY <1>0, <1>1, <1>5, StrikesCrash, StrikesReturn, StrikesExpire
  <2> QED
    BY <1>2, <2>1, <2>2 DEF SerialInv
<1> QED
  BY <1>3, <1>4, <1>5 DEF Next, Quiet, Faulty

\* state_machine.record_failure: for any number of heartbeats, of crashes, expired
\* locks and exceptions, and of replicas that take turns, a task whose dependencies
\* are not done has lost at most one strike per heartbeat and per fault that had a
\* message delivered again.
THEOREM StrikesAreFounded ==
  ASSUME GateReadsSucceed
  PROVE  TurnSpec => []StrikesFounded
<1>1. SerialInv => StrikesFounded
  <2> SUFFICES ASSUME SerialInv, NEW t \in Task, ~DepsDone(t)
               PROVE  retryCount[t] <= Deliveries
    BY DEF StrikesFounded, DepsDone, Deliveries
  <2>1. PICK r \in Replica : Strikes(r, t) <= Deliveries
    BY DispatchAssumption DEF SerialInv, StrikeInv
  <2> QED
    BY <2>1, StrikesTyped, DeliveriesTyped DEF SerialInv, Strikes
<1>2. SerialInv /\ [Next /\ Alternate']_vars => SerialInv'
  BY SerialStep
<1> QED
  BY <1>1, <1>2, SerialInit, PTL DEF TurnSpec

-----------------------------------------------------------------------------
(* The steps of LoopRun *)

\* A step of LoopRun, or none.
PromiseStep == [Promise!Admit \/ Promise!Settle]_([t \in Task |-> Status(t)])

LEMMA StatusOfRow ==
  ASSUME NEW t \in Task
  PROVE  /\ state[t] = "absent" => Status(t) = "none"
         /\ state[t] = "completed" => Status(t) = "done"
         /\ state[t] \in PermanentlyBlocked => Status(t) = "blocked"
BY DEF Status, PermanentlyBlocked

LEMMA StateStutters == ASSUME UNCHANGED state PROVE PromiseStep
<1>1. \A t \in Task : Status(t)' = Status(t)
  BY DEF Status
<1> QED
  BY <1>1 DEF PromiseStep

LEMMA LiveIsOpen ==
  ASSUME NEW t \in Task, state[t] \in LiveStates
  PROVE  Status(t) = "open"
BY DEF Status, LiveStates, PermanentlyBlocked

\* A row that has no outcome is moved to one, or to another state without.
LEMMA OneTaskMoves ==
  ASSUME TypeInv, NEW t \in Task, state[t] \in LiveStates, NEW to, NEW why,
         Transition(t, to, why),
         \/ to \in LiveStates
         \/ to = "completed" /\ \A d \in Deps[t] : Status(d) = "done"
         \/ /\ to \in PermanentlyBlocked
            /\ \/ \A d \in Deps[t] : Status(d) = "done"
               \/ \E d \in Deps[t] : Status(d) = "blocked"
  PROVE  PromiseStep
<1> DEFINE now == [u \in Task |-> Status(u)]
           next(s) == [now EXCEPT ![t] = s]
<1>0. Deps[t] \subseteq Task
  BY DispatchAssumption
<1>1. state'[t] = to /\ \A u \in Task : u # t => state'[u] = state[u]
  BY DEF Transition, TypeInv, TypeOK
<1>2. \A u \in Task : u # t => Status(u)' = Status(u)
  BY <1>1 DEF Status
<1>3. Status(t) = "open"
  BY LiveIsOpen
<1>4. CASE to \in LiveStates
  <2>1. Status(t)' = "open"
    BY <1>1, <1>4 DEF Status, LiveStates, PermanentlyBlocked
  <2>2. \A u \in Task : Status(u)' = Status(u)
    BY <1>2, <1>3, <2>1
  <2> QED
    BY <2>2 DEF PromiseStep
<1>5. CASE to = "completed" /\ \A d \in Deps[t] : Status(d) = "done"
  <2>1. Status(t)' = "done"
    <3>1. state'[t] = "completed"
      BY <1>1, <1>5
    <3> QED
      BY <3>1 DEF Status, PermanentlyBlocked
  <2>2. [u \in Task |-> Status(u)]' = [[u \in Task |-> Status(u)] EXCEPT ![t] = "done"]
    BY <1>2, <2>1
  <2>3. Promise!Finish(t)
    BY <1>0, <1>3, <1>5, <2>2 DEF Promise!Finish
  <2> QED
    BY <2>3 DEF PromiseStep, Promise!Settle
<1>6. CASE /\ to \in PermanentlyBlocked
           /\ \/ \A d \in Deps[t] : Status(d) = "done"
              \/ \E d \in Deps[t] : Status(d) = "blocked"
  <2>1. Status(t)' = "blocked"
    BY <1>1, <1>6 DEF Status, PermanentlyBlocked
  <2>2. [u \in Task |-> Status(u)]' = [[u \in Task |-> Status(u)] EXCEPT ![t] = "blocked"]
    BY <1>2, <2>1
  <2>3. Promise!Block(t)
    BY <1>0, <1>3, <1>6, <2>2 DEF Promise!Block
  <2> QED
    BY <2>3 DEF PromiseStep, Promise!Settle
<1> QED
  BY <1>4, <1>5, <1>6

\* Every heartbeat, and every message delivered again, can cost a task one strike
\* before its turn comes.
FewDeliveries == Heartbeats + MaxFaults["crash"] + MaxFaults["lock"] < DeadLetterStrike

LEMMA PromisedStep ==
  ASSUME FewDeliveries, SerialInv, NEW r \in Replica, Step(r) \/ StepRaises(r)
  PROVE  PromiseStep
<1>0. /\ TypeInv /\ GateReplica(r) /\ CascadeReplica(r) /\ SettledRow(r) /\ StrikeInv
      /\ \A t \in Task : Settled(t)
      /\ \A t \in Task : Deps[t] \subseteq Task
      /\ retryCount \in [Task -> Nat] /\ strike \in [Replica -> Nat]
  BY DispatchAssumption DEF SerialInv, TypeInv, TypeOK, GateInv, CascadeInv, SettledInv
<1>1. pc[r] \in TaskSteps => Cur(r) \in Task
  BY <1>0 DEF TypeInv
<1>2. \A t \in Task : DepsDone(t) => \A d \in Deps[t] : Status(d) = "done"
  <2> SUFFICES ASSUME NEW t \in Task, DepsDone(t), NEW d \in Deps[t] PROVE Status(d) = "done"
    OBVIOUS
  <2>1. d \in Task /\ state[d] = "completed"
    BY <1>0 DEF DepsDone, Settled
  <2> QED
    BY <2>1, StatusOfRow
<1>3. \A t \in Task : BlockedDep(t) => \E d \in Deps[t] : Status(d) = "blocked"
  BY <1>0 DEF BlockedDep, Settled, Status, PermanentlyBlocked
<1>4. CASE InsertTaskBatch(r)
  <2>1. CASE NothingYet
    <3>1. \A t \in Task : state[t] = "absent" /\ state'[t] \in {"dispatchable", "pending"}
      BY <1>4, <2>1 DEF NothingYet, InsertTaskBatch
    <3>2. \A t \in Task : Status(t) = "none" /\ Status(t)' = "open"
      BY <3>1 DEF Status, PermanentlyBlocked
    <3>3. Promise!Admit
      BY <3>2 DEF Promise!Admit
    <3> QED
      BY <3>3 DEF PromiseStep
  <2>2. CASE Started
    <3>1. \A t \in Task : state'[t] = state[t]
      BY <1>4, <2>2 DEF Started, InsertTaskBatch
    <3>2. \A t \in Task : Status(t)' = Status(t)
      BY <3>1 DEF Status
    <3> QED
      BY <3>2 DEF PromiseStep
  <2> QED
    BY <2>1, <2>2 DEF SerialInv, WakeInv
<1>5. CASE HandlerCompletes(r) \/ HandlerBlocks(r)
  <2>1. /\ pc[r] = "handler"
        /\ \/ Transition(Cur(r), "completed", "completed")
           \/ Transition(Cur(r), "failed", "qa_blocked")
    BY <1>5 DEF HandlerCompletes, HandlerBlocks
  <2>2. Cur(r) \in Task /\ state[Cur(r)] \in LiveStates /\ DepsDone(Cur(r))
    BY <1>0, <1>1, <2>1 DEF SettledRow, LiveSteps, GateReplica, TaskSteps, DispatchSteps
  <2> QED
    BY <1>0, <1>2, <2>1, <2>2, OneTaskMoves DEF PermanentlyBlocked
<1>6. CASE StartTask(r) \/ ScheduleRetry(r)
  <2>1. /\ pc[r] \in {"start", "rf_move"}
        /\ \E to \in {"running", "retry_pending"}, why \in Reasons : Transition(Cur(r), to, why)
    BY <1>6 DEF StartTask, ScheduleRetry, Reasons
  <2>2. Cur(r) \in Task /\ state[Cur(r)] \in LiveStates
    BY <1>0, <1>1, <2>1 DEF SettledRow, LiveSteps, TaskSteps, DispatchSteps, FailureSteps
  <2> QED
    BY <1>0, <2>1, <2>2, OneTaskMoves DEF LiveStates
<1>7. CASE DeadLetter(r)
  <2>1. /\ pc[r] = "rf_move" /\ strike[r] >= 3
        /\ Transition(Cur(r), "dead_lettered", "dead_lettered")
    BY <1>7 DEF DeadLetter, DeadLetterStrike
  <2>2. Cur(r) \in Task /\ state[Cur(r)] \in LiveStates
    BY <1>0, <1>1, <2>1 DEF SettledRow, LiveSteps, TaskSteps, FailureSteps
  <2>3. DepsDone(Cur(r))
    <3>1. Deliveries < 3
      BY SMTT(30), DispatchAssumption
      DEF SerialInv, FaultsBounded, TypeInv, TypeOK, FaultKinds, Deliveries, FewDeliveries,
          DeadLetterStrike
    <3>2. retryCount[Cur(r)] >= 3
      BY <1>0, <2>1 DEF StrikeInv
    <3>3. ~(Strikes(r, Cur(r)) <= Deliveries)
      BY <1>0, <2>2, <3>1, <3>2, StrikesTyped, DeliveriesTyped DEF Strikes
    <3> QED
      BY <1>0, <2>2, <3>3 DEF StrikeInv
  <2> QED
    BY <1>0, <1>2, <2>1, <2>2, <2>3, OneTaskMoves DEF PermanentlyBlocked
<1>8. CASE CascadeDeadLetter(r)
  <2>1. /\ pc[r] = "cas_move"
        /\ Transition(Cur(r), "dead_lettered", "dependency_dead_lettered")
    BY <1>8 DEF CascadeDeadLetter
  <2>2. Cur(r) \in Task /\ state[Cur(r)] \in LiveStates /\ BlockedDep(Cur(r))
    BY <1>0, <1>1, <2>1
    DEF SettledRow, LiveSteps, TaskSteps, FailureSteps, CascadeReplica
  <2> QED
    BY <1>0, <1>3, <2>1, <2>2, OneTaskMoves DEF PermanentlyBlocked
<1>9. CASE AdvanceDependent(r)
  <2>1. PICK t \in todo[r] : Transition(t, "dispatchable", "dependency_satisfied")
    BY <1>9 DEF AdvanceDependent
  <2>2. t \in Task /\ state[t] = "pending"
    BY <1>0, <1>9 DEF AdvanceDependent, SettledRow, TypeInv, TypeOK
  <2> QED
    BY <1>0, <2>1, <2>2, OneTaskMoves DEF LiveStates
<1>10. CASE ~(InsertTaskBatch(r) \/ HandlerCompletes(r) \/ HandlerBlocks(r) \/ StartTask(r)
               \/ ScheduleRetry(r) \/ DeadLetter(r) \/ CascadeDeadLetter(r)
               \/ AdvanceDependent(r))
  <2>1. UNCHANGED state
    BY <1>10
    DEF Step, StepRaises, HandleHeartbeat, DispatchTask, HandleFailure, ReceiveEvents,
        ReceiveTasks, CompleteMessage, PublishTask, HeartbeatHandled, GateCleared,
        DuplicateDropped, NotDispatchable, FindBlockedDependency, HandlerRaises,
        SelectPendingDependents, CountCompletedDeps, RequeueNotReady, GiveUpNotReady,
        FailureIgnored, FailureAccepted, IncrementRetry, CascadeIgnored, CascadeAccepted,
        EmitAlert, rowVars
  <2> QED
    BY <2>1, StateStutters
<1> QED
  BY <1>4, <1>5, <1>6, <1>7, <1>8, <1>9, <1>10

\* The dispatcher implements the loop run it promises, step for step: for any loop
\* and any number of replicas that take turns, with handlers and calls that raise
\* at will, and heartbeats and redeliveries that together are too few to kill a
\* task, a task completes only after all it depends on, fails or dies only when it
\* had its turn or never can have it, and no outcome is ever revised.
THEOREM KeepsPromiseInTurn ==
  ASSUME FewDeliveries, GateReadsSucceed
  PROVE  TurnSpec => OutcomesStand
<1>1. Init => Promise!Init
  <2> SUFFICES ASSUME Init PROVE Promise!Init
    OBVIOUS
  <2>1. \A t \in Task : Status(t) = "none"
    BY StatusOfRow DEF Init, Start
  <2> QED
    BY <2>1 DEF Promise!Init
<1>2. SerialInv /\ [Next /\ Alternate']_vars
        => [Promise!Admit \/ Promise!Settle]_([t \in Task |-> Status(t)])
  <2> SUFFICES ASSUME SerialInv, [Next /\ Alternate']_vars PROVE PromiseStep
    BY DEF PromiseStep
  <2>1. CASE \E r \in Replica : Step(r) \/ StepRaises(r)
    BY <2>1, PromisedStep
  <2>2. CASE ~ \E r \in Replica : Step(r) \/ StepRaises(r)
    <3>1. UNCHANGED state
      BY <2>2
      DEF Next, Quiet, Faulty, Crash, LockExpires, OrphanReturns, vars, rowVars
    <3> QED
      BY <3>1, StateStutters
  <2> QED
    BY <2>1, <2>2
<1>3. SerialInv /\ [Next /\ Alternate']_vars => SerialInv'
  BY SerialStep
<1> QED
  BY <1>1, <1>2, <1>3, SerialInit, PTL DEF TurnSpec, OutcomesStand, Promise!Spec
=============================================================================
