------------------------ MODULE ModelGateway_proofs ------------------------
(***************************************************************************)
(* Theorems about ModelGateway for any set of requests, replicas and task  *)
(* references, any pool and backend sizes and any budget: the locks keep   *)
(* the requests of one reference apart, its answer is given once, and the  *)
(* budget is overshot by at most the calls in flight.                      *)
(***************************************************************************)
EXTENDS ModelGateway, FiniteSetTheorems, TLAPS

Owning == {"budget", "call", "meter", "store", "unlock", "release"}
Held == Owning \cup {"lock", "return"}

\* What conn, owns and ref say about where a request is.
WhereRow(r) ==
  /\ req[r].conn # "none" => req[r].ref \in Ref
  /\ req[r].pc \in {"idle", "connect"} => req[r].conn = "none"
  /\ req[r].pc \in {"connect", "lock", "store", "unlock", "release", "return"} =>
       req[r].ref \in Ref
  /\ req[r].conn = "live" /\ req[r].pc \in Owning => req[r].owns
  /\ req[r].conn # "live" => req[r].carried = {} /\ ~req[r].owns

\* What is stored while a request is in its window and after it.
AnswerRow(r) ==
  /\ req[r].conn = "live" /\ req[r].pc \in Computing => stored[req[r].ref] = 0
  /\ req[r].pc = "unlock" =>
       stored[req[r].ref] = req[r].call /\ stored[req[r].ref] # 0
  /\ req[r].outcome = "answered" /\ req[r].ref \in Ref =>
       stored[req[r].ref] = req[r].call /\ stored[req[r].ref] # 0
  /\ req[r].pc \notin {"idle", "return"} => req[r].outcome # "answered"
  /\ req[r].pc \in {"meter", "store"} => req[r].call # 0

RowInv == \A r \in Request : WhereRow(r) /\ AnswerRow(r)

\* No two sessions hold the lock of one reference.
IdleFree(x) == \A p \in Replica : \A c \in idle[p] : x \notin c

LockInv ==
  /\ \A r, q \in Request : \A x \in Ref : Holds(r, x) /\ Holds(q, x) => r = q
  /\ \A r \in Request : \A x \in Ref : Holds(r, x) => IdleFree(x)
  /\ \A p, q \in Replica : \A c \in idle[p] : \A d \in idle[q] : \A x \in Ref :
       x \in c /\ x \in d => p = q

GatewayInv == GatewayTypeOK /\ RowInv /\ LockInv

LEMMA Names ==
  /\ {"idle", "connect", "lock", "budget", "call", "meter", "store", "unlock",
      "release", "return"} \subseteq Steps
  /\ {"none", "answered", "refused", "queued", "failed"} \subseteq Outcomes
  /\ {"none", "live", "lost"} \subseteq Conns
  /\ {} \in LockSets
BY DEF Steps, Outcomes, Conns, LockSets

LEMMA Constants ==
  /\ NoRef \notin Ref
  /\ \A r \in Request : At[r] \in Replica
  /\ Limit \in Nat /\ Soft \in Nat /\ Dear \in Nat /\ Cheap \in Nat
  /\ Cheap <= Dear /\ Limit > 0
BY GatewayAssumption DEF GatewayAssumption

\* What the type invariant says of the row of one request.
LEMMA RowTyped ==
  ASSUME GatewayInv, NEW r \in Request
  PROVE  /\ req[r].ref \in Ref \cup {NoRef} /\ req[r].pc \in Steps
         /\ req[r].conn \in {"none", "live", "lost"} /\ req[r].carried \in LockSets
BY DEF GatewayInv, GatewayTypeOK, Row, Conns

LEMMA MishapCounted ==
  ASSUME mishaps \in Nat, NEW kind, Mishap(kind)
  PROVE  mishaps' \in Nat
BY DEF Mishap

-----------------------------------------------------------------------------
(* One request moves *)

\* A step gives one request a new row and leaves the others alone.
Moves(r, pc, ref, conn, owns, carried, call, outcome) ==
  /\ req' \in [Request -> Row]
  /\ req'[r].pc = pc /\ req'[r].ref = ref /\ req'[r].conn = conn
  /\ req'[r].owns = owns /\ req'[r].carried = carried
  /\ req'[r].call = call /\ req'[r].outcome = outcome
  /\ \A q \in Request : q # r => req'[q] = req[q]

\* The same but for pc and outcome.
MovesTo(r, pc, outcome) ==
  Moves(r, pc, req[r].ref, req[r].conn, req[r].owns, req[r].carried, req[r].call, outcome)

\* The pools after a query of the request, or untouched.
CleanIdle ==
  /\ idle' \in [Replica -> SUBSET LockSets]
  /\ \A p \in Replica : \A c, d \in idle'[p] : c = d
  /\ \A p \in Replica : \A c \in idle'[p] : c \in idle[p] \/ c = {}

LEMMA QueryIsClean ==
  ASSUME GatewayTypeOK, NEW p \in Replica,
         idle' = IdleAfterQuery(p) \/ idle' = idle
  PROVE  CleanIdle
<1>1. CASE idle[p] = {} /\ idle' = [idle EXCEPT ![p] = {{}}]
  <2>1. \A q \in Replica : idle'[q] = IF q = p THEN {{}} ELSE idle[q]
    BY <1>1 DEF GatewayTypeOK
  <2>2. idle' \in [Replica -> SUBSET LockSets]
    BY <1>1, Names DEF GatewayTypeOK
  <2> QED BY <2>1, <2>2 DEF CleanIdle, GatewayTypeOK
<1>2. CASE idle' = idle
  BY <1>2 DEF CleanIdle, GatewayTypeOK
<1> QED BY <1>1, <1>2 DEF IdleAfterQuery

\* A request that takes no lock another session has, and pools that gain at
\* most clean connections, keep the locks apart.
LEMMA LocksKept ==
  ASSUME GatewayInv, NEW r \in Request,
         \A q \in Request : q # r => req'[q] = req[q],
         \A x \in Ref : Holds(r, x)' => Holds(r, x) \/ LockFree(r, x),
         CleanIdle
  PROVE  LockInv'
<1>1. \A q \in Request : \A x \in Ref : q # r => (Holds(q, x)' <=> Holds(q, x))
  BY DEF Holds
<1>2. \A x \in Ref : IdleFree(x) => IdleFree(x)'
  BY DEF IdleFree, CleanIdle
<1>3. \A x \in Ref : Holds(r, x)' =>
        IdleFree(x) /\ \A q \in Request \ {r} : ~Holds(q, x)
  BY DEF GatewayInv, LockInv, LockFree, IdleFree
<1>4. \A p \in Replica : \A c \in idle'[p] : \A x \in c : c \in idle[p]
  BY DEF CleanIdle
<1>5. \A p, q \in Replica : \A c \in idle'[p] : \A d \in idle'[q] : \A x \in Ref :
        x \in c /\ x \in d => p = q
  BY <1>4 DEF GatewayInv, LockInv
<1> QED BY <1>1, <1>2, <1>3, <1>5 DEF GatewayInv, LockInv

\* The rows of the others keep their invariant while stored does.
LEMMA RowsKept ==
  ASSUME GatewayInv, NEW r \in Request,
         \A q \in Request : q # r => req'[q] = req[q],
         stored' = stored, WhereRow(r)', AnswerRow(r)'
  PROVE  RowInv'
BY DEF GatewayInv, RowInv, WhereRow, AnswerRow

\* The counters and types beside the requests.
Counted ==
  /\ stored' \in [Ref -> Nat]
  /\ spend' \in Nat /\ paid' \in Nat /\ queued' \in Nat
  /\ arrivals' \in Nat /\ mishaps' \in Nat

\* A step of one request that stores nothing.
LEMMA StepKeeps ==
  ASSUME GatewayInv, NEW r \in Request,
         req' \in [Request -> Row],
         \A q \in Request : q # r => req'[q] = req[q],
         WhereRow(r)', AnswerRow(r)', stored' = stored,
         \A x \in Ref : Holds(r, x)' => Holds(r, x) \/ LockFree(r, x),
         CleanIdle, Counted
  PROVE  GatewayInv'
<1>1. GatewayTypeOK'
  BY DEF CleanIdle, Counted, GatewayTypeOK
<1>2. RowInv'
  BY RowsKept
<1>3. LockInv'
  BY LocksKept
<1> QED BY <1>1, <1>2, <1>3 DEF GatewayInv

LEMMA GatewayInvInit == GatewayInit => GatewayInv
<1> SUFFICES ASSUME GatewayInit PROVE GatewayInv
  OBVIOUS
<1>1. \A r \in Request : /\ req[r].pc = "idle" /\ req[r].ref = NoRef
                         /\ req[r].conn = "none" /\ req[r].outcome = "none"
                         /\ req[r].carried = {} /\ ~req[r].owns
  BY DEF GatewayInit, Fresh
<1>2. GatewayTypeOK
  BY Names DEF GatewayInit, Fresh, GatewayTypeOK, Row
<1>3. RowInv
  BY <1>1, Constants DEF RowInv, WhereRow, AnswerRow, Computing, Owning
<1>4. LockInv
  BY <1>1 DEF LockInv, Holds, GatewayInit, IdleFree
<1> QED BY <1>2, <1>3, <1>4 DEF GatewayInv

-----------------------------------------------------------------------------
(* The steps of a request *)

LEMMA ConnectFailsKeeps ==
  ASSUME GatewayInv, NEW r \in Request, ConnectFails(r)
  PROVE  GatewayInv'
<1>1. MovesTo(r, "idle", "failed")
  BY ZenonT(40), Names DEF GatewayInv, GatewayTypeOK, Row, Moves, MovesTo, ConnectFails
<1>2. WhereRow(r)' /\ AnswerRow(r)'
  BY <1>1, RowTyped, Constants DEF ConnectFails, GatewayInv, RowInv, WhereRow, AnswerRow,
     Moves, MovesTo, Owning, Computing
<1>3. \A x \in Ref : Holds(r, x)' => Holds(r, x)
  BY <1>1 DEF Holds, Moves, MovesTo
<1>4. CleanIdle
  BY QueryIsClean, Constants DEF GatewayInv, ConnectFails
<1>5. Counted
  BY Constants DEF GatewayInv, GatewayTypeOK, Counted, ConnectFails
<1> QED BY <1>1, <1>2, <1>3, <1>4, <1>5, StepKeeps DEF Moves, MovesTo, ConnectFails

LEMMA FindSessionLostKeeps ==
  ASSUME GatewayInv, NEW r \in Request, FindSessionLost(r)
  PROVE  GatewayInv'
<1>1. MovesTo(r, "return", "failed")
  BY Names DEF GatewayInv, GatewayTypeOK, Row, Moves, MovesTo, FindSessionLost
<1>2. WhereRow(r)' /\ AnswerRow(r)'
  BY <1>1, RowTyped, Constants DEF FindSessionLost, GatewayInv, RowInv, WhereRow, AnswerRow,
     Moves, MovesTo, Owning, Computing
<1>3. \A x \in Ref : Holds(r, x)' => Holds(r, x)
  BY <1>1 DEF Holds, Moves, MovesTo
<1>4. CleanIdle
  BY QueryIsClean, Constants DEF GatewayInv, FindSessionLost
<1>5. Counted
  BY Constants DEF GatewayInv, GatewayTypeOK, Counted, FindSessionLost
<1> QED BY <1>1, <1>2, <1>3, <1>4, <1>5, StepKeeps DEF Moves, MovesTo, FindSessionLost

LEMMA BudgetFailsKeeps ==
  ASSUME GatewayInv, NEW r \in Request, BudgetFails(r)
  PROVE  GatewayInv'
<1>1. MovesTo(r, IF req[r].ref = NoRef THEN "idle" ELSE "release", "failed")
  BY Names DEF GatewayInv, GatewayTypeOK, Row, Moves, MovesTo, BudgetFails, NoBudget, Leave
<1>2. WhereRow(r)' /\ AnswerRow(r)'
  BY <1>1, RowTyped, Constants DEF BudgetFails, NoBudget, Leave, GatewayInv, RowInv, WhereRow, AnswerRow,
     Moves, MovesTo, Owning, Computing
<1>3. \A x \in Ref : Holds(r, x)' => Holds(r, x)
  BY <1>1 DEF Holds, Moves, MovesTo
<1>4. CleanIdle
  BY QueryIsClean, Constants DEF GatewayInv, BudgetFails, NoBudget, Leave
<1>5. Counted
  BY Constants DEF GatewayInv, GatewayTypeOK, Counted, BudgetFails, NoBudget, Leave
<1> QED BY <1>1, <1>2, <1>3, <1>4, <1>5, StepKeeps DEF Moves, MovesTo, BudgetFails, NoBudget, Leave

LEMMA QueryFailsKeeps ==
  ASSUME GatewayInv, NEW r \in Request, QueryFails(r)
  PROVE  GatewayInv'
<1>1. MovesTo(r, IF req[r].ref = NoRef THEN "idle" ELSE "release", "failed")
  BY Names DEF GatewayInv, GatewayTypeOK, Row, Moves, MovesTo, QueryFails, NoBudget, Leave
<1>2. WhereRow(r)' /\ AnswerRow(r)'
  BY <1>1, RowTyped, Constants DEF QueryFails, NoBudget, Leave, GatewayInv, RowInv, WhereRow, AnswerRow,
     Moves, MovesTo, Owning, Computing
<1>3. \A x \in Ref : Holds(r, x)' => Holds(r, x)
  BY <1>1 DEF Holds, Moves, MovesTo
<1>4. CleanIdle
  BY QueryIsClean, Constants DEF GatewayInv, QueryFails, NoBudget, Leave
<1>5. Counted
  BY MishapCounted DEF GatewayInv, GatewayTypeOK, Counted, QueryFails, NoBudget, Leave
<1> QED BY <1>1, <1>2, <1>3, <1>4, <1>5, StepKeeps DEF Moves, MovesTo, QueryFails, NoBudget, Leave

LEMMA CallFailsKeeps ==
  ASSUME GatewayInv, NEW r \in Request, CallFails(r)
  PROVE  GatewayInv'
<1>1. MovesTo(r, IF req[r].ref = NoRef THEN "idle" ELSE "release", "failed")
  BY Names DEF GatewayInv, GatewayTypeOK, Row, Moves, MovesTo, CallFails, Leave
<1>2. WhereRow(r)' /\ AnswerRow(r)'
  BY <1>1, RowTyped, Constants DEF CallFails, Leave, GatewayInv, RowInv, WhereRow, AnswerRow,
     Moves, MovesTo, Owning, Computing
<1>3. \A x \in Ref : Holds(r, x)' => Holds(r, x)
  BY <1>1 DEF Holds, Moves, MovesTo
<1>4. CleanIdle
  BY QueryIsClean, Constants DEF GatewayInv, CallFails, Leave
<1>5. Counted
  BY MishapCounted DEF GatewayInv, GatewayTypeOK, Counted, CallFails, Leave
<1> QED BY <1>1, <1>2, <1>3, <1>4, <1>5, StepKeeps DEF Moves, MovesTo, CallFails, Leave

LEMMA StoreFailsKeeps ==
  ASSUME GatewayInv, NEW r \in Request, StoreFails(r)
  PROVE  GatewayInv'
<1>1. MovesTo(r, "return", "failed")
  BY ZenonT(40), Names DEF GatewayInv, GatewayTypeOK, Row, Moves, MovesTo, StoreFails
<1>2. WhereRow(r)' /\ AnswerRow(r)'
  BY <1>1, RowTyped, Constants DEF StoreFails, GatewayInv, RowInv, WhereRow, AnswerRow,
     Moves, MovesTo, Owning, Computing
<1>3. \A x \in Ref : Holds(r, x)' => Holds(r, x)
  BY <1>1 DEF Holds, Moves, MovesTo
<1>4. CleanIdle
  BY QueryIsClean, Constants DEF GatewayInv, StoreFails
<1>5. Counted
  BY MishapCounted DEF GatewayInv, GatewayTypeOK, Counted, StoreFails
<1> QED BY <1>1, <1>2, <1>3, <1>4, <1>5, StepKeeps DEF Moves, MovesTo, StoreFails

LEMMA ArriveKeeps ==
  ASSUME GatewayInv, NEW r \in Request, Arrive(r)
  PROVE  GatewayInv'
<1>1. PICK x \in Ref \cup {NoRef}, pc \in {"idle", "budget", "connect"},
           outcome \in {"none", "refused"} :
        /\ req' = [req EXCEPT ![r] = Fresh(x, pc, outcome)]
        /\ pc = "connect" => x \in Ref
  BY Constants DEF Arrive, TurnAway, Redact, Admit
<1>2. Fresh(x, pc, outcome) \in Row
  BY <1>1, Names DEF Fresh, Row
<1>3. Moves(r, pc, x, "none", FALSE, {}, 0, outcome)
  BY <1>1, <1>2 DEF GatewayInv, GatewayTypeOK, Moves, Fresh
<1>4. WhereRow(r)' /\ AnswerRow(r)'
  BY <1>1, <1>3 DEF WhereRow, AnswerRow, Moves, Owning, Computing
<1>5. \A y \in Ref : ~Holds(r, y)'
  BY <1>3 DEF Holds, Moves
<1>6. CleanIdle
  BY QueryIsClean, Constants DEF GatewayInv, Arrive, TurnAway, Redact, Admit
<1>7. Counted /\ stored' = stored
  BY DEF GatewayInv, GatewayTypeOK, Counted, Arrive, TurnAway, Redact, Admit
<1> QED BY <1>3, <1>4, <1>5, <1>6, <1>7, StepKeeps DEF Moves

LEMMA ConnectKeeps ==
  ASSUME GatewayInv, NEW r \in Request, Connect(r)
  PROVE  GatewayInv'
<1> DEFINE locks == Inherited(At[r])
<1>1. locks \in LockSets /\ \A c \in idle[At[r]] : locks = c
  <2>1. CASE idle[At[r]] = {}
    BY <2>1, Names DEF Inherited
  <2>2. CASE idle[At[r]] # {}
    <3>1. PICK c \in idle[At[r]] : TRUE
      BY <2>2
    <3>2. idle[At[r]] = {c} /\ c \in LockSets
      BY <3>1, Constants DEF GatewayInv, GatewayTypeOK
    <3> QED BY <3>2 DEF Inherited
  <2> QED BY <2>1, <2>2
<1>2. \A x \in locks : \E c \in idle[At[r]] : x \in c
  BY DEF Inherited
<1> HIDE DEF locks
<1>3. req' = [req EXCEPT ![r].pc = "lock", ![r].conn = "live", ![r].carried = locks]
  BY DEF Connect, locks
<1>4. Moves(r, "lock", req[r].ref, "live", req[r].owns, locks, req[r].call, req[r].outcome)
  BY ZenonT(40), <1>1, <1>3, Names DEF GatewayInv, GatewayTypeOK, Row, Moves
<1>5. /\ req[r].pc = "connect" /\ req[r].conn = "none" /\ ~req[r].owns
      /\ req[r].outcome # "answered" /\ req[r].ref \in Ref
  BY DEF Connect, GatewayInv, RowInv, WhereRow, AnswerRow
<1>6. WhereRow(r)' /\ AnswerRow(r)'
  BY <1>4, <1>5 DEF WhereRow, AnswerRow, Moves, Owning, Computing
<1>7. RowInv'
  BY <1>4, <1>6, RowsKept DEF Connect, Moves
<1>8. \A p \in Replica : idle'[p] = IF p = At[r] THEN {} ELSE idle[p]
  BY DEF Connect, GatewayInv, GatewayTypeOK
<1>9. GatewayTypeOK'
  <2>1. idle' \in [Replica -> SUBSET LockSets]
    BY DEF Connect, GatewayInv, GatewayTypeOK
  <2>2. \A p \in Replica : \A c, d \in idle'[p] : c = d
    BY <1>8 DEF GatewayInv, GatewayTypeOK
  <2> QED BY <1>4, <2>1, <2>2 DEF Connect, GatewayInv, GatewayTypeOK, Moves
<1>10. \A x \in Ref : Holds(r, x)' => \E c \in idle[At[r]] : x \in c
  BY <1>2, <1>4, <1>5 DEF Holds, Moves
<1>11. \A x \in Ref, q \in Request : q # r => (Holds(q, x)' <=> Holds(q, x))
  BY <1>4 DEF Holds, Moves
<1>12. \A x \in Ref, q \in Request : Holds(q, x)' /\ q # r => ~Holds(r, x)'
  BY <1>10, <1>11, Constants DEF GatewayInv, LockInv, IdleFree
<1>13. \A x \in Ref : Holds(r, x)' => IdleFree(x)'
  BY <1>8, <1>10, Constants DEF GatewayInv, LockInv, IdleFree
<1>14. \A x \in Ref, q \in Request : q # r /\ Holds(q, x)' => IdleFree(x)'
  BY <1>8, <1>11 DEF GatewayInv, LockInv, IdleFree
<1>15. \A p, q \in Replica : \A c \in idle'[p] : \A d \in idle'[q] : \A x \in Ref :
        x \in c /\ x \in d => p = q
  BY <1>8 DEF GatewayInv, LockInv
<1>16. LockInv'
  BY <1>11, <1>12, <1>13, <1>14, <1>15 DEF GatewayInv, LockInv
<1> QED BY <1>7, <1>9, <1>16 DEF GatewayInv

LEMMA AcquireKeeps ==
  ASSUME GatewayInv, NEW r \in Request, AcquireAndCheck(r)
  PROVE  GatewayInv'
<1>0. req[r].ref \in Ref /\ req[r].outcome # "answered" /\ stored[req[r].ref] \in Nat
  BY DEF AcquireAndCheck, GatewayInv, RowInv, WhereRow, AnswerRow, GatewayTypeOK
<1>1. CASE stored[req[r].ref] = 0
  <2>1. Moves(r, "budget", req[r].ref, "live", TRUE, req[r].carried, req[r].call,
              req[r].outcome)
    BY <1>1, Names DEF GatewayInv, GatewayTypeOK, Row, Moves, AcquireAndCheck
  <2>2. WhereRow(r)' /\ AnswerRow(r)'
    BY <1>0, <1>1, <2>1 DEF AcquireAndCheck, WhereRow, AnswerRow, Moves, Owning, Computing
  <2>3. \A x \in Ref : Holds(r, x)' => Holds(r, x) \/ LockFree(r, x)
    BY <2>1 DEF Holds, Moves, AcquireAndCheck
  <2> QED BY <2>1, <2>2, <2>3, QueryIsClean, Constants, StepKeeps
          DEF Moves, AcquireAndCheck, Counted, GatewayInv, GatewayTypeOK
<1>2. CASE stored[req[r].ref] # 0
  <2>1. Moves(r, "return", req[r].ref, "live", req[r].owns, req[r].carried,
              stored[req[r].ref], "answered")
    BY <1>0, <1>2, Names DEF GatewayInv, GatewayTypeOK, Row, Moves, AcquireAndCheck
  <2>2. WhereRow(r)' /\ AnswerRow(r)'
    BY <1>0, <1>2, <2>1 DEF AcquireAndCheck, WhereRow, AnswerRow, Moves, Owning, Computing
  <2>3. \A x \in Ref : Holds(r, x)' => Holds(r, x)
    BY <2>1 DEF Holds, Moves, AcquireAndCheck
  <2> QED BY <2>1, <2>2, <2>3, QueryIsClean, Constants, StepKeeps
          DEF Moves, AcquireAndCheck, Counted, GatewayInv, GatewayTypeOK
<1> QED BY <1>1, <1>2

LEMMA CheckFailsKeeps ==
  ASSUME GatewayInv, NEW r \in Request, CheckFails(r)
  PROVE  GatewayInv'
<1>1. Moves(r, "return", req[r].ref, "live", TRUE, req[r].carried, req[r].call, "failed")
  BY ZenonT(40), Names DEF GatewayInv, GatewayTypeOK, Row, Moves, CheckFails
<1>2. WhereRow(r)' /\ AnswerRow(r)'
  BY <1>1 DEF CheckFails, GatewayInv, RowInv, WhereRow, AnswerRow, Moves, Owning, Computing
<1>3. \A x \in Ref : Holds(r, x)' => Holds(r, x) \/ LockFree(r, x)
  BY <1>1 DEF Holds, Moves, CheckFails
<1>4. Counted
  BY MishapCounted DEF GatewayInv, GatewayTypeOK, Counted, CheckFails
<1> QED BY <1>1, <1>2, <1>3, <1>4, QueryIsClean, Constants, StepKeeps
        DEF Moves, CheckFails, GatewayInv

LEMMA CheckBudgetKeeps ==
  ASSUME GatewayInv, NEW r \in Request, CheckBudget(r)
  PROVE  GatewayInv'
<1>1. CASE spend >= Limit
  <2>1. MovesTo(r, IF req[r].ref = NoRef THEN "idle" ELSE "release", "queued")
    BY <1>1, Names DEF GatewayInv, GatewayTypeOK, Row, Moves, MovesTo, CheckBudget, Leave
  <2>2. WhereRow(r)' /\ AnswerRow(r)'
    BY <2>1, Constants DEF CheckBudget, GatewayInv, GatewayTypeOK, Row, RowInv, WhereRow, AnswerRow,
       Moves, MovesTo, Owning, Computing
  <2>3. \A x \in Ref : Holds(r, x)' => Holds(r, x)
    BY <2>1 DEF Holds, Moves, MovesTo
  <2>4. Counted
    BY <1>1 DEF GatewayInv, GatewayTypeOK, Counted, CheckBudget
  <2> QED BY <2>1, <2>2, <2>3, <2>4, QueryIsClean, Constants, StepKeeps
          DEF Moves, MovesTo, CheckBudget, GatewayInv
<1>2. CASE ~(spend >= Limit)
  <2>1. MovesTo(r, "call", req[r].outcome)
    <3> DEFINE usd == IF spend >= Soft THEN Cheap ELSE Dear
    <3>1. usd \in Nat BY Constants
    <3>2. req' = [req EXCEPT ![r].pc = "call", ![r].cost = usd]
      BY <1>2 DEF CheckBudget
    <3> HIDE DEF usd
    <3> QED BY <3>1, <3>2, Names DEF GatewayInv, GatewayTypeOK, Row, Moves, MovesTo
  <2>2. WhereRow(r)' /\ AnswerRow(r)'
    BY <2>1 DEF CheckBudget, GatewayInv, RowInv, WhereRow, AnswerRow,
       Moves, MovesTo, Owning, Computing
  <2>3. \A x \in Ref : Holds(r, x)' => Holds(r, x)
    BY <2>1 DEF Holds, Moves, MovesTo
  <2>4. Counted
    BY <1>2 DEF GatewayInv, GatewayTypeOK, Counted, CheckBudget
  <2> QED BY <2>1, <2>2, <2>3, <2>4, QueryIsClean, Constants, StepKeeps
          DEF Moves, MovesTo, CheckBudget, GatewayInv
<1> QED BY <1>1, <1>2

LEMMA CallProviderKeeps ==
  ASSUME GatewayInv, NEW r \in Request, CallProvider(r)
  PROVE  GatewayInv'
<1>0. paid + 1 \in Nat /\ paid + 1 # 0
  BY DEF GatewayInv, GatewayTypeOK
<1>1. Moves(r, "meter", req[r].ref, req[r].conn, req[r].owns, req[r].carried, paid + 1,
            req[r].outcome)
  BY ZenonT(40), <1>0, Names DEF GatewayInv, GatewayTypeOK, Row, Moves, CallProvider
<1>2. WhereRow(r)' /\ AnswerRow(r)'
  BY <1>0, <1>1 DEF CallProvider, GatewayInv, RowInv, WhereRow, AnswerRow, Moves,
     Owning, Computing
<1>3. \A x \in Ref : Holds(r, x)' => Holds(r, x)
  BY <1>1 DEF Holds, Moves
<1>4. Counted
  BY <1>0 DEF GatewayInv, GatewayTypeOK, Counted, CallProvider
<1> QED BY <1>1, <1>2, <1>3, <1>4, QueryIsClean, Constants, StepKeeps
        DEF Moves, CallProvider, GatewayInv

LEMMA MeterKeeps ==
  ASSUME GatewayInv, NEW r \in Request, Meter(r)
  PROVE  GatewayInv'
<1>0. req[r].cost \in Nat
  BY DEF GatewayInv, GatewayTypeOK, Row
<1>1. Counted /\ stored' = stored
  BY <1>0 DEF GatewayInv, GatewayTypeOK, Counted, Meter
<1>2. CleanIdle
  BY QueryIsClean, Constants DEF GatewayInv, Meter
<1>3. CASE req[r].ref = NoRef
  <2>1. MovesTo(r, "idle", "answered")
    BY <1>3, Names DEF GatewayInv, GatewayTypeOK, Row, Moves, MovesTo, Meter
  <2>2. WhereRow(r)' /\ AnswerRow(r)'
    BY <1>3, <2>1, Constants DEF Meter, GatewayInv, GatewayTypeOK, Row, Conns, RowInv, WhereRow,
       AnswerRow, Moves, MovesTo, Owning, Computing
  <2>3. \A x \in Ref : Holds(r, x)' => Holds(r, x)
    BY <2>1 DEF Holds, Moves, MovesTo
  <2> QED BY <1>1, <1>2, <2>1, <2>2, <2>3, StepKeeps DEF Moves, MovesTo
<1>4. CASE req[r].ref # NoRef
  <2>1. MovesTo(r, "store", req[r].outcome) /\ req[r].ref \in Ref
    BY <1>4, Names DEF GatewayInv, GatewayTypeOK, Row, Moves, MovesTo, Meter
  <2>2. WhereRow(r)' /\ AnswerRow(r)'
    BY <2>1 DEF Meter, GatewayInv, RowInv, WhereRow, AnswerRow, Moves, MovesTo,
       Owning, Computing
  <2>3. \A x \in Ref : Holds(r, x)' => Holds(r, x)
    BY <2>1 DEF Holds, Moves, MovesTo
  <2> QED BY <1>1, <1>2, <2>1, <2>2, <2>3, StepKeeps DEF Moves, MovesTo
<1> QED BY <1>3, <1>4

\* The one step that stores: nobody else can be in the window of that reference.
LEMMA StoreKeeps ==
  ASSUME GatewayInv, NEW r \in Request, Store(r)
  PROVE  GatewayInv'
<1>0. /\ req[r].ref \in Ref /\ req[r].call \in Nat /\ req[r].call # 0 /\ req[r].owns
      /\ stored[req[r].ref] = 0 /\ req[r].conn = "live" /\ req[r].outcome # "answered"
  BY DEF Store, GatewayInv, RowInv, WhereRow, AnswerRow, GatewayTypeOK, Row, Owning, Computing
<1>1. MovesTo(r, "unlock", req[r].outcome)
  BY Names DEF GatewayInv, GatewayTypeOK, Row, Moves, MovesTo, Store
<1>2. \A x \in Ref : stored'[x] = IF x = req[r].ref THEN req[r].call ELSE stored[x]
  BY <1>0 DEF Store, GatewayInv, GatewayTypeOK
<1>3. stored' \in [Ref -> Nat]
  BY <1>0 DEF Store, GatewayInv, GatewayTypeOK
<1>4. GatewayTypeOK'
  BY <1>1, <1>3 DEF Store, GatewayInv, GatewayTypeOK, MovesTo, Moves
<1>5. LockInv'
  <2>1. \A x \in Ref : Holds(r, x)' => Holds(r, x)
    BY <1>1 DEF Holds, Moves, MovesTo
  <2> QED BY <1>1, <2>1, LocksKept, QueryIsClean, Constants DEF Moves, MovesTo, Store, GatewayInv
<1>6. WhereRow(r)' /\ AnswerRow(r)'
  BY <1>0, <1>1, <1>2 DEF WhereRow, AnswerRow, Moves, MovesTo, Owning, Computing
<1>7. ASSUME NEW q \in Request, q # r PROVE WhereRow(q)' /\ AnswerRow(q)'
  <2>1. req'[q] = req[q] /\ WhereRow(q) /\ AnswerRow(q)
    BY <1>1, <1>7 DEF Moves, MovesTo, GatewayInv, RowInv
  <2>2. WhereRow(q)'
    BY <2>1 DEF WhereRow
  <2>3. req[q].conn = "live" /\ req[q].pc \in Computing =>
          req[q].ref \in Ref /\ req[q].ref # req[r].ref
    <3>1. SUFFICES ASSUME req[q].conn = "live", req[q].pc \in Computing,
                          req[q].ref = req[r].ref
                   PROVE FALSE
      BY <2>1 DEF WhereRow
    <3>2. req[q].owns
      BY <2>1, <3>1 DEF WhereRow, Owning, Computing
    <3>3. Holds(q, req[r].ref) /\ Holds(r, req[r].ref)
      BY <1>0, <3>1, <3>2 DEF Holds
    <3> QED BY <1>0, <1>7, <3>3 DEF GatewayInv, LockInv
  <2>4. req[q].pc = "unlock" => req[q].ref \in Ref /\ req[q].ref # req[r].ref
    BY <1>0, <2>1 DEF WhereRow, AnswerRow
  <2>5. req[q].outcome = "answered" /\ req[q].ref \in Ref => req[q].ref # req[r].ref
    BY <1>0, <2>1 DEF AnswerRow
  <2>6. AnswerRow(q)'
    BY <1>2, <2>1, <2>3, <2>4, <2>5 DEF AnswerRow
  <2> QED BY <2>2, <2>6
<1> QED BY <1>4, <1>5, <1>6, <1>7 DEF GatewayInv, RowInv

LEMMA UnlockKeeps ==
  ASSUME GatewayInv, NEW r \in Request, Unlock(r)
  PROVE  GatewayInv'
<1>1. Moves(r, "return", req[r].ref, "live", FALSE, req[r].carried, req[r].call, "answered")
  BY ZenonT(40), Names DEF GatewayInv, GatewayTypeOK, Row, Moves, Unlock
<1>2. WhereRow(r)' /\ AnswerRow(r)'
  BY <1>1 DEF Unlock, GatewayInv, RowInv, WhereRow, AnswerRow, Moves, Owning, Computing
<1>3. \A x \in Ref : Holds(r, x)' => Holds(r, x)
  BY <1>1 DEF Holds, Moves, Unlock
<1> QED BY <1>1, <1>2, <1>3, QueryIsClean, Constants, StepKeeps
        DEF Moves, Unlock, Counted, GatewayInv, GatewayTypeOK

LEMMA ReleaseKeeps ==
  ASSUME GatewayInv, NEW r \in Request, ReleaseWithoutStoring(r)
  PROVE  GatewayInv'
<1>1. Moves(r, "return", req[r].ref, "live", FALSE, req[r].carried, req[r].call,
            req[r].outcome)
  BY ZenonT(40), Names DEF GatewayInv, GatewayTypeOK, Row, Moves, ReleaseWithoutStoring
<1>2. WhereRow(r)' /\ AnswerRow(r)'
  BY <1>1 DEF ReleaseWithoutStoring, GatewayInv, RowInv, WhereRow, AnswerRow, Moves,
     Owning, Computing
<1>3. \A x \in Ref : Holds(r, x)' => Holds(r, x)
  BY <1>1 DEF Holds, Moves, ReleaseWithoutStoring
<1> QED BY <1>1, <1>2, <1>3, QueryIsClean, Constants, StepKeeps
        DEF Moves, ReleaseWithoutStoring, Counted, GatewayInv, GatewayTypeOK

LEMMA LoseSessionKeeps ==
  ASSUME GatewayInv, NEW r \in Request, LoseSession(r)
  PROVE  GatewayInv'
<1> DEFINE none == {}
<1>0. none \in LockSets
  BY Names
<1> HIDE DEF none
<1>1. Moves(r, req[r].pc, req[r].ref, "lost", FALSE, none, req[r].call, req[r].outcome)
  <2>1. req' = [req EXCEPT ![r].conn = "lost", ![r].owns = FALSE, ![r].carried = none]
    BY DEF LoseSession, none
  <2> QED BY ZenonT(40), <1>0, <2>1, Names DEF GatewayInv, GatewayTypeOK, Row, Moves
<1> USE DEF none
<1>2. WhereRow(r)' /\ AnswerRow(r)'
  BY <1>1 DEF LoseSession, GatewayInv, RowInv, WhereRow, AnswerRow, Moves, Owning, Computing
<1>3. \A x \in Ref : ~Holds(r, x)'
  BY <1>1 DEF Holds, Moves
<1>4. Counted
  BY MishapCounted DEF GatewayInv, GatewayTypeOK, Counted, LoseSession
<1> QED BY <1>1, <1>2, <1>3, <1>4, QueryIsClean, Constants, StepKeeps
        DEF Moves, LoseSession, GatewayInv

\* The connection goes back with the locks its session still has: they pass from
\* the request to the pool.
LEMMA ReturnKeeps ==
  ASSUME GatewayInv, NEW r \in Request, Return(r)
  PROVE  GatewayInv'
<1>0. /\ req[r].pc = "return" /\ req[r].ref \in Ref /\ req[r].carried \in LockSets
      /\ At[r] \in Replica
  BY Constants DEF Return, GatewayInv, RowInv, WhereRow, GatewayTypeOK, Row
<1> DEFINE locks == Leftover(r)
<1>1. locks \in LockSets /\ \A x \in locks : x \in req[r].carried \/ (req[r].owns /\ req[r].ref = x)
  BY <1>0 DEF Leftover, LockSets
<1> HIDE DEF locks
<1> DEFINE none == {}
<1>11. none \in LockSets
  BY Names
<1> HIDE DEF none
<1>2. Moves(r, "idle", req[r].ref, "none", FALSE, none, req[r].call, req[r].outcome)
  <2> DEFINE back == [req[r] EXCEPT !.pc = "idle", !.conn = "none", !.owns = FALSE,
                                    !.carried = none]
  <2>1. req' = [req EXCEPT ![r] = back]
    BY DEF Return, none
  <2>2. req[r] \in Row /\ req \in [Request -> Row]
    BY DEF GatewayInv, GatewayTypeOK
  <2>3. back \in Row /\ back.pc = "idle" /\ back.conn = "none" /\ back.owns = FALSE
        /\ back.carried = none /\ back.ref = req[r].ref /\ back.call = req[r].call
        /\ back.outcome = req[r].outcome
    BY <1>11, <2>2, Names DEF Row
  <2> HIDE DEF back
  <2>4. req' \in [Request -> Row] /\ req'[r] = back
        /\ \A q \in Request : q # r => req'[q] = req[q]
    BY <2>1, <2>2, <2>3
  <2> QED BY <2>3, <2>4 DEF Moves
<1> USE DEF none
<1>3. WhereRow(r)' /\ AnswerRow(r)'
  BY <1>2 DEF Return, GatewayInv, RowInv, WhereRow, AnswerRow, Moves, Owning, Computing
<1>4. RowInv'
  BY <1>2, <1>3, RowsKept DEF Return, Moves
<1>5. \A x \in Ref : ~Holds(r, x)'
  BY <1>2 DEF Holds, Moves
<1>6. CASE idle' = idle
  BY <1>2, <1>3, <1>5, <1>6, QueryIsClean, <1>0, StepKeeps
     DEF Moves, Return, Counted, GatewayInv, GatewayTypeOK
<1>7. CASE idle[At[r]] = {} /\ req[r].conn = "live" /\ idle' = [idle EXCEPT ![At[r]] = {locks}]
  <2>1. \A p \in Replica : idle'[p] = IF p = At[r] THEN {locks} ELSE idle[p]
    BY <1>7 DEF GatewayInv, GatewayTypeOK
  <2>2. idle' \in [Replica -> SUBSET LockSets]
    BY ZenonT(40), <1>1, <1>7 DEF GatewayInv, GatewayTypeOK
  <2>3. GatewayTypeOK'
    BY <1>2, <2>1, <2>2 DEF GatewayInv, GatewayTypeOK, Moves, Return
  <2>4. \A x \in locks : Holds(r, x)
    BY <1>1, <1>7 DEF Holds
  <2>5. \A x \in Ref, q \in Request : q # r => (Holds(q, x)' <=> Holds(q, x))
    BY <1>2 DEF Holds, Moves
  <2>6. \A x \in Ref, q \in Request : Holds(q, x)' => q # r /\ x \notin locks
    BY <1>5, <2>4, <2>5 DEF GatewayInv, LockInv
  <2>7. \A x \in Ref, q \in Request : Holds(q, x)' => IdleFree(x)'
    BY <2>1, <2>5, <2>6 DEF GatewayInv, LockInv, IdleFree
  <2>8. \A x \in Ref, p \in Replica : x \in locks => \A c \in idle[p] : x \notin c
    BY <2>4 DEF GatewayInv, LockInv, IdleFree
  <2>9. \A p, q \in Replica : \A c \in idle'[p] : \A d \in idle'[q] : \A x \in Ref :
          x \in c /\ x \in d => p = q
    BY <2>1, <2>8 DEF GatewayInv, LockInv
  <2>10. LockInv'
    BY <2>5, <2>6, <2>7, <2>9 DEF GatewayInv, LockInv
  <2> QED BY <1>4, <2>3, <2>10 DEF GatewayInv
<1> QED BY <1>6, <1>7 DEF Return, locks

-----------------------------------------------------------------------------
(* The steps around the requests *)

LEMMA CrashKeeps ==
  ASSUME GatewayInv, NEW p \in Replica, CrashReplica(p)
  PROVE  GatewayInv'
<1>1. \A r \in Request : \/ req'[r] = req[r]
                         \/ req'[r] = Fresh(req[r].ref, "idle", "failed")
  BY DEF CrashReplica
<1>2. ASSUME NEW r \in Request PROVE req'[r] \in Row
  <2>1. req[r] \in Row /\ req[r].ref \in Ref \cup {NoRef}
    BY RowTyped DEF GatewayInv, GatewayTypeOK
  <2>2. Fresh(req[r].ref, "idle", "failed") \in Row
    BY <2>1, Names DEF Fresh, Row
  <2> QED BY <1>1, <2>1, <2>2
<1>3. req' \in [Request -> Row]
  BY <1>2 DEF CrashReplica
<1>4. \A q \in Replica : idle'[q] = IF q = p THEN {} ELSE idle[q]
  BY DEF CrashReplica, GatewayInv, GatewayTypeOK
<1>5. idle' \in [Replica -> SUBSET LockSets]
  BY DEF CrashReplica, GatewayInv, GatewayTypeOK
<1>6. GatewayTypeOK'
  BY <1>3, <1>4, <1>5, MishapCounted DEF CrashReplica, GatewayInv, GatewayTypeOK
<1>7. RowInv'
  <2>1. ASSUME NEW r \in Request PROVE WhereRow(r)' /\ AnswerRow(r)'
    BY <1>1 DEF CrashReplica, GatewayInv, RowInv, WhereRow, AnswerRow, Fresh, Owning, Computing
  <2> QED BY <2>1 DEF RowInv
<1>8. \A r \in Request : \A x \in Ref : Holds(r, x)' => Holds(r, x)
  <2>1. \A r \in Request : Fresh(req[r].ref, "idle", "failed").conn = "none"
    BY DEF Fresh
  <2>2. \A r \in Request : req'[r] = req[r] \/ req'[r].conn = "none"
    BY <1>1, <2>1
  <2> QED BY <2>2 DEF Holds
<1>9. \A x \in Ref : IdleFree(x) => IdleFree(x)'
  BY <1>4 DEF IdleFree
<1>10. \A q, s \in Replica : \A c \in idle'[q] : \A d \in idle'[s] : \A x \in Ref :
         x \in c /\ x \in d => q = s
  BY <1>4 DEF GatewayInv, LockInv
<1>11. LockInv'
  BY <1>8, <1>9, <1>10 DEF GatewayInv, LockInv
<1> QED BY <1>6, <1>7, <1>11 DEF GatewayInv

\* A step that touches neither requests nor pools nor answers.
LEMMA BesideKeeps ==
  ASSUME GatewayInv, NewDay \/ UNCHANGED gatewayVars
  PROVE  GatewayInv'
<1>1. req' = req /\ idle' = idle /\ stored' = stored
  BY DEF NewDay, gatewayVars
<1>2. GatewayTypeOK'
  BY <1>1 DEF NewDay, gatewayVars, GatewayInv, GatewayTypeOK
<1>3. RowInv'
  BY <1>1 DEF GatewayInv, RowInv, WhereRow, AnswerRow
<1>4. LockInv'
  BY <1>1 DEF GatewayInv, LockInv, Holds, IdleFree
<1> QED BY <1>2, <1>3, <1>4 DEF GatewayInv

LEMMA GatewayInvStep ==
  ASSUME GatewayInv, [GatewayNext]_gatewayVars
  PROVE  GatewayInv'
<1>1. ASSUME NEW r \in Request, Work(r) PROVE GatewayInv'
  BY <1>1, ConnectKeeps, ConnectFailsKeeps, AcquireKeeps, CheckBudgetKeeps,
     BudgetFailsKeeps, CallProviderKeeps, MeterKeeps, StoreKeeps, UnlockKeeps,
     ReleaseKeeps, FindSessionLostKeeps, ReturnKeeps DEF Work
<1> QED BY <1>1, ArriveKeeps, CheckFailsKeeps, QueryFailsKeeps, CallFailsKeeps,
        StoreFailsKeeps, LoseSessionKeeps, CrashKeeps, BesideKeeps DEF GatewayNext

-----------------------------------------------------------------------------
(* Theorems *)

\* The inductive invariant: types, rows and locks.
THEOREM GatewayInvariant == GatewaySpec => []GatewayInv
BY GatewayInvInit, GatewayInvStep, PTL DEF GatewaySpec

\* The types, and that a replica's pool keeps at most one idle connection.
THEOREM GatewayTypes == GatewaySpec => []GatewayTypeOK
<1>1. GatewayInv => GatewayTypeOK
  BY DEF GatewayInv
<1> QED BY <1>1, GatewayInvariant, PTL

\* caching.py: one request at a time in the window of a task_ref, and none after
\* its answer is stored, for any number of replicas, requests and references.
THEOREM WindowIsOne == GatewaySpec => []OneWindow
<1>1. ASSUME GatewayInv PROVE OneWindow
  <2>1. ASSUME NEW x \in Ref, NEW r \in InWindow(x) PROVE Holds(r, x) /\ stored[x] = 0
    BY <1>1, <2>1 DEF InWindow, GatewayInv, RowInv, WhereRow, AnswerRow, Holds,
       Owning, Computing
  <2>2. ASSUME NEW x \in Ref, NEW r \in InWindow(x), NEW q \in InWindow(x) PROVE q = r
    BY <1>1, <2>1, <2>2 DEF InWindow, GatewayInv, LockInv
  <2> QED BY <2>1, <2>2 DEF OneWindow, InWindow
<1> QED BY <1>1, GatewayInvariant, PTL

-----------------------------------------------------------------------------
(* The gateway implements SingleFlight *)

PAsk == [r \in Request |-> req[r].ref]
PGot == [r \in Request |-> IF req[r].ref = NoRef THEN 0 ELSE Received(r)]

\* A step of one request that stores nothing and hands no answer out, or only
\* the answer of a call without a reference.
LEMMA AskOrStutter ==
  ASSUME GatewayInv, GatewayInv', stored' = stored, NEW r \in Request,
         \A q \in Request : q # r => req'[q] = req[q],
         Received(r)' = 0 \/ req'[r].ref = NoRef
  PROVE  [Promise!Next]_Promise!vars
<1> DEFINE x == req'[r].ref
<1>1. \A q \in Request : q # r => PAsk'[q] = PAsk[q] /\ PGot'[q] = PGot[q]
  BY DEF PAsk, PGot, Received
<1>2. x \in Ref \cup {NoRef}
  BY DEF GatewayInv, GatewayTypeOK, Row
<1>3. PAsk' = [PAsk EXCEPT ![r] = x]
  BY <1>1 DEF PAsk
<1>4. PGot' = [PGot EXCEPT ![r] = 0]
  BY <1>1 DEF PGot
<1> HIDE DEF x
<1>5. \E y \in Ref \cup {NoRef} : Promise!Ask(r, y)
  BY <1>2, <1>3, <1>4 DEF Promise!Ask, PAsk, PGot
<1> QED BY <1>5 DEF Promise!Next

\* Received depends on the row alone.
LEMMA ReceivedZero ==
  ASSUME NEW r \in Request, req'[r].pc # "idle" \/ req'[r].outcome # "answered"
  PROVE  Received(r)' = 0
BY DEF Received

LEMMA StoreDecides ==
  ASSUME GatewayInv, NEW r \in Request, Store(r)
  PROVE  [Promise!Next]_Promise!vars
<1>1. req[r].ref \in Ref /\ stored[req[r].ref] = 0
  BY DEF Store, GatewayInv, RowInv, WhereRow, AnswerRow, Computing
<1>2. \A y \in Ref \ {req[r].ref} : stored'[y] = stored[y]
  BY <1>1 DEF Store, GatewayInv, GatewayTypeOK
<1>3. \A q \in Request : req'[q].ref = req[q].ref
  BY DEF Store, GatewayInv, GatewayTypeOK, Row
<1>4. \A q \in Request : Received(q)' = Received(q)
  <2>1. \A q \in Request : q # r => req'[q] = req[q]
    BY DEF Store, GatewayInv, GatewayTypeOK
  <2>2. req[r].pc # "idle" /\ req'[r].pc # "idle"
    BY DEF Store, GatewayInv, GatewayTypeOK, Row
  <2> QED BY <2>1, <2>2 DEF Received
<1>5. PAsk' = PAsk /\ PGot' = PGot
  BY <1>3, <1>4 DEF PAsk, PGot
<1>6. Promise!Decide(req[r].ref)
  BY <1>1, <1>2, <1>5 DEF Promise!Decide, PAsk, PGot
<1> QED BY <1>1, <1>6 DEF Promise!Next

LEMMA ReturnGives ==
  ASSUME GatewayInv, GatewayInv', NEW r \in Request, Return(r)
  PROVE  [Promise!Next]_Promise!vars
<1>1. /\ req'[r].pc = "idle" /\ req'[r].ref = req[r].ref /\ req'[r].call = req[r].call
      /\ req'[r].outcome = req[r].outcome /\ req[r].ref \in Ref
      /\ \A q \in Request : q # r => req'[q] = req[q]
  BY DEF Return, GatewayInv, GatewayTypeOK, Row, RowInv, WhereRow
<1>2. CASE req[r].outcome # "answered"
  BY <1>1, <1>2, ReceivedZero, AskOrStutter DEF Return
<1>3. CASE req[r].outcome = "answered"
  <2>1. stored[req[r].ref] = req[r].call /\ stored[req[r].ref] # 0
    BY <1>1, <1>3 DEF GatewayInv, RowInv, AnswerRow
  <2>2. Received(r)' = req[r].call
    BY <1>1, <1>3 DEF Received
  <2>3. PAsk' = PAsk
    BY <1>1 DEF PAsk
  <2>4. \A q \in Request : q # r => PGot'[q] = PGot[q]
    BY <1>1 DEF PGot, Received
  <2>5. req[r].ref # NoRef
    BY <1>1, Constants
  <2>6. PGot' = [PGot EXCEPT ![r] = stored[req[r].ref]]
    BY <1>1, <2>1, <2>2, <2>4, <2>5 DEF PGot
  <2>7. PAsk[r] = req[r].ref
    BY DEF PAsk
  <2>8. Promise!Give(r)
    BY <1>1, <2>1, <2>3, <2>6, <2>7 DEF Promise!Give, PAsk, PGot, Return
  <2> QED BY <2>8 DEF Promise!Next
<1> QED BY <1>2, <1>3

\* The steps of Work that hand nothing out.
LEMMA WorkHandsNothingOut ==
  ASSUME GatewayInv, NEW r \in Request,
         \/ Connect(r) \/ ConnectFails(r) \/ AcquireAndCheck(r) \/ CheckBudget(r)
         \/ BudgetFails(r) \/ CallProvider(r) \/ Unlock(r) \/ ReleaseWithoutStoring(r)
         \/ FindSessionLost(r) \/ CheckFails(r) \/ QueryFails(r) \/ CallFails(r)
         \/ StoreFails(r) \/ LoseSession(r)
  PROVE  /\ req'[r].pc # "idle" \/ req'[r].outcome # "answered"
         /\ stored' = stored
         /\ \A q \in Request : q # r => req'[q] = req[q]
<1> USE DEF GatewayInv, GatewayTypeOK, Row
<1>1. CASE Connect(r) \/ AcquireAndCheck(r) \/ CallProvider(r) \/ Unlock(r)
  BY <1>1 DEF Connect, AcquireAndCheck, CallProvider, Unlock
<1>2. CASE ConnectFails(r) \/ ReleaseWithoutStoring(r) \/ FindSessionLost(r)
  BY <1>2 DEF ConnectFails, ReleaseWithoutStoring, FindSessionLost
<1>3. CASE BudgetFails(r) \/ QueryFails(r) \/ CallFails(r)
  BY <1>3 DEF BudgetFails, QueryFails, NoBudget, CallFails, Leave
<1>4. CASE CheckBudget(r)
  BY <1>4 DEF CheckBudget, Leave
<1>5. CASE CheckFails(r) \/ StoreFails(r)
  BY <1>5 DEF CheckFails, StoreFails
<1>6. CASE LoseSession(r)
  <2>1. req[r].pc # "idle"
    BY <1>6 DEF LoseSession, RowInv, WhereRow
  <2> QED BY <1>6, <2>1 DEF LoseSession
<1> QED BY <1>1, <1>2, <1>3, <1>4, <1>5, <1>6

\* caching.py: whatever replicas, sessions and providers do, each task_ref gets at
\* most one answer and whoever is answered for it gets that one.
THEOREM OneAnswer == GatewaySpec => OneAnswerPerRef
<1>1. GatewayInit => Promise!Init
  <2> SUFFICES ASSUME GatewayInit PROVE Promise!Init
    OBVIOUS
  <2>1. \A r \in Request : req[r].ref = NoRef
    BY DEF GatewayInit, Fresh
  <2> QED BY <2>1 DEF Promise!Init, GatewayInit
<1>2. ASSUME GatewayInv, GatewayInv', [GatewayNext]_gatewayVars
      PROVE  [Promise!Next]_Promise!vars
  <2>1. ASSUME NEW r \in Request,
               req'[r].pc # "idle" \/ req'[r].outcome # "answered", stored' = stored,
               \A q \in Request : q # r => req'[q] = req[q]
        PROVE  [Promise!Next]_Promise!vars
    BY <1>2, <2>1, ReceivedZero, AskOrStutter
  <2>2. ASSUME NEW r \in Request, Arrive(r) PROVE [Promise!Next]_Promise!vars
    <3>1. PICK x \in Ref \cup {NoRef}, pc \in {"idle", "budget", "connect"},
               outcome \in {"none", "refused"} : req' = [req EXCEPT ![r] = Fresh(x, pc, outcome)]
      BY <2>2, Constants DEF Arrive, TurnAway, Redact, Admit
    <3>2. Fresh(x, pc, outcome).outcome # "answered"
      BY DEF Fresh
    <3>3. req'[r].outcome # "answered" /\ \A q \in Request : q # r => req'[q] = req[q]
      BY <1>2, <3>1, <3>2 DEF GatewayInv, GatewayTypeOK
    <3> QED BY <2>1, <2>2, <3>3 DEF Arrive
  <2>3. ASSUME NEW r \in Request, Meter(r) PROVE [Promise!Next]_Promise!vars
    <3>1. stored' = stored /\ \A q \in Request : q # r => req'[q] = req[q]
      BY <1>2, <2>3 DEF Meter, GatewayInv, GatewayTypeOK
    <3>2. req'[r].ref = NoRef \/ req'[r].pc # "idle"
      BY <1>2, <2>3 DEF Meter, GatewayInv, GatewayTypeOK, Row
    <3> QED BY <1>2, <3>1, <3>2, ReceivedZero, AskOrStutter
  <2>4. ASSUME NEW r \in Request, Work(r) PROVE [Promise!Next]_Promise!vars
    BY <1>2, <2>1, <2>3, <2>4, StoreDecides, ReturnGives, WorkHandsNothingOut DEF Work
  <2>5. ASSUME NEW p \in Replica, CrashReplica(p) PROVE [Promise!Next]_Promise!vars
    <3>1. \A r \in Request : \/ req'[r] = req[r]
                             \/ /\ req[r].pc # "idle"
                                /\ req'[r] = Fresh(req[r].ref, "idle", "failed")
      BY <2>5 DEF CrashReplica
    <3>2. \A r \in Request : /\ Fresh(req[r].ref, "idle", "failed").ref = req[r].ref
                             /\ Fresh(req[r].ref, "idle", "failed").outcome = "failed"
      BY DEF Fresh
    <3>3. \A r \in Request : req'[r].ref = req[r].ref /\ Received(r)' = Received(r)
      BY <3>1, <3>2 DEF Received
    <3>4. PAsk' = PAsk /\ PGot' = PGot /\ stored' = stored
      BY <2>5, <3>3 DEF PAsk, PGot, CrashReplica
    <3> QED BY <3>4 DEF Promise!vars, PAsk, PGot
  <2>6. ASSUME NewDay \/ UNCHANGED gatewayVars PROVE [Promise!Next]_Promise!vars
    <3>1. stored' = stored /\ req' = req
      BY <2>6 DEF NewDay, gatewayVars
    <3>2. PAsk' = PAsk /\ PGot' = PGot
      BY <3>1 DEF PAsk, PGot, Received
    <3> QED BY <3>1, <3>2 DEF Promise!vars, PAsk, PGot
  <2> QED BY <1>2, <2>1, <2>2, <2>4, <2>5, <2>6, WorkHandsNothingOut DEF GatewayNext
<1> QED BY <1>1, <1>2, GatewayInvariant, PTL DEF GatewaySpec, OneAnswerPerRef, Promise!Spec

-----------------------------------------------------------------------------
(* The budget *)

LEMMA Products ==
  ASSUME NEW m \in Nat, NEW n \in Nat, NEW k \in Nat, m <= n
  PROVE  m * k <= n * k /\ m * k \in Nat /\ n * k \in Nat /\ (m + 1) * k = m * k + k
OBVIOUS

\* What BudgetHeld needs to survive the metering of a call.
BudgetInv ==
  /\ BudgetHeld
  /\ \A r \in PastCheck : req[r].cost <= Dear

LEMMA PastCheckFinite ==
  ASSUME GatewayInv
  PROVE  /\ IsFiniteSet(Request) /\ IsFiniteSet(PastCheck)
         /\ Cardinality(Request) \in Nat /\ Cardinality(PastCheck) \in Nat
         /\ Cardinality(PastCheck) <= Cardinality(Request)
<1>1. PastCheck \subseteq Request /\ IsFiniteSet(Request)
  BY GatewayAssumption DEF PastCheck, GatewayAssumption
<1> QED BY <1>1, FS_Subset, FS_CardinalityType

\* No request passes the check and the spend does not grow.
LEMMA FewerKeep ==
  ASSUME GatewayInv, GatewayInv', BudgetInv, spend' <= spend,
         \A r \in Request : r \in PastCheck' => r \in PastCheck /\ req'[r].cost = req[r].cost
  PROVE  BudgetInv'
<1>1. PastCheck' \subseteq PastCheck
  BY DEF PastCheck
<1>2. Cardinality(PastCheck') <= Cardinality(PastCheck) /\ Cardinality(PastCheck') \in Nat
  BY <1>1, PastCheckFinite, FS_Subset, FS_CardinalityType
<1>3. Cardinality(PastCheck') * Dear <= Cardinality(PastCheck) * Dear
  BY <1>2, PastCheckFinite, Constants, Products
<1>4. /\ Cardinality(PastCheck') * Dear \in Nat /\ Cardinality(PastCheck) * Dear \in Nat
      /\ Cardinality(Request) * Dear \in Nat
  BY <1>2, PastCheckFinite, Constants, Products
<1>5. BudgetHeld'
  BY <1>3, <1>4, Constants DEF BudgetInv, BudgetHeld, GatewayInv, GatewayTypeOK
<1> QED BY <1>1, <1>5 DEF BudgetInv, PastCheck

LEMMA CheckKeepsBudget ==
  ASSUME GatewayInv, GatewayInv', BudgetInv, NEW r \in Request, CheckBudget(r)
  PROVE  BudgetInv'
<1>1. \A q \in Request : q # r => req'[q] = req[q]
  BY DEF CheckBudget, Leave, GatewayInv, GatewayTypeOK
<1>2. CASE spend >= Limit
  <2>1. req'[r].pc \notin {"call", "meter"}
    BY <1>2 DEF CheckBudget, Leave, GatewayInv, GatewayTypeOK, Row
  <2>2. \A q \in Request : q \in PastCheck' => q \in PastCheck /\ req'[q].cost = req[q].cost
    BY <1>1, <2>1 DEF PastCheck
  <2>3. spend' <= spend
    BY DEF CheckBudget, GatewayInv, GatewayTypeOK
  <2> QED BY <2>2, <2>3, FewerKeep
<1>3. CASE ~(spend >= Limit)
  <2>1. spend' = spend /\ spend \in Nat /\ spend <= Limit - 1
    BY <1>3, Constants DEF CheckBudget, GatewayInv, GatewayTypeOK
  <2>2. req'[r].cost <= Dear
    <3> DEFINE usd == IF spend >= Soft THEN Cheap ELSE Dear
    <3>1. usd \in Nat /\ usd <= Dear BY Constants
    <3>2. req' = [req EXCEPT ![r].pc = "call", ![r].cost = usd]
      BY <1>3 DEF CheckBudget
    <3> HIDE DEF usd
    <3>3. req'[r].cost = usd
      BY <3>2 DEF GatewayInv, GatewayTypeOK, Row
    <3> QED BY <3>1, <3>3
  <2>3. Cardinality(PastCheck') <= Cardinality(Request) /\ Cardinality(PastCheck') \in Nat
    <3>1. PastCheck' \subseteq Request
      BY DEF PastCheck
    <3> QED BY <3>1, PastCheckFinite, FS_Subset, FS_CardinalityType
  <2>4. Cardinality(PastCheck') * Dear <= Cardinality(Request) * Dear
    BY <2>3, PastCheckFinite, Constants, Products
  <2>5. Cardinality(PastCheck') * Dear \in Nat /\ Cardinality(Request) * Dear \in Nat
    BY <2>3, PastCheckFinite, Constants, Products
  <2>6. BudgetHeld'
    BY <2>1, <2>4, <2>5, Constants DEF BudgetHeld
  <2>7. \A q \in PastCheck' : req'[q].cost <= Dear
    BY <1>1, <2>2 DEF BudgetInv, PastCheck
  <2> QED BY <2>6, <2>7 DEF BudgetInv
<1> QED BY <1>2, <1>3

LEMMA MeterKeepsBudget ==
  ASSUME GatewayInv, GatewayInv', BudgetInv, NEW r \in Request, Meter(r)
  PROVE  BudgetInv'
<1>1. \A q \in Request : q # r => req'[q] = req[q]
  BY DEF Meter, GatewayInv, GatewayTypeOK
<1>2. req'[r].pc \notin {"call", "meter"} /\ r \in PastCheck /\ r \notin PastCheck'
  BY DEF Meter, GatewayInv, GatewayTypeOK, Row, PastCheck
<1>3. PastCheck' = PastCheck \ {r}
  BY <1>1, <1>2 DEF PastCheck
<1>4. Cardinality(PastCheck') = Cardinality(PastCheck) - 1
  BY <1>2, <1>3, PastCheckFinite, FS_RemoveElement
<1>5. Cardinality(PastCheck') \in Nat
  BY <1>3, PastCheckFinite, FS_Subset, FS_CardinalityType
<1>6. Cardinality(PastCheck) * Dear = Cardinality(PastCheck') * Dear + Dear
  <2> DEFINE m == Cardinality(PastCheck')
  <2>1. m \in Nat /\ Cardinality(PastCheck) = m + 1
    BY <1>4, <1>5, PastCheckFinite
  <2> HIDE DEF m
  <2>2. (m + 1) * Dear = m * Dear + Dear
    BY <2>1, Constants, Products
  <2> QED BY <2>1, <2>2 DEF m
<1>7. spend' <= spend + Dear /\ spend' \in Nat /\ spend \in Nat
  <2>1. req[r].cost \in Nat /\ req[r].cost <= Dear
    BY <1>2 DEF BudgetInv, GatewayInv, GatewayTypeOK, Row
  <2> QED BY <2>1, Constants DEF Meter, GatewayInv, GatewayTypeOK
<1>8. /\ Cardinality(PastCheck') * Dear \in Nat /\ Cardinality(PastCheck) * Dear \in Nat
      /\ Cardinality(Request) * Dear \in Nat
  BY <1>5, PastCheckFinite, Constants, Products
<1>9. BudgetHeld'
  BY <1>6, <1>7, <1>8, Constants DEF BudgetInv, BudgetHeld
<1>10. \A q \in PastCheck' : req'[q].cost <= Dear
  BY <1>1, <1>3 DEF BudgetInv, PastCheck
<1> QED BY <1>9, <1>10 DEF BudgetInv

LEMMA BudgetStep ==
  ASSUME GatewayInv, GatewayInv', BudgetInv, [GatewayNext]_gatewayVars
  PROVE  BudgetInv'
<1> USE DEF GatewayInv, GatewayTypeOK
<1>1. ASSUME NEW r \in Request, \A q \in Request : q # r => req'[q] = req[q],
             r \in PastCheck' => r \in PastCheck /\ req'[r].cost = req[r].cost,
             spend' = spend
      PROVE  BudgetInv'
  <2>1. \A q \in Request : q \in PastCheck' => q \in PastCheck /\ req'[q].cost = req[q].cost
    BY <1>1 DEF PastCheck
  <2> QED BY <1>1, <2>1, FewerKeep
<1>2. ASSUME NEW r \in Request, Arrive(r) PROVE BudgetInv'
  <2>1. PICK x \in Ref \cup {NoRef}, pc \in {"idle", "budget", "connect"},
             outcome \in {"none", "refused"} : req' = [req EXCEPT ![r] = Fresh(x, pc, outcome)]
    BY <1>2, Constants DEF Arrive, TurnAway, Redact, Admit
  <2>2. Fresh(x, pc, outcome).pc \notin {"call", "meter"}
    BY <2>1 DEF Fresh
  <2>3. req'[r].pc \notin {"call", "meter"} /\ \A q \in Request : q # r => req'[q] = req[q]
    BY <2>1, <2>2
  <2> QED BY <1>1, <1>2, <2>3 DEF Arrive, PastCheck
<1>3. ASSUME NEW r \in Request,
             \/ Connect(r) \/ ConnectFails(r) \/ AcquireAndCheck(r) \/ CheckFails(r)
             \/ CallProvider(r) \/ LoseSession(r)
      PROVE  BudgetInv'
  <2>1. /\ \A q \in Request : q # r => req'[q] = req[q]
        /\ spend' = spend
    BY <1>3 DEF Connect, ConnectFails, AcquireAndCheck, CheckFails, CallProvider, LoseSession
  <2>2. r \in PastCheck' => r \in PastCheck /\ req'[r].cost = req[r].cost
    BY <1>3 DEF Connect, ConnectFails, AcquireAndCheck, CheckFails, CallProvider, LoseSession,
       PastCheck, Row
  <2> QED BY <1>1, <2>1, <2>2
<1>4. ASSUME NEW r \in Request,
             \/ BudgetFails(r) \/ QueryFails(r) \/ CallFails(r)
             \/ Store(r) \/ StoreFails(r) \/ Unlock(r) \/ ReleaseWithoutStoring(r)
             \/ FindSessionLost(r) \/ Return(r)
      PROVE  BudgetInv'
  <2>1. /\ \A q \in Request : q # r => req'[q] = req[q]
        /\ spend' = spend
    BY <1>4 DEF BudgetFails, QueryFails, NoBudget, CallFails, Leave, Store, StoreFails, Unlock,
       ReleaseWithoutStoring, FindSessionLost, Return
  <2>2. r \notin PastCheck'
    BY <1>4 DEF BudgetFails, QueryFails, NoBudget, CallFails, Leave, Store, StoreFails, Unlock,
       ReleaseWithoutStoring, FindSessionLost, Return, PastCheck, Row
  <2> QED BY <1>1, <2>1, <2>2
<1>5. ASSUME NEW p \in Replica, CrashReplica(p) PROVE BudgetInv'
  <2>1. \A r \in Request : Fresh(req[r].ref, "idle", "failed").pc = "idle"
    BY DEF Fresh
  <2>2. \A r \in Request : r \in PastCheck' => r \in PastCheck /\ req'[r].cost = req[r].cost
    BY <1>5, <2>1 DEF CrashReplica, PastCheck
  <2> QED BY <1>5, <2>2, FewerKeep DEF CrashReplica
<1>6. ASSUME NewDay \/ UNCHANGED gatewayVars PROVE BudgetInv'
  <2>1. \A r \in Request : r \in PastCheck' => r \in PastCheck /\ req'[r].cost = req[r].cost
    BY <1>6 DEF NewDay, gatewayVars, PastCheck
  <2> QED BY <1>6, <2>1, FewerKeep DEF NewDay, gatewayVars
<1> QED BY <1>2, <1>3, <1>4, <1>5, <1>6, CheckKeepsBudget, MeterKeepsBudget
        DEF GatewayNext, Work

\* budget.py: the day's spend exceeds the limit by less than one call for every
\* request that can be in progress, however they interleave.
THEOREM BudgetIsHeld == GatewaySpec => []BudgetHeld
<1>1. GatewayInit => BudgetInv
  <2> SUFFICES ASSUME GatewayInit PROVE BudgetInv
    OBVIOUS
  <2>1. PastCheck = {}
    BY DEF PastCheck, GatewayInit, Fresh
  <2>2. Cardinality(PastCheck) = 0 /\ Cardinality(Request) \in Nat
    BY <2>1, FS_EmptySet, FS_CardinalityType, GatewayAssumption DEF GatewayAssumption
  <2>3. Cardinality(Request) * Dear \in Nat /\ 0 * Dear = 0
    BY <2>2, Constants, Products
  <2> QED BY <2>1, <2>2, <2>3, Constants DEF BudgetInv, BudgetHeld, GatewayInit
<1>2. BudgetInv => BudgetHeld
  BY DEF BudgetInv
<1> QED BY <1>1, <1>2, BudgetStep, GatewayInvariant, PTL DEF GatewaySpec

=============================================================================
