---------------------------- MODULE ModelGateway ----------------------------
(***************************************************************************)
(* services/model-gateway: POST /v1/completions on several replicas.  A    *)
(* request with a task_ref runs its whole window (budget, provider call,   *)
(* metering, storing the answer) under a Postgres session lock, on one     *)
(* borrowed connection; every other query of the request borrows a second  *)
(* connection of the same pool.                                            *)
(***************************************************************************)
EXTENDS Integers, FiniteSets, Mishaps

CONSTANTS
  Request,     \* requests that can be in progress at the same time
  Replica, At, \* replicas, and the one that serves each request
  Ref, NoRef,  \* task references, and the absence of one
  PoolSize,    \* connections one replica may hold (maxconn)
  Backends,    \* server connections PgBouncer opens for all replicas
  Limit, Soft, \* the daily budget of the agent and its soft threshold
  Dear, Cheap, \* the cost of a call at the routed tier and one tier below
  MaxArrivals  \* bound on the requests of one behaviour

ASSUME GatewayAssumption ==
  /\ NoRef \notin Ref /\ IsFiniteSet(Request)
  /\ At \in [Request -> Replica]
  /\ {PoolSize, Backends, Limit, Soft, Dear, Cheap, MaxArrivals} \subseteq Nat
  /\ Soft <= Limit /\ Cheap <= Dear /\ Limit > 0

VARIABLES
  req,       \* the requests, see Fresh
  idle,      \* the pooled connections of each replica nobody uses (at most
             \* one, minconn): each as the set of locks its session still has
  stored,    \* the completions table: the call stored for each reference
  spend,     \* the usd rows of today
  paid,      \* provider calls answered
  queued,    \* gate_decisions rows
  arrivals

gatewayVars == <<req, idle, stored, spend, paid, queued, arrivals, mishaps>>

\* conn: none, live, or lost when the server has dropped the session;
\* owns: the session holds the lock this request took; carried: locks that
\* came with the connection; cost and call: of the provider call.
Fresh(ref, pc, outcome) ==
  [pc |-> pc, ref |-> ref, conn |-> "none", owns |-> FALSE, carried |-> {},
   cost |-> 0, call |-> 0, outcome |-> outcome]

GatewayInit ==
  /\ req = [r \in Request |-> Fresh(NoRef, "idle", "none")]
  /\ idle = [p \in Replica |-> {}]
  /\ stored = [x \in Ref |-> 0]
  /\ spend = 0
  /\ paid = 0
  /\ queued = 0
  /\ arrivals = 0
  /\ mishaps = 0

-----------------------------------------------------------------------------
(* The pool and the locks *)

Used(p) == {r \in Request : At[r] = p /\ req[r].conn # "none"}

Opened == {r \in Request : req[r].conn = "live"}
Kept == {p \in Replica : idle[p] # {}}

BackendFree == Cardinality(Opened) + Cardinality(Kept) < Backends

PoolFull(p) == idle[p] = {} /\ Cardinality(Used(p)) >= PoolSize

\* getconn hands out the idle connection, or opens one.
Available(p) == idle[p] # {} \/ (~PoolFull(p) /\ BackendFree)

\* A borrowed connection comes back at once; the pool keeps it if it has none.
IdleAfterQuery(p) == IF idle[p] = {} THEN [idle EXCEPT ![p] = {{}}] ELSE idle

Holds(r, x) ==
  /\ req[r].conn = "live"
  /\ (req[r].owns /\ req[r].ref = x) \/ x \in req[r].carried

LockFree(r, x) ==
  /\ \A q \in Request \ {r} : ~Holds(q, x)
  /\ \A p \in Replica : \A locks \in idle[p] : x \notin locks

-----------------------------------------------------------------------------
(* Before the window *)

\* Validation, the deliberate flag or routing turns the request away.
TurnAway(r) ==
  /\ req' = [req EXCEPT ![r] = Fresh(NoRef, "idle", "refused")]
  /\ UNCHANGED <<idle, queued>>

\* The redaction firewall does, after its audit row.
Redact(r) ==
  /\ Available(At[r])
  /\ queued' = queued + 1
  /\ idle' = IdleAfterQuery(At[r])
  /\ req' = [req EXCEPT ![r] = Fresh(NoRef, "idle", "refused")]

Admit(r) ==
  /\ \E x \in Ref \cup {NoRef} :
       req' = [req EXCEPT ![r] =
                 Fresh(x, IF x = NoRef THEN "budget" ELSE "connect", "none")]
  /\ UNCHANGED <<idle, queued>>

Arrive(r) ==
  /\ req[r].pc = "idle"
  /\ arrivals < MaxArrivals
  /\ arrivals' = arrivals + 1
  /\ TurnAway(r) \/ Redact(r) \/ Admit(r)
  /\ UNCHANGED <<stored, spend, paid, mishaps>>

\* getconn raises at the limit of the pool, or PgBouncer gives up on a client
\* that has waited for a backend (query_wait_timeout).
ConnectFails(r) ==
  /\ req[r].pc = "connect"
  /\ ~Available(At[r])
  /\ req' = [req EXCEPT ![r].pc = "idle", ![r].outcome = "failed"]
  /\ UNCHANGED <<idle, stored, spend, paid, queued, arrivals, mishaps>>

\* The locks that the session of the idle connection, if any, already has.
Inherited(p) == UNION idle[p]

Connect(r) ==
  /\ req[r].pc = "connect"
  /\ Available(At[r])
  /\ req' = [req EXCEPT ![r].pc = "lock", ![r].conn = "live",
               ![r].carried = Inherited(At[r])]
  /\ idle' = [idle EXCEPT ![At[r]] = {}]
  /\ UNCHANGED <<stored, spend, paid, queued, arrivals, mishaps>>

\* _acquire_and_check: the lock, the look-up, and on a hit the unlock.
AcquireAndCheck(r) ==
  /\ req[r].pc = "lock"
  /\ req[r].conn = "live"
  /\ LockFree(r, req[r].ref)
  /\ IF stored[req[r].ref] = 0
     THEN req' = [req EXCEPT ![r].pc = "budget", ![r].owns = TRUE]
     ELSE req' = [req EXCEPT ![r].pc = "return", ![r].outcome = "answered",
                    ![r].call = stored[req[r].ref]]
  /\ UNCHANGED <<idle, stored, spend, paid, queued, arrivals, mishaps>>

\* The look-up raises after the lock was granted.
CheckFails(r) ==
  /\ req[r].pc = "lock"
  /\ req[r].conn = "live"
  /\ LockFree(r, req[r].ref)
  /\ Mishap("select_fails")
  /\ req' = [req EXCEPT ![r].pc = "return", ![r].owns = TRUE,
               ![r].outcome = "failed"]
  /\ UNCHANGED <<idle, stored, spend, paid, queued, arrivals>>

-----------------------------------------------------------------------------
(* _compute *)

\* Where an exception or an answer of compute() leads.
Leave(r, outcome) ==
  req' = [req EXCEPT ![r].outcome = outcome,
                     ![r].pc = IF req[r].ref = NoRef THEN "idle" ELSE "release"]

\* A seeded bug: the soft threshold is compared first and hides the limit.
BugCheckBudget(r) ==
  /\ req[r].pc = "budget"
  /\ Available(At[r])
  /\ idle' = IdleAfterQuery(At[r])
  /\ req' = [req EXCEPT ![r].pc = "call",
               ![r].cost = IF spend >= Soft THEN Cheap ELSE Dear]
  /\ UNCHANGED <<queued, stored, spend, paid, arrivals, mishaps>>

\* check_and_apply_budget, and the 429 with its row.
CheckBudget(r) ==
  /\ req[r].pc = "budget"
  /\ Available(At[r])
  /\ idle' = IdleAfterQuery(At[r])
  /\ IF spend >= Limit
     THEN /\ Leave(r, "queued")
          /\ queued' = queued + 1
     ELSE /\ req' = [req EXCEPT ![r].pc = "call",
                       ![r].cost = IF spend >= Soft THEN Cheap ELSE Dear]
          /\ UNCHANGED queued
  /\ UNCHANGED <<stored, spend, paid, arrivals, mishaps>>

\* The queries raise: no connection, or no agent_runs row.
NoBudget(r) ==
  /\ req[r].pc = "budget"
  /\ Leave(r, "failed")
  /\ UNCHANGED <<idle, stored, spend, paid, queued, arrivals>>

\* A seeded bug: only a full pool raises, nothing ends the wait for a backend.
BugBudgetFails(r) == NoBudget(r) /\ PoolFull(At[r]) /\ UNCHANGED mishaps

BudgetFails(r) == NoBudget(r) /\ ~Available(At[r]) /\ UNCHANGED mishaps
QueryFails(r) == NoBudget(r) /\ Mishap("select_fails")

CallProvider(r) ==
  /\ req[r].pc = "call"
  /\ paid' = paid + 1
  /\ req' = [req EXCEPT ![r].pc = "meter", ![r].call = paid + 1]
  /\ UNCHANGED <<idle, stored, spend, queued, arrivals, mishaps>>

CallFails(r) ==
  /\ req[r].pc = "call"
  /\ Mishap("provider_fails")
  /\ Leave(r, "failed")
  /\ UNCHANGED <<idle, stored, spend, paid, queued, arrivals>>

\* record_completion_costs; a failure to write is logged and swallowed.
Meter(r) ==
  /\ req[r].pc = "meter"
  /\ IF Available(At[r])
     THEN spend' = spend + req[r].cost /\ idle' = IdleAfterQuery(At[r])
     ELSE UNCHANGED <<spend, idle>>
  /\ IF req[r].ref = NoRef
     THEN req' = [req EXCEPT ![r].pc = "idle", ![r].outcome = "answered"]
     ELSE req' = [req EXCEPT ![r].pc = "store"]
  /\ UNCHANGED <<stored, paid, queued, arrivals, mishaps>>

-----------------------------------------------------------------------------
(* Leaving the window *)

\* A seeded bug, the one _store_and_release describes: the unlock takes effect
\* before the commit of the INSERT.
BugStore(r) ==
  /\ req[r].pc = "store"
  /\ req[r].conn = "live"
  /\ IF req[r].owns
     THEN /\ req' = [req EXCEPT ![r].owns = FALSE]
          /\ UNCHANGED stored
     ELSE /\ stored' = [stored EXCEPT ![req[r].ref] = IF @ = 0 THEN req[r].call ELSE @]
          /\ req' = [req EXCEPT ![r].pc = "unlock"]
  /\ UNCHANGED <<idle, spend, paid, queued, arrivals, mishaps>>

\* _store_and_release: the INSERT commits, then the lock goes.
Store(r) ==
  /\ req[r].pc = "store"
  /\ req[r].conn = "live"
  /\ stored' = [stored EXCEPT ![req[r].ref] = IF @ = 0 THEN req[r].call ELSE @]
  /\ req' = [req EXCEPT ![r].pc = "unlock"]
  /\ UNCHANGED <<idle, spend, paid, queued, arrivals, mishaps>>

\* The INSERT raises on a session that goes on: nothing unlocks.
StoreFails(r) ==
  /\ req[r].pc = "store"
  /\ req[r].conn = "live"
  /\ Mishap("store_fails")
  /\ req' = [req EXCEPT ![r].pc = "return", ![r].outcome = "failed"]
  /\ UNCHANGED <<idle, stored, spend, paid, queued, arrivals>>

Unlock(r) ==
  /\ req[r].pc = "unlock"
  /\ req[r].conn = "live"
  /\ req' = [req EXCEPT ![r].pc = "return", ![r].owns = FALSE,
               ![r].outcome = "answered"]
  /\ UNCHANGED <<idle, stored, spend, paid, queued, arrivals, mishaps>>

ReleaseWithoutStoring(r) ==
  /\ req[r].pc = "release"
  /\ req[r].conn = "live"
  /\ req' = [req EXCEPT ![r].pc = "return", ![r].owns = FALSE]
  /\ UNCHANGED <<idle, stored, spend, paid, queued, arrivals, mishaps>>

\* Every statement on a lost session raises, whatever compute() gave.
FindSessionLost(r) ==
  /\ req[r].pc \in {"lock", "store", "unlock", "release"}
  /\ req[r].conn = "lost"
  /\ req' = [req EXCEPT ![r].pc = "return", ![r].outcome = "failed"]
  /\ UNCHANGED <<idle, stored, spend, paid, queued, arrivals, mishaps>>

\* The locks the session of r has when its connection goes back.
Leftover(r) == req[r].carried \cup (IF req[r].owns THEN {req[r].ref} ELSE {})

\* putconn: kept if it is usable and the pool has none, else closed, and a
\* closed session has no locks.
Return(r) ==
  /\ req[r].pc = "return"
  /\ idle' = IF idle[At[r]] = {} /\ req[r].conn = "live"
             THEN [idle EXCEPT ![At[r]] = {Leftover(r)}] ELSE idle
  /\ req' = [req EXCEPT ![r].pc = "idle", ![r].conn = "none", ![r].owns = FALSE,
               ![r].carried = {}]
  /\ UNCHANGED <<stored, spend, paid, queued, arrivals, mishaps>>

-----------------------------------------------------------------------------
(* Around the requests *)

\* PgBouncer, the network or the server drops a session.
LoseSession(r) ==
  /\ req[r].conn = "live"
  /\ Mishap("session_lost")
  /\ req' = [req EXCEPT ![r].conn = "lost", ![r].owns = FALSE, ![r].carried = {}]
  /\ UNCHANGED <<idle, stored, spend, paid, queued, arrivals>>

\* A replica stops and restarts: its requests, sessions and pool are gone.
CrashReplica(p) ==
  /\ Mishap("replica_crash")
  /\ req' = [r \in Request |->
       IF At[r] = p /\ req[r].pc # "idle"
       THEN Fresh(req[r].ref, "idle", "failed")
       ELSE req[r]]
  /\ idle' = [idle EXCEPT ![p] = {}]
  /\ UNCHANGED <<stored, spend, paid, queued, arrivals>>

\* Midnight: the budget query sums the rows of the new day.
NewDay ==
  /\ spend > 0
  /\ spend' = 0
  /\ UNCHANGED <<req, idle, stored, paid, queued, arrivals, mishaps>>

\* What a request does next.
Work(r) ==
  \/ Connect(r) \/ ConnectFails(r) \/ AcquireAndCheck(r)
  \/ CheckBudget(r) \/ BudgetFails(r) \/ CallProvider(r) \/ Meter(r)
  \/ Store(r) \/ Unlock(r) \/ ReleaseWithoutStoring(r)
  \/ FindSessionLost(r) \/ Return(r)

GatewayNext ==
  \/ \E r \in Request :
       \/ Arrive(r) \/ Work(r)
       \/ CheckFails(r) \/ QueryFails(r) \/ CallFails(r) \/ StoreFails(r) \/ LoseSession(r)
  \/ \E p \in Replica : CrashReplica(p)
  \/ NewDay

GatewaySpec == GatewayInit /\ [][GatewayNext]_gatewayVars

\* A request's worker thread goes on; the provider call, the wait for a
\* backend and the wait for a free lock end.
GatewayFairSpec == GatewaySpec /\ \A r \in Request : WF_gatewayVars(Work(r))

-----------------------------------------------------------------------------
(* Properties *)

Steps == {"idle", "connect", "lock", "budget", "call", "meter", "store", "unlock",
          "release", "return"}
Outcomes == {"none", "answered", "refused", "queued", "failed"}
Conns == {"none", "live", "lost"}
LockSets == SUBSET Ref
Row == [pc : Steps, ref : Ref \cup {NoRef}, conn : Conns, owns : BOOLEAN,
        carried : LockSets, cost : Nat, call : Nat, outcome : Outcomes]

\* Types, and that a pool keeps one connection at most (minconn).
GatewayTypeOK ==
  /\ req \in [Request -> Row]
  /\ idle \in [Replica -> SUBSET LockSets]
  /\ \A p \in Replica : \A c, d \in idle[p] : c = d
  /\ stored \in [Ref -> Nat]
  /\ spend \in Nat /\ paid \in Nat /\ queued \in Nat
  /\ arrivals \in Nat /\ mishaps \in Nat

Computing == {"budget", "call", "meter", "store"}

\* caching.py, "a retried task never double-spends": while the sessions last,
\* one request at a time is in the window of a reference, and none is once the
\* reference has its answer.  (A session lost in the window frees the lock
\* while its request still runs: those requests are not counted.)
InWindow(x) ==
  {r \in Request : req[r].ref = x /\ req[r].conn = "live" /\ req[r].pc \in Computing}

OneWindow ==
  \A x \in Ref : \A r \in InWindow(x) : InWindow(x) = {r} /\ stored[x] = 0

\* budget.py: the check and the costs row are apart, so requests that passed
\* the check together overshoot the limit, by no more than one call each.
PastCheck == {r \in Request : req[r].pc \in {"call", "meter"}}

BudgetHeld ==
  spend + Cardinality(PastCheck) * Dear <= Limit - 1 + Cardinality(Request) * Dear

\* A pooled connection, or the one a request returns, keeps a lock.
Orphaned ==
  \/ \E p \in Replica : ~(idle[p] \subseteq {{}})
  \/ \E r \in Request :
       req[r].carried # {} \/ (req[r].pc = "return" /\ req[r].owns)

\* Every request is answered, whatever the pool, PgBouncer and the locks make it
\* wait for, unless some session in the pool keeps a lock nobody will release.
Answered ==
  \A r \in Request :
    (req[r].pc # "idle" /\ ~Orphaned) ~> (req[r].pc = "idle" \/ Orphaned)

\* The call whose answer reached the caller of r.
Received(r) ==
  IF req[r].pc = "idle" /\ req[r].outcome = "answered" THEN req[r].call ELSE 0

\* caching.py, "one upstream call [...] and two identical responses": one answer
\* per task_ref, the same for everyone who is answered, on every replica.
Promise == INSTANCE SingleFlight WITH
  answer <- stored,
  ask <- [r \in Request |-> req[r].ref],
  got <- [r \in Request |-> IF req[r].ref = NoRef THEN 0 ELSE Received(r)]

OneAnswerPerRef == Promise!Spec
=============================================================================
