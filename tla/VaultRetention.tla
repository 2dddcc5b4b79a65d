--------------------------- MODULE VaultRetention ---------------------------
(***************************************************************************)
(* Objects of the Vault from their creation to the retention sweep: rows   *)
(* in Postgres, their retention_policy and audit rows, and the blobs of    *)
(* assets, which are named by the hash of their content and shared.        *)
(* routers/objects.py, storage.py, retention.py, audit.py of               *)
(* services/vault.                                                         *)
(*                                                                         *)
(* The database is read committed: a transaction sees what others have     *)
(* committed and its own deletions.  What a statement waits for (a row     *)
(* that an open sweep has deleted) is a guard.                             *)
(***************************************************************************)
EXTENDS Mishaps, FiniteSets

CONSTANTS
  Object,    \* ids of objects, each created once
  Asset,     \* the ids of assets
  Content,   \* content hashes
  ContentOf, \* the content of each asset
  Parents,   \* the objects that a row of an object references
  Held,      \* objects under legal_hold
  Sweep      \* processes that run run_retention_expiry

ASSUME VaultAssumption ==
  /\ Asset \subseteq Object
  /\ ContentOf \in [Asset -> Content]
  /\ Parents \in [Object -> SUBSET Object]
  /\ Held \subseteq Object

VARIABLES
  row,     \* the row of an object; "dropped" by the API, "erased" by a sweep
  request, \* where the POST that creates an object is
  policy,  \* its retention_policy row: kept, due (expired), done (deleted_at)
  audits,  \* its retention_deletion rows in the audit log
  blobs,   \* contents in the blob store
  raced,   \* assets whose request had its content in the store, and no row yet,
           \* when a sweep that counted no reference deletes it (history)
  sweep,   \* [pc, batch, todo, gone, object]: batch is what the sweep has
           \* locked, gone what it has deleted and not yet committed
  active   \* the sweeps that are run in this behaviour

objectVars == <<row, request, policy, audits>>
vars == <<objectVars, blobs, raced, sweep, active, mishaps>>

Idle == [pc |-> "idle", batch |-> {}, todo |-> {}, gone |-> {}, object |-> {}]

Init ==
  /\ row = [o \in Object |-> "absent"]
  /\ request = [o \in Object |-> "none"]
  /\ policy = [o \in Object |-> "none"]
  /\ audits = [o \in Object |-> 0]
  /\ blobs = {}
  /\ raced = {}
  /\ sweep = [s \in Sweep |-> Idle]
  /\ active \in SUBSET Sweep \ {{}}
  /\ mishaps = 0

\* Rows that are deleted by a transaction that is still open.
Deleting == UNION {sweep[s].gone : s \in Sweep}
Children(o) == {c \in Object : o \in Parents[c] /\ row[c] = "live"}

-----------------------------------------------------------------------------
(* POST /assets, and POST of the other types, in one transaction *)

\* store_content_addressed: exists(), after the taxonomy and consent checks.
FindBlob(o) ==
  /\ o \in Asset /\ request[o] = "none"
  /\ request' = [request EXCEPT
       ![o] = IF ContentOf[o] \in blobs THEN "stored" ELSE "missing"]
  /\ UNCHANGED <<row, policy, audits, blobs, raced, sweep, active, mishaps>>

\* ResourceExistsError: somebody else has stored it meanwhile.
Upload(o) ==
  /\ request[o] = "missing"
  /\ blobs' = blobs \cup {ContentOf[o]}
  /\ request' = [request EXCEPT ![o] = "stored"]
  /\ UNCHANGED <<row, policy, audits, raced, sweep, active, mishaps>>

AboutToDelete(content) == \E s \in Sweep :
  /\ sweep[s].pc = "blob"
  /\ \E a \in sweep[s].object : ContentOf[a] = content
ReadyToInsert(o) == request[o] = (IF o \in Asset THEN "stored" ELSE "none")

\* Object, taxonomy and policy row in one statement, then the commit; 422 when
\* a row that it references is not there.
Insert(o) ==
  LET exist == \A p \in Parents[o] : row[p] = "live" IN
  /\ ReadyToInsert(o)
  /\ Parents[o] \cap Deleting = {}
  /\ request' = [request EXCEPT ![o] = IF exist THEN "answered" ELSE "failed"]
  /\ row' = IF exist THEN [row EXCEPT ![o] = "live"] ELSE row
  /\ policy' = IF exist THEN [policy EXCEPT ![o] = "kept"] ELSE policy
  /\ raced' = raced \cup {a \in {o} \cap Asset : AboutToDelete(ContentOf[a])}
  /\ UNCHANGED <<audits, blobs, sweep, active, mishaps>>

\* The INSERT raises, or the process dies: what was uploaded stays.
InsertFails(o) ==
  /\ request[o] = "stored"
  /\ Mishap("insert_fails")
  /\ request' = [request EXCEPT ![o] = "failed"]
  /\ UNCHANGED <<row, policy, audits, blobs, raced, sweep, active>>

Create(o) == FindBlob(o) \/ Upload(o) \/ Insert(o) \/ InsertFails(o)

-----------------------------------------------------------------------------
(* DELETE /{type}/{id}, and the clock *)

\* One statement: policy row and blob stay.  A foreign key refuses it (500).
Drop(o) ==
  /\ row[o] = "live" /\ o \notin Deleting
  /\ Children(o) = {}
  /\ row' = [row EXCEPT ![o] = "dropped"]
  /\ UNCHANGED <<request, policy, audits, blobs, raced, sweep, active, mishaps>>

\* expires_at passes, which that of a legal hold never does.
Expire(o) ==
  /\ policy[o] = "kept" /\ o \notin Held
  /\ policy' = [policy EXCEPT ![o] = "due"]
  /\ UNCHANGED <<row, request, audits, blobs, raced, sweep, active, mishaps>>

-----------------------------------------------------------------------------
(* run_retention_expiry *)

Due == {o \in Object : policy[o] = "due"}

\* Definitions named "Bug..." are seeded bugs, used by no behaviour.
BugSelectExpired(s) ==
  /\ s \in active /\ sweep[s].pc = "idle"
  /\ sweep' = [sweep EXCEPT
       ![s] = [Idle EXCEPT !.pc = "loop", !.batch = Due, !.todo = Due]]
  /\ UNCHANGED <<objectVars, blobs, raced, active, mishaps>>

\* A retention_run row; then SELECT ... FOR UPDATE SKIP LOCKED in the outer
\* transaction, which keeps the locks to its end.
SelectExpired(s) ==
  LET locked == UNION {sweep[t].batch : t \in Sweep} IN
  /\ s \in active /\ sweep[s].pc = "idle"
  /\ sweep' = [sweep EXCEPT
       ![s] = [Idle EXCEPT !.pc = "loop", !.batch = Due \ locked, !.todo = Due \ locked]]
  /\ UNCHANGED <<objectVars, blobs, raced, active, mishaps>>

Sees(s, o) == row[o] = "live" /\ o \notin sweep[s].gone

BugSharers(s, o) ==
  {a \in Asset : ContentOf[a] = ContentOf[o] /\ Sees(s, a)}

\* The other rows with the same content_hash.
Sharers(s, o) ==
  {a \in Asset \ {o} : ContentOf[a] = ContentOf[o] /\ Sees(s, a)}

BugCountReferences(s, o) ==
  /\ sweep[s].pc = "loop" /\ o \in sweep[s].todo
  /\ sweep' = [sweep EXCEPT
       ![s].pc = IF o \in Asset /\ Sees(s, o) THEN "blob" ELSE "row",
       ![s].object = {o}]
  /\ UNCHANGED <<objectVars, blobs, raced, active, mishaps>>

\* The next row of the batch, which has no order.  Its blob goes if it is an
\* asset whose row is there and no other row has its content.
CountReferences(s, o) ==
  /\ sweep[s].pc = "loop" /\ o \in sweep[s].todo
  /\ sweep' = [sweep EXCEPT
       ![s].pc = IF o \in Asset /\ Sees(s, o) /\ Sharers(s, o) = {} THEN "blob" ELSE "row",
       ![s].object = {o}]
  /\ UNCHANGED <<objectVars, blobs, raced, active, mishaps>>

Pull(content) ==
  /\ blobs' = blobs \ {content}
  /\ raced' = raced \cup {a \in Asset : ContentOf[a] = content /\ request[a] = "stored"}

DeleteBlob(s, o) ==
  /\ sweep[s].pc = "blob" /\ sweep[s].object = {o}
  /\ Pull(ContentOf[o])
  /\ sweep' = [sweep EXCEPT ![s].pc = "row"]
  /\ UNCHANGED <<objectVars, active, mishaps>>

\* It raises, before or after it took effect: retention_deletion_failed is
\* written in a transaction of its own, the row is left for the next sweep.
BlobFails(s, o) ==
  /\ sweep[s].pc = "blob" /\ sweep[s].object = {o}
  /\ Mishap("blob_fails")
  /\ Pull(ContentOf[o]) \/ UNCHANGED <<blobs, raced>>
  /\ sweep' = [sweep EXCEPT ![s].pc = "loop", ![s].todo = @ \ {o}]
  /\ UNCHANGED <<objectVars, active>>

\* The outer transaction rolls back; its retention_run row stays "running".
RollBack(s) == sweep' = [sweep EXCEPT ![s] = Idle] /\ UNCHANGED objectVars

BugDeleteRow(s, o) ==
  /\ sweep[s].pc = "row" /\ sweep[s].object = {o}
  /\ Children(o) \cap (Deleting \ sweep[s].gone) = {}
  /\ IF Children(o) \subseteq sweep[s].gone
     THEN sweep' = [sweep EXCEPT ![s].pc = "loop", ![s].todo = @ \ {o},
                      ![s].gone = IF Sees(s, o) THEN @ \cup {o} ELSE @]
     ELSE sweep' = [sweep EXCEPT ![s] = Idle]
  /\ UNCHANGED <<objectVars, blobs, raced, active, mishaps>>

\* The savepoint: DELETE, deleted_at, audit row.  A row that still references
\* this one makes the DELETE raise, which nothing catches.
DeleteRow(s, o) ==
  /\ sweep[s].pc = "row" /\ sweep[s].object = {o}
  /\ Children(o) \cap (Deleting \ sweep[s].gone) = {}
  /\ IF Children(o) \subseteq sweep[s].gone
     THEN sweep' = [sweep EXCEPT ![s].pc = "loop", ![s].todo = @ \ {o},
                                 ![s].gone = @ \cup {o}]
     ELSE RollBack(s)
  /\ UNCHANGED <<objectVars, blobs, raced, active, mishaps>>

\* The end of the outer transaction.
Commit(s) ==
  LET gone == sweep[s].gone IN
  /\ sweep[s].pc = "loop" /\ sweep[s].todo = {}
  /\ row' = [o \in Object |-> IF o \in gone /\ row[o] = "live" THEN "erased" ELSE row[o]]
  /\ policy' = [o \in Object |-> IF o \in gone THEN "done" ELSE policy[o]]
  /\ audits' = [o \in Object |-> IF o \in gone THEN audits[o] + 1 ELSE audits[o]]
  /\ sweep' = [sweep EXCEPT ![s] = Idle]
  /\ UNCHANGED <<request, blobs, raced, active, mishaps>>

\* The process dies, its session ends, or the database picks it as the victim
\* of a deadlock.
SweepDies(s) ==
  /\ sweep[s].pc # "idle"
  /\ Mishap("sweep_dies")
  /\ RollBack(s)
  /\ UNCHANGED <<blobs, raced, active>>

SweepStep(s) ==
  \/ SelectExpired(s)
  \/ \E o \in Object : CountReferences(s, o) \/ DeleteBlob(s, o) \/ DeleteRow(s, o)
  \/ Commit(s)

-----------------------------------------------------------------------------
Next ==
  \/ \E o \in Object : Create(o) \/ Drop(o) \/ Expire(o)
  \/ \E s \in Sweep : SweepStep(s) \/ SweepDies(s) \/ \E o \in Object : BlobFails(s, o)

Spec == Init /\ [][Next]_vars

\* The job, or a POST /retention-expiry-runs, is started again and again.
FairSpec == Spec /\ \A s \in Sweep : WF_vars(SweepStep(s))

-----------------------------------------------------------------------------
(* Properties *)

\* retention.py, properties 2 and 3: an object that a sweep has deleted has
\* exactly one retention_deletion row, one that is still there has none, with
\* any number of concurrent sweeps and wherever one of them dies.
AuditedOnce ==
  \A o \in Object :
    /\ audits[o] = (IF policy[o] = "done" THEN 1 ELSE 0)
    /\ row[o] = "erased" => policy[o] = "done"
    /\ policy[o] = "done" => row[o] \in {"erased", "dropped"}

\* storage.py, "dedup-safe deletion": no sweep takes the content of an asset
\* that is to be kept, whatever it shares it with, rolls back or leaves to the
\* next sweep; save when the asset was created while a sweep that had counted
\* before was about to delete what its request had found.
KeptContentStays ==
  \A a \in Asset :
    row[a] = "live" /\ policy[a] = "kept" /\ a \notin raced => ContentOf[a] \in blobs

\* retention.py, property 1: where sweeps run one at a time, the content of a
\* deleted asset is gone, unless another row or request still has it, or one
\* that left it behind: a DELETE of the API or a failed creation.
ErasedContentIsGone ==
  Cardinality(active) = 1 =>
    \A o \in Asset : policy[o] = "done" /\ ContentOf[o] \in blobs =>
      \E a \in Asset :
        /\ ContentOf[a] = ContentOf[o]
        /\ row[a] \in {"live", "dropped"} \/ request[a] \in {"stored", "failed"}

\* Every expired object is deleted sooner or later, if sweeps are started for
\* ever and from some time on nothing references an expired object.
Blocked == \E o \in Due : row[o] = "live" /\ Children(o) # {}
UnblockedIsSwept ==
  <>[]~Blocked => \A o \in Object : policy[o] = "due" ~> policy[o] = "done"

\* run_retention_expiry "Sweeps every vault_internal.retention_policy row past
\* its expires_at, deletes the underlying object".
EveryExpiredIsSwept ==
  \A o \in Object : policy[o] = "due" ~> policy[o] = "done"
=============================================================================
