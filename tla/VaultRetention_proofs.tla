------------------------ MODULE VaultRetention_proofs ------------------------
(***************************************************************************)
(* Theorems about VaultRetention for any set of objects, references among  *)
(* them, contents and sweeps: a deletion is audited once, the content of   *)
(* an asset that is to be kept stays, and content that nothing has is gone.*)
(***************************************************************************)
EXTENDS VaultRetention, FiniteSetTheorems, TLAPS

RowStates == {"absent", "live", "dropped", "erased"}
RequestStates == {"none", "missing", "stored", "answered", "failed"}
PolicyStates == {"none", "kept", "due", "done"}
SweepRow == [pc : {"idle", "loop", "blob", "row"}, batch : SUBSET Object,
             todo : SUBSET Object, gone : SUBSET Object, object : SUBSET Object]

VaultTypeOK ==
  /\ row \in [Object -> RowStates]
  /\ request \in [Object -> RequestStates]
  /\ policy \in [Object -> PolicyStates]
  /\ audits \in [Object -> Nat]
  /\ raced \subseteq Asset
  /\ sweep \in [Sweep -> SweepRow]

\* What request, row, policy and audit rows of an object say of each other.
Accounted(o) ==
  /\ request[o] # "answered" => row[o] = "absent"
  /\ row[o] = "absent" <=> policy[o] = "none"
  /\ audits[o] = (IF policy[o] = "done" THEN 1 ELSE 0)
  /\ row[o] = "erased" => policy[o] = "done"
  /\ policy[o] = "done" => row[o] \in {"erased", "dropped"}

\* What a sweep holds is due, and no other sweep holds it.
LockedRows(s) ==
  /\ sweep[s].batch \subseteq Due
  /\ sweep[s].todo \subseteq sweep[s].batch
  /\ sweep[s].gone \subseteq sweep[s].batch
  /\ sweep[s].object \subseteq sweep[s].batch
Apart == \A s, t : s \in Sweep /\ t \in Sweep /\ s # t =>
           sweep[s].batch \cap sweep[t].batch = {}

\* Why content stays: whoever relied on it before a deletion was counted, or
\* raced with it.
Relied(a) ==
  /\ row[a] = "live" /\ policy[a] = "kept" /\ a \notin raced => ContentOf[a] \in blobs
  /\ request[a] = "stored" /\ a \notin raced => ContentOf[a] \in blobs
Counted(s) ==
  sweep[s].pc = "blob" =>
    \A o \in sweep[s].object \cap Asset : \A a \in Asset :
      ContentOf[a] = ContentOf[o] /\ row[a] = "live" /\ policy[a] = "kept" => a \in raced
BlobOfAsset(s) == sweep[s].pc = "blob" => sweep[s].object \subseteq Asset

AuditInv ==
  /\ VaultTypeOK
  /\ \A o \in Object : Accounted(o)
  /\ \A s \in Sweep : LockedRows(s)
  /\ Apart

ContentInv ==
  /\ \A a \in Asset : Relied(a)
  /\ \A s \in Sweep : Counted(s) /\ BlobOfAsset(s)

-----------------------------------------------------------------------------
(* Rows, policies and audit rows *)

LEMMA IdleTyped == Idle \in SweepRow /\ Idle.batch = {} /\ Idle.todo = {}
                   /\ Idle.gone = {} /\ Idle.object = {} /\ Idle.pc = "idle"
BY DEF Idle, SweepRow

\* A step of one sweep that leaves the rows alone and locks nothing that is
\* not due or that another sweep holds.
LEMMA SweepKeeps ==
  ASSUME AuditInv, NEW s \in Sweep, UNCHANGED objectVars, raced' \subseteq Asset,
         sweep' \in [Sweep -> SweepRow],
         \A t \in Sweep : t # s => sweep'[t] = sweep[t],
         sweep'[s].batch \subseteq Due,
         \A t \in Sweep : t # s => sweep'[s].batch \cap sweep[t].batch = {},
         sweep'[s].todo \subseteq sweep'[s].batch, sweep'[s].gone \subseteq sweep'[s].batch,
         sweep'[s].object \subseteq sweep'[s].batch
  PROVE  AuditInv'
<1>1. VaultTypeOK'
  BY DEF AuditInv, VaultTypeOK, objectVars
<1>2. \A o \in Object : Accounted(o)'
  BY DEF AuditInv, Accounted, objectVars
<1>3. Due' = Due
  BY DEF Due, objectVars
<1>4. \A t \in Sweep : LockedRows(t)'
  BY <1>3 DEF AuditInv, LockedRows
<1>5. Apart'
  BY DEF AuditInv, Apart
<1> QED BY <1>1, <1>2, <1>4, <1>5 DEF AuditInv

\* A step that leaves the sweeps alone and nothing due otherwise than before.
LEMMA RequestKeeps ==
  ASSUME AuditInv, VaultTypeOK', UNCHANGED sweep, Due \subseteq Due',
         \A o \in Object : Accounted(o)'
  PROVE  AuditInv'
BY DEF AuditInv, LockedRows, Apart

LEMMA FindBlobAudit ==
  ASSUME AuditInv, NEW o \in Object, FindBlob(o)
  PROVE  AuditInv'
<1>1. VaultTypeOK'
  BY DEF AuditInv, VaultTypeOK, FindBlob, RequestStates
<1>2. \A p \in Object : Accounted(p)'
  BY DEF AuditInv, VaultTypeOK, Accounted, FindBlob
<1> QED BY <1>1, <1>2, RequestKeeps DEF FindBlob, Due

LEMMA UploadAudit ==
  ASSUME AuditInv, NEW o \in Object, Upload(o) \/ InsertFails(o)
  PROVE  AuditInv'
<1>1. VaultTypeOK'
  BY DEF AuditInv, VaultTypeOK, Upload, InsertFails, RequestStates
<1>2. \A p \in Object : Accounted(p)'
  BY DEF AuditInv, VaultTypeOK, Accounted, Upload, InsertFails
<1> QED BY <1>1, <1>2, RequestKeeps DEF Upload, InsertFails, Due

LEMMA InsertAudit ==
  ASSUME AuditInv, NEW o \in Object, Insert(o)
  PROVE  AuditInv'
<1>1. VaultTypeOK'
  BY DEF AuditInv, VaultTypeOK, Insert, RequestStates, RowStates, PolicyStates
<1>2. row[o] = "absent" /\ policy[o] = "none" /\ audits[o] = 0
  BY DEF AuditInv, Accounted, Insert, ReadyToInsert
<1>3. \A p \in Object : Accounted(p)'
  <2>1. Accounted(o)'
    BY <1>2 DEF AuditInv, VaultTypeOK, Accounted, Insert
  <2>2. \A p \in Object : p # o => Accounted(p)'
    BY DEF AuditInv, VaultTypeOK, Accounted, Insert
  <2> QED BY <2>1, <2>2
<1>4. Due \subseteq Due'
  BY <1>2 DEF Due, Insert, AuditInv, VaultTypeOK
<1> QED BY <1>1, <1>3, <1>4, RequestKeeps DEF Insert

LEMMA DropAudit ==
  ASSUME AuditInv, NEW o \in Object, Drop(o)
  PROVE  AuditInv'
<1>1. VaultTypeOK'
  BY DEF AuditInv, VaultTypeOK, Drop, RowStates
<1>2. \A p \in Object : Accounted(p)'
  BY DEF AuditInv, VaultTypeOK, Accounted, Drop
<1> QED BY <1>1, <1>2, RequestKeeps DEF Drop, Due

LEMMA ExpireAudit ==
  ASSUME AuditInv, NEW o \in Object, Expire(o)
  PROVE  AuditInv'
<1>1. VaultTypeOK'
  BY DEF AuditInv, VaultTypeOK, Expire, PolicyStates
<1>2. \A p \in Object : Accounted(p)'
  BY DEF AuditInv, VaultTypeOK, Accounted, Expire
<1>3. Due \subseteq Due'
  BY DEF Due, Expire, AuditInv, VaultTypeOK
<1> QED BY <1>1, <1>2, <1>3, RequestKeeps DEF Expire

LEMMA SelectAudit ==
  ASSUME AuditInv, NEW s \in Sweep, SelectExpired(s)
  PROVE  AuditInv'
<1> DEFINE locked == UNION {sweep[t].batch : t \in Sweep}
           new == [Idle EXCEPT !.pc = "loop", !.batch = Due \ locked, !.todo = Due \ locked]
<1>1. /\ new \in SweepRow
      /\ new.batch = Due \ locked /\ new.todo = Due \ locked
      /\ new.gone = {} /\ new.object = {}
  BY DEF Idle, SweepRow, Due
<1>2. \A t \in Sweep : new.batch \cap sweep[t].batch = {}
  BY <1>1
<1>3. sweep' = [sweep EXCEPT ![s] = new] /\ UNCHANGED objectVars /\ raced' = raced
  BY DEF SelectExpired
<1> HIDE DEF new
<1>4. sweep' \in [Sweep -> SweepRow] /\ sweep'[s] = new
      /\ \A t \in Sweep : t # s => sweep'[t] = sweep[t]
  BY <1>1, <1>3 DEF AuditInv, VaultTypeOK
<1> QED BY <1>1, <1>2, <1>3, <1>4, SweepKeeps DEF AuditInv, VaultTypeOK

\* The steps that keep what the sweep has locked.
LEMMA RowStepAudit ==
  ASSUME AuditInv, NEW s \in Sweep, NEW o \in Object,
         CountReferences(s, o) \/ DeleteBlob(s, o) \/ BlobFails(s, o)
  PROVE  AuditInv'
<1>1. /\ sweep' \in [Sweep -> SweepRow]
      /\ \A t \in Sweep : t # s => sweep'[t] = sweep[t]
      /\ sweep'[s].batch = sweep[s].batch /\ sweep'[s].gone = sweep[s].gone
      /\ sweep'[s].todo \subseteq sweep[s].todo
      /\ sweep'[s].object \subseteq sweep[s].object \cup sweep[s].todo
  BY DEF AuditInv, VaultTypeOK, SweepRow, CountReferences, DeleteBlob, BlobFails
<1>2. UNCHANGED objectVars /\ raced' \subseteq Asset
  BY DEF AuditInv, VaultTypeOK, CountReferences, DeleteBlob, BlobFails, Pull
<1> QED BY <1>1, <1>2, SweepKeeps DEF AuditInv, LockedRows, Apart

LEMMA RollBackAudit ==
  ASSUME AuditInv, NEW s \in Sweep, RollBack(s), raced' = raced
  PROVE  AuditInv'
<1>1. sweep' \in [Sweep -> SweepRow] /\ sweep'[s] = Idle
      /\ \A t \in Sweep : t # s => sweep'[t] = sweep[t]
  BY IdleTyped DEF AuditInv, VaultTypeOK, RollBack
<1> QED BY <1>1, IdleTyped, SweepKeeps DEF AuditInv, VaultTypeOK, RollBack

LEMMA DeleteRowAudit ==
  ASSUME AuditInv, NEW s \in Sweep, NEW o \in Object, DeleteRow(s, o)
  PROVE  AuditInv'
<1>1. UNCHANGED objectVars /\ raced' = raced
  BY DEF DeleteRow
<1>2. CASE RollBack(s)
  BY <1>1, <1>2, RollBackAudit
<1>3. CASE sweep' = [sweep EXCEPT ![s].pc = "loop", ![s].todo = @ \ {o},
                                  ![s].gone = @ \cup {o}]
  <2>1. /\ sweep' \in [Sweep -> SweepRow]
        /\ \A t \in Sweep : t # s => sweep'[t] = sweep[t]
        /\ sweep'[s].batch = sweep[s].batch /\ sweep'[s].object = sweep[s].object
        /\ sweep'[s].todo = sweep[s].todo \ {o}
        /\ sweep'[s].gone = sweep[s].gone \cup {o}
    <3> DEFINE next == [sweep[s] EXCEPT !.pc = "loop", !.todo = @ \ {o},
                                        !.gone = @ \cup {o}]
    <3>1. sweep \in [Sweep -> SweepRow] /\ sweep[s] \in SweepRow
      BY DEF AuditInv, VaultTypeOK
    <3>2. sweep' = [sweep EXCEPT ![s] = next]
      BY <1>3
    <3>3. /\ next \in SweepRow
          /\ next.batch = sweep[s].batch /\ next.object = sweep[s].object
          /\ next.todo = sweep[s].todo \ {o} /\ next.gone = sweep[s].gone \cup {o}
      BY <3>1 DEF SweepRow
    <3> HIDE DEF next
    <3> QED
      BY <3>1, <3>2, <3>3
  <2>2. o \in sweep[s].batch
    BY DEF DeleteRow, AuditInv, LockedRows
  <2>3. /\ sweep'[s].batch \subseteq Due /\ sweep'[s].todo \subseteq sweep'[s].batch
        /\ sweep'[s].gone \subseteq sweep'[s].batch
        /\ sweep'[s].object \subseteq sweep'[s].batch
    BY <2>1, <2>2 DEF AuditInv, LockedRows
  <2>4. \A t \in Sweep : t # s => sweep'[s].batch \cap sweep[t].batch = {}
    BY <2>1 DEF AuditInv, Apart
  <2> QED BY <1>1, <2>1, <2>3, <2>4, SweepKeeps DEF AuditInv, VaultTypeOK
<1> QED BY <1>2, <1>3 DEF DeleteRow

LEMMA CommitAudit ==
  ASSUME AuditInv, NEW s \in Sweep, Commit(s)
  PROVE  AuditInv'
<1>1. sweep' \in [Sweep -> SweepRow] /\ sweep'[s] = Idle
      /\ \A t \in Sweep : t # s => sweep'[t] = sweep[t]
  BY IdleTyped DEF AuditInv, VaultTypeOK, Commit
<1>2. VaultTypeOK'
  BY <1>1 DEF AuditInv, VaultTypeOK, Commit, RowStates, PolicyStates
<1>3. \A o \in sweep[s].gone : policy[o] = "due"
  BY DEF AuditInv, LockedRows, Due
<1>4. \A o \in Object : Accounted(o)'
  <2>1. ASSUME NEW o \in Object, o \in sweep[s].gone PROVE Accounted(o)'
    <3>1. /\ policy[o] = "due" /\ audits[o] = 0
          /\ row[o] \in {"live", "dropped"} /\ request[o] = "answered"
      BY <1>3, <2>1 DEF AuditInv, Accounted, VaultTypeOK, RowStates
    <3>2. policy'[o] = "done" /\ audits'[o] = 1 /\ request'[o] = "answered"
          /\ row'[o] \in {"erased", "dropped"}
      BY <2>1, <3>1 DEF Commit
    <3> QED BY <3>2 DEF Accounted
  <2>2. ASSUME NEW o \in Object, o \notin sweep[s].gone PROVE Accounted(o)'
    BY <2>2 DEF AuditInv, Accounted, Commit
  <2> QED BY <2>1, <2>2
<1>5. \A t \in Sweep : LockedRows(t)'
  <2>1. \A t \in Sweep : t # s => sweep[t].batch \subseteq Due'
    BY DEF AuditInv, LockedRows, Apart, Due, Commit
  <2>2. LockedRows(s)'
    BY <1>1, IdleTyped DEF LockedRows
  <2> QED BY <1>1, <2>1, <2>2 DEF AuditInv, LockedRows
<1>6. Apart'
  BY <1>1, IdleTyped DEF AuditInv, Apart
<1> QED BY <1>2, <1>4, <1>5, <1>6 DEF AuditInv

LEMMA AuditStep ==
  ASSUME AuditInv, [Next]_vars
  PROVE  AuditInv'
<1>1. CASE UNCHANGED vars
  BY <1>1 DEF vars, objectVars, AuditInv, VaultTypeOK, Accounted, LockedRows, Apart, Due
<1>2. ASSUME NEW s \in Sweep, SweepDies(s) PROVE AuditInv'
  BY <1>2, RollBackAudit DEF SweepDies
<1> QED BY <1>1, <1>2, FindBlobAudit, UploadAudit, InsertAudit, DropAudit, ExpireAudit,
           SelectAudit, RowStepAudit, DeleteRowAudit, CommitAudit
        DEF Next, Create, SweepStep

LEMMA AuditInvariant == Spec => []AuditInv
<1>1. Init => AuditInv
  BY IdleTyped DEF Init, AuditInv, VaultTypeOK, Accounted, LockedRows, Apart,
     RowStates, RequestStates, PolicyStates
<1> QED BY <1>1, AuditStep, PTL DEF Spec

\* retention.py: with any number of concurrent sweeps over any objects, a sweep
\* that dies or rolls back included, every object that was deleted has one
\* retention_deletion row and every other object none.
THEOREM DeletionAudited == Spec => []AuditedOnce
<1>1. AuditInv => AuditedOnce
  BY DEF AuditInv, Accounted, AuditedOnce
<1> QED BY <1>1, AuditInvariant, PTL

-----------------------------------------------------------------------------
(* Content *)

\* A step that adds no reliance on content and deletes none of it.
LEMMA ContentKeeps ==
  ASSUME ContentInv, blobs \subseteq blobs', raced \subseteq raced',
         \A a \in Asset : request'[a] = "stored" => request[a] = "stored",
         \A a \in Asset : row'[a] = "live" /\ policy'[a] = "kept" =>
                            row[a] = "live" /\ policy[a] = "kept",
         \A s \in Sweep : sweep'[s].pc = "blob" =>
                            sweep[s].pc = "blob" /\ sweep'[s].object = sweep[s].object
  PROVE  ContentInv'
BY DEF ContentInv, Relied, Counted, BlobOfAsset

LEMMA FindBlobContent ==
  ASSUME AuditInv, ContentInv, NEW o \in Object, FindBlob(o) \/ Upload(o)
  PROVE  ContentInv'
<1>1. /\ \A a \in Asset : a # o => request'[a] = request[a]
      /\ o \in Asset /\ request'[o] = "stored" => ContentOf[o] \in blobs'
      /\ blobs \subseteq blobs'
  BY VaultAssumption DEF FindBlob, Upload, AuditInv, VaultTypeOK, VaultAssumption
<1>2. UNCHANGED <<row, policy, raced, sweep>>
  BY DEF FindBlob, Upload
<1>3. \A a \in Asset : Relied(a)'
  BY <1>1, <1>2 DEF ContentInv, Relied
<1> QED BY <1>2, <1>3 DEF ContentInv, Counted, BlobOfAsset

LEMMA InsertContent ==
  ASSUME AuditInv, ContentInv, NEW o \in Object, Insert(o)
  PROVE  ContentInv'
<1>1. /\ \A a \in Object : a # o => row'[a] = row[a] /\ policy'[a] = policy[a]
                                    /\ request'[a] = request[a]
      /\ request'[o] # "stored"
  BY DEF Insert, AuditInv, VaultTypeOK
<1>2. UNCHANGED <<blobs, sweep>> /\ raced \subseteq raced'
  BY DEF Insert
<1>3. ASSUME NEW a \in Asset PROVE Relied(a)'
  <2>1. CASE a # o
    BY <1>1, <1>2, <2>1, VaultAssumption DEF ContentInv, Relied, VaultAssumption
  <2>2. CASE a = o
    <3>1. request[o] = "stored"
      BY <2>2 DEF Insert, ReadyToInsert
    <3> QED BY <1>1, <1>2, <2>2, <3>1 DEF ContentInv, Relied
  <2> QED BY <2>1, <2>2
<1>4. ASSUME NEW s \in Sweep PROVE Counted(s)'
  <2> SUFFICES ASSUME sweep[s].pc = "blob", NEW p \in sweep[s].object \cap Asset,
                      NEW a \in Asset, ContentOf[a] = ContentOf[p],
                      row'[a] = "live", policy'[a] = "kept"
               PROVE  a \in raced'
    BY <1>2 DEF Counted
  <2>1. CASE a # o
    BY <1>1, <1>2, <2>1, VaultAssumption DEF ContentInv, Counted, VaultAssumption
  <2>2. CASE a = o
    BY <2>2 DEF Insert, AboutToDelete
  <2> QED BY <2>1, <2>2
<1>5. \A s \in Sweep : BlobOfAsset(s)'
  BY <1>2 DEF ContentInv, BlobOfAsset
<1> QED BY <1>3, <1>4, <1>5 DEF ContentInv

\* Who shares the content of the object that was counted is in the batch: due.
LEMMA CountContent ==
  ASSUME AuditInv, ContentInv, NEW s \in Sweep, NEW o \in Object, CountReferences(s, o)
  PROVE  ContentInv'
<1>1. /\ \A t \in Sweep : t # s => sweep'[t] = sweep[t]
      /\ sweep'[s].object = {o}
      /\ sweep'[s].pc = "blob" => o \in Asset /\ Sharers(s, o) = {}
  BY DEF CountReferences, AuditInv, VaultTypeOK, SweepRow
<1>2. UNCHANGED <<row, policy, request, blobs, raced>>
  BY DEF CountReferences, objectVars
<1>3. \A a \in sweep[s].gone \cup {o} : policy[a] = "due"
  BY DEF CountReferences, AuditInv, LockedRows, Due
<1>4. Counted(s)' /\ BlobOfAsset(s)'
  BY <1>1, <1>2, <1>3 DEF Counted, BlobOfAsset, Sharers, Sees
<1>5. \A t \in Sweep : t # s => Counted(t)' /\ BlobOfAsset(t)'
  BY <1>1, <1>2 DEF ContentInv, Counted, BlobOfAsset
<1>6. \A a \in Asset : Relied(a)'
  BY <1>2 DEF ContentInv, Relied
<1> QED BY <1>4, <1>5, <1>6 DEF ContentInv

LEMMA PullContent ==
  ASSUME AuditInv, ContentInv, NEW s \in Sweep, NEW o \in Object,
         DeleteBlob(s, o) \/ BlobFails(s, o), Pull(ContentOf[o])
  PROVE  ContentInv'
<1>1. /\ sweep[s].pc = "blob" /\ sweep[s].object = {o} /\ UNCHANGED objectVars
      /\ \A t \in Sweep : t # s => sweep'[t] = sweep[t]
      /\ sweep'[s].pc # "blob"
  BY DEF DeleteBlob, BlobFails, AuditInv, VaultTypeOK, SweepRow
<1>2. o \in Asset
  BY <1>1 DEF ContentInv, BlobOfAsset
<1>3. raced \subseteq raced'
  BY DEF Pull
<1>4. ASSUME NEW a \in Asset PROVE Relied(a)'
  <2>1. CASE ContentOf[a] = ContentOf[o]
    <3>1. row[a] = "live" /\ policy[a] = "kept" => a \in raced
      BY <1>1, <1>2, <2>1 DEF ContentInv, Counted
    <3>2. request[a] = "stored" => a \in raced'
      BY <2>1 DEF Pull
    <3> QED BY <1>1, <1>3, <3>1, <3>2 DEF Relied, objectVars
  <2>2. CASE ContentOf[a] # ContentOf[o]
    BY <1>1, <1>3, <2>2 DEF Relied, ContentInv, Pull, objectVars
  <2> QED BY <2>1, <2>2
<1>5. \A t \in Sweep : Counted(t)' /\ BlobOfAsset(t)'
  BY <1>1, <1>3 DEF ContentInv, Counted, BlobOfAsset, objectVars
<1> QED BY <1>4, <1>5 DEF ContentInv

LEMMA BlobLeftContent ==
  ASSUME AuditInv, ContentInv, NEW s \in Sweep, NEW o \in Object,
         BlobFails(s, o), UNCHANGED <<blobs, raced>>
  PROVE  ContentInv'
<1>1. \A t \in Sweep : sweep'[t].pc = "blob" => sweep'[t] = sweep[t]
  BY DEF BlobFails, AuditInv, VaultTypeOK, SweepRow
<1> QED BY <1>1, ContentKeeps DEF BlobFails, objectVars

LEMMA DeleteRowContent ==
  ASSUME AuditInv, ContentInv, NEW s \in Sweep, NEW o \in Object, DeleteRow(s, o)
  PROVE  ContentInv'
<1>1. UNCHANGED <<objectVars, blobs, raced>>
  BY DEF DeleteRow
<1>2. \A t \in Sweep : sweep'[t].pc = "blob" => sweep'[t] = sweep[t]
  <2>1. CASE RollBack(s)
    BY <2>1, IdleTyped DEF RollBack, AuditInv, VaultTypeOK
  <2>2. CASE ~RollBack(s)
    BY <2>2 DEF DeleteRow, AuditInv, VaultTypeOK, SweepRow
  <2> QED BY <2>1, <2>2
<1> QED BY <1>1, <1>2, ContentKeeps DEF objectVars

LEMMA CommitContent ==
  ASSUME AuditInv, ContentInv, NEW s \in Sweep, Commit(s)
  PROVE  ContentInv'
<1>1. \A t \in Sweep : sweep'[t].pc = "blob" =>
        sweep[t].pc = "blob" /\ sweep'[t].object = sweep[t].object
  BY IdleTyped DEF Commit, AuditInv, VaultTypeOK
<1>2. \A a \in Object : row'[a] = "live" /\ policy'[a] = "kept" =>
        row[a] = "live" /\ policy[a] = "kept"
  BY DEF Commit, AuditInv, VaultTypeOK
<1> QED BY <1>1, <1>2, ContentKeeps, VaultAssumption DEF Commit, VaultAssumption

LEMMA DropExpireContent ==
  ASSUME AuditInv, ContentInv, NEW o \in Object, Drop(o) \/ Expire(o) \/ InsertFails(o)
  PROVE  ContentInv'
<1>1. /\ \A a \in Object : row'[a] = "live" /\ policy'[a] = "kept" =>
           row[a] = "live" /\ policy[a] = "kept"
      /\ \A a \in Object : request'[a] = "stored" => request[a] = "stored"
      /\ UNCHANGED <<blobs, raced, sweep>>
  BY DEF Drop, Expire, InsertFails, AuditInv, VaultTypeOK
<1> QED BY <1>1, ContentKeeps, VaultAssumption DEF VaultAssumption

LEMMA ContentStep ==
  ASSUME AuditInv, ContentInv, [Next]_vars
  PROVE  ContentInv'
<1>1. CASE UNCHANGED vars
  BY <1>1 DEF vars, objectVars, ContentInv, Relied, Counted, BlobOfAsset
<1>2. ASSUME NEW o \in Object, Create(o) \/ Drop(o) \/ Expire(o) PROVE ContentInv'
  BY <1>2, FindBlobContent, InsertContent, DropExpireContent DEF Create
<1>3. ASSUME NEW s \in Sweep, NEW o \in Object,
             CountReferences(s, o) \/ DeleteBlob(s, o) \/ BlobFails(s, o) \/ DeleteRow(s, o)
      PROVE  ContentInv'
  <2>1. CASE CountReferences(s, o)
    BY <2>1, CountContent
  <2>2. CASE DeleteBlob(s, o)
    BY <2>2, PullContent DEF DeleteBlob
  <2>3. CASE BlobFails(s, o)
    <3>1. Pull(ContentOf[o]) \/ UNCHANGED <<blobs, raced>>
      BY <2>3 DEF BlobFails
    <3> QED BY <2>3, <3>1, PullContent, BlobLeftContent
  <2>4. CASE DeleteRow(s, o)
    BY <2>4, DeleteRowContent
  <2> QED BY <1>3, <2>1, <2>2, <2>3, <2>4
<1>4. ASSUME NEW s \in Sweep, SelectExpired(s) \/ SweepDies(s) PROVE ContentInv'
  <2>1. UNCHANGED <<objectVars, blobs, raced>>
    BY <1>4 DEF SelectExpired, SweepDies, RollBack
  <2>2. \A t \in Sweep : sweep'[t].pc = "blob" =>
          sweep[t].pc = "blob" /\ sweep'[t].object = sweep[t].object
    <3>1. sweep \in [Sweep -> SweepRow]
      BY DEF AuditInv, VaultTypeOK
    <3>2. CASE SelectExpired(s)
      <4> DEFINE due == Due \ UNION {sweep[t].batch : t \in Sweep}
                 next == [Idle EXCEPT !.pc = "loop", !.batch = due, !.todo = due]
      <4>1. sweep' = [sweep EXCEPT ![s] = next] /\ next.pc = "loop"
        BY <3>2 DEF SelectExpired, Idle
      <4> HIDE DEF next
      <4>2. sweep'[s] = next /\ \A t \in Sweep : t # s => sweep'[t] = sweep[t]
        BY <3>1, <4>1
      <4> QED
        BY <4>1, <4>2
    <3>3. CASE SweepDies(s)
      <4>1. sweep' = [sweep EXCEPT ![s] = Idle]
        BY <3>3 DEF SweepDies, RollBack
      <4> QED
        BY <3>1, <4>1, IdleTyped
    <3> QED
      BY <1>4, <3>2, <3>3
  <2> QED BY <2>1, <2>2, ContentKeeps DEF objectVars
<1>5. ASSUME NEW s \in Sweep, Commit(s) PROVE ContentInv'
  BY <1>5, CommitContent
<1> QED BY <1>1, <1>2, <1>3, <1>4, <1>5 DEF Next, SweepStep

\* storage.py, "dedup-safe deletion": for any assets that share contents, no
\* sweep, however it fails, deletes what an asset that is to be kept has, unless
\* that asset was created while the deletion was already decided.
THEOREM ContentStays == Spec => []KeptContentStays
<1>1. Init => ContentInv
  BY IdleTyped, VaultAssumption DEF Init, ContentInv, Relied, Counted, BlobOfAsset,
     VaultAssumption
<1>2. ContentInv => KeptContentStays
  BY DEF ContentInv, Relied, KeptContentStays
<1> QED BY <1>1, <1>2, AuditInvariant, ContentStep, PTL DEF Spec

-----------------------------------------------------------------------------
(* Content that nothing has any more *)

\* What a sweep has deleted, or will delete as its next step.
Taken(s) == sweep[s].gone \cup (IF sweep[s].pc = "row" THEN sweep[s].object ELSE {})

\* Whoever has the content of an asset, or has left it behind.
Keeps(s, a) ==
  \/ row[a] = "live" /\ a \notin Taken(s)
  \/ row[a] = "dropped"
  \/ request[a] \in {"stored", "failed"}
Anchored(s) == \A c \in blobs : \E a \in Asset : ContentOf[a] = c /\ Keeps(s, a)

\* Sweeps that are not run hold nothing.
Resting == active \subseteq Sweep /\ \A s \in Sweep \ active : sweep[s] = Idle
OneAtATime == \A s, t : s \in active /\ t \in active => s = t
AssetsUpload == \A o \in Object : request[o] \in {"missing", "stored"} => o \in Asset
AnchorInv == AssetsUpload /\ Resting /\ (OneAtATime => \A s \in active : Anchored(s))

\* A step that stores nothing, and leaves what has a content to it.
LEMMA AnchorKeeps ==
  ASSUME NEW s, Anchored(s), blobs' \subseteq blobs,
         \A a \in Asset : Keeps(s, a) => Keeps(s, a)'
  PROVE  Anchored(s)'
BY DEF Anchored

\* A step of a request, the API or the clock: whatever the sweep is about to
\* take is in its batch, so it is there already, and due.
LEMMA ObjectAnchor ==
  ASSUME AuditInv, AssetsUpload, NEW s \in Sweep, Anchored(s), NEW o \in Object,
         Create(o) \/ Drop(o) \/ Expire(o)
  PROVE  Anchored(s)'
<1>1. sweep' = sweep /\ Taken(s)' = Taken(s)
  BY DEF Create, FindBlob, Upload, Insert, InsertFails, Drop, Expire, Taken
<1>2. Taken(s) \subseteq Due
  BY DEF AuditInv, LockedRows, Taken
<1>3. \A a \in Asset : a \in Object
  BY VaultAssumption DEF VaultAssumption
<1>4. /\ row \in [Object -> RowStates] /\ request \in [Object -> RequestStates]
      /\ \A a \in Due : row[a] # "absent"
      /\ \A a \in Object : request[a] = "stored" => row[a] = "absent"
  BY DEF AuditInv, VaultTypeOK, Accounted, Due
<1>5. CASE FindBlob(o) \/ Drop(o) \/ Expire(o) \/ InsertFails(o)
  <2>1. blobs' = blobs
    BY <1>5 DEF FindBlob, Drop, Expire, InsertFails
  <2>2. \A a \in Asset : Keeps(s, a) => Keeps(s, a)'
    BY <1>1, <1>3, <1>4, <1>5 DEF FindBlob, Drop, Expire, InsertFails, Keeps
  <2> QED BY <2>1, <2>2, AnchorKeeps
<1>6. CASE Upload(o)
  <2>1. o \in Asset /\ ContentOf[o] \in blobs' /\ blobs' = blobs \cup {ContentOf[o]}
        /\ request'[o] = "stored"
    <3>1. o \in Asset
      BY <1>6 DEF Upload, AssetsUpload
    <3> QED BY <1>4, <1>6, <3>1 DEF Upload
  <2>2. Keeps(s, o)'
    BY <2>1 DEF Keeps
  <2>3. \A a \in Asset : Keeps(s, a) => Keeps(s, a)'
    BY <1>1, <1>3, <1>4, <1>6 DEF Upload, Keeps
  <2> QED BY <2>1, <2>2, <2>3 DEF Anchored
<1>7. CASE Insert(o)
  <2>1. blobs' = blobs
    BY <1>7 DEF Insert
  <2>2. /\ \A a \in Object : a # o => row'[a] = row[a] /\ request'[a] = request[a]
        /\ row'[o] = "live" \/ (request'[o] = "failed" /\ row'[o] = row[o])
    BY <1>4, <1>7 DEF Insert
  <2>3. ASSUME o \in Asset PROVE row[o] = "absent" /\ o \notin Taken(s)
    <3>1. request[o] = "stored"
      BY <1>7, <2>3 DEF Insert, ReadyToInsert
    <3>2. row[o] = "absent"
      BY <1>4, <3>1
    <3>3. o \notin Due
      BY <1>4, <3>2
    <3> QED BY <1>2, <3>2, <3>3
  <2>4. ASSUME NEW a \in Asset, Keeps(s, a) PROVE Keeps(s, a)'
    BY <1>1, <1>3, <2>2, <2>3, <2>4 DEF Keeps
  <2> QED BY <2>1, <2>4, AnchorKeeps
<1> QED BY <1>5, <1>6, <1>7 DEF Create

\* An object that is not counted out has its content for itself, or shares it.
LEMMA CountAnchor ==
  ASSUME AuditInv, NEW s \in Sweep, Anchored(s), NEW o \in Object, CountReferences(s, o)
  PROVE  Anchored(s)'
<1>1. UNCHANGED <<row, request, blobs>>
  BY DEF CountReferences, objectVars
<1>2. /\ sweep[s].pc = "loop" /\ sweep'[s].gone = sweep[s].gone /\ sweep'[s].object = {o}
      /\ sweep'[s].pc = IF o \in Asset /\ Sees(s, o) /\ Sharers(s, o) = {} THEN "blob" ELSE "row"
  BY DEF CountReferences, AuditInv, VaultTypeOK, SweepRow
<1>3. CASE o \in Asset /\ Sees(s, o) /\ Sharers(s, o) = {}
  <2>1. Taken(s) = sweep[s].gone /\ Taken(s)' = sweep[s].gone
    BY <1>2, <1>3 DEF Taken
  <2> QED BY <1>1, <2>1, AnchorKeeps DEF Keeps
<1>4. CASE ~(o \in Asset /\ Sees(s, o) /\ Sharers(s, o) = {})
  <2>1. Taken(s) = sweep[s].gone /\ Taken(s)' = sweep[s].gone \cup {o}
    BY <1>2, <1>4 DEF Taken
  <2>2. ASSUME NEW c \in blobs
        PROVE  \E a \in Asset : ContentOf[a] = c /\ Keeps(s, a)'
    <3>1. PICK a \in Asset : ContentOf[a] = c /\ Keeps(s, a)
      BY <2>2 DEF Anchored
    <3>2. CASE a # o \/ row[a] # "live" \/ o \in sweep[s].gone
      BY <1>1, <2>1, <3>1, <3>2 DEF Keeps
    <3>3. CASE a = o /\ row[a] = "live" /\ o \notin sweep[s].gone
      <4>1. Sharers(s, o) # {}
        BY <1>4, <3>3 DEF Sees
      <4>2. PICK b \in Asset \ {o} : ContentOf[b] = ContentOf[o] /\ Sees(s, b)
        BY <4>1 DEF Sharers
      <4>3. Keeps(s, b)'
        BY <1>1, <2>1, <4>2 DEF Keeps, Sees
      <4> QED BY <3>1, <3>3, <4>2, <4>3
    <3> QED BY <3>2, <3>3
  <2> QED BY <1>1, <2>2 DEF Anchored
<1> QED BY <1>3, <1>4

\* The object whose content has just been deleted is not needed for it.
LEMMA BlobAnchor ==
  ASSUME AuditInv, NEW s \in Sweep, Anchored(s), NEW o \in Object,
         DeleteBlob(s, o) \/ BlobFails(s, o)
  PROVE  Anchored(s)'
<1>1. UNCHANGED <<row, request>>
  BY DEF DeleteBlob, BlobFails, objectVars
<1>2. Taken(s) = sweep[s].gone
  BY DEF DeleteBlob, BlobFails, Taken
<1>3. CASE BlobFails(s, o)
  <2>1. Taken(s)' = sweep[s].gone
    BY <1>3 DEF BlobFails, Taken, AuditInv, VaultTypeOK, SweepRow
  <2>2. blobs' \subseteq blobs
    BY <1>3 DEF BlobFails, Pull
  <2> QED BY <1>1, <1>2, <2>1, <2>2, AnchorKeeps DEF Keeps
<1>4. CASE DeleteBlob(s, o)
  <2>1. Taken(s)' = sweep[s].gone \cup {o}
    BY <1>4 DEF DeleteBlob, Taken, AuditInv, VaultTypeOK, SweepRow
  <2>2. blobs' = blobs \ {ContentOf[o]}
    BY <1>4 DEF DeleteBlob, Pull
  <2>3. ASSUME NEW c \in blobs'
        PROVE  \E a \in Asset : ContentOf[a] = c /\ Keeps(s, a)'
    <3>1. PICK a \in Asset : ContentOf[a] = c /\ Keeps(s, a)
      BY <2>2, <2>3 DEF Anchored
    <3>2. a # o
      BY <2>2, <2>3, <3>1
    <3> QED BY <1>1, <1>2, <2>1, <3>1, <3>2 DEF Keeps
  <2> QED BY <2>3 DEF Anchored
<1> QED BY <1>3, <1>4

\* What was taken goes, or a rollback brings it back.
LEMMA RowAnchor ==
  ASSUME AuditInv, NEW s \in Sweep, Anchored(s),
         \/ \E o \in Object : DeleteRow(s, o)
         \/ SelectExpired(s) \/ SweepDies(s) \/ Commit(s)
  PROVE  Anchored(s)'
<1>1. UNCHANGED <<request, blobs>>
  BY DEF DeleteRow, SelectExpired, SweepDies, Commit, RollBack, objectVars
<1>2. CASE Commit(s)
  <2>1. Taken(s) = sweep[s].gone /\ Taken(s)' = {}
    BY <1>2, IdleTyped DEF Commit, Taken, AuditInv, VaultTypeOK
  <2>2. \A a \in Asset : a \in Object
    BY VaultAssumption DEF VaultAssumption
  <2>3. \A a \in Asset : Keeps(s, a) => Keeps(s, a)'
    BY <1>1, <1>2, <2>1, <2>2 DEF Commit, Keeps
  <2> QED BY <1>1, <2>3, AnchorKeeps
<1>3. CASE RollBack(s) \/ SelectExpired(s)
  <2>1. Taken(s)' = {} /\ row' = row
    BY ZenonT(40), <1>3, IdleTyped DEF RollBack, SelectExpired, objectVars, Idle, Taken, AuditInv, VaultTypeOK
  <2>2. \A a \in Asset : Keeps(s, a) => Keeps(s, a)'
    BY <1>1, <2>1 DEF Keeps
  <2> QED BY <1>1, <2>2, AnchorKeeps
<1>4. ASSUME NEW o \in Object, DeleteRow(s, o), ~RollBack(s) PROVE Anchored(s)'
  <2>1. /\ sweep[s].pc = "row" /\ sweep[s].object = {o} /\ UNCHANGED objectVars
        /\ sweep' = [sweep EXCEPT ![s].pc = "loop", ![s].todo = @ \ {o},
                                  ![s].gone = @ \cup {o}]
    BY <1>4 DEF DeleteRow
  <2>2. sweep'[s].pc = "loop" /\ sweep'[s].gone = sweep[s].gone \cup {o}
    BY <2>1 DEF AuditInv, VaultTypeOK, SweepRow
  <2>3. Taken(s) = sweep[s].gone \cup {o} /\ Taken(s)' = sweep[s].gone \cup {o} /\ row' = row
    BY <2>1, <2>2 DEF Taken, objectVars
  <2>4. \A a \in Asset : Keeps(s, a) => Keeps(s, a)'
    BY <1>1, <2>3 DEF Keeps
  <2> QED BY <1>1, <2>4, AnchorKeeps
<1> QED BY <1>2, <1>3, <1>4 DEF SweepDies

LEMMA AnchorStep ==
  ASSUME AuditInv, AnchorInv, [Next]_vars
  PROVE  AnchorInv'
<1>1. active' = active /\ (OneAtATime' <=> OneAtATime)
  BY ZenonT(40) DEF Next, Create, FindBlob, Upload, Insert, InsertFails, Drop, Expire, SweepStep,
     SelectExpired, CountReferences, DeleteBlob, DeleteRow, Commit, SweepDies, BlobFails,
     RollBack, vars, OneAtATime
<1>2. AssetsUpload'
  <2>1. ASSUME NEW o \in Object, Create(o) \/ Drop(o) \/ Expire(o) PROVE AssetsUpload'
    BY <2>1 DEF Create, FindBlob, Upload, Insert, InsertFails, Drop, Expire, AnchorInv,
       AssetsUpload, AuditInv, VaultTypeOK
  <2>2. ASSUME NEW s \in Sweep, SweepStep(s) \/ SweepDies(s) \/ \E o \in Object : BlobFails(s, o)
        PROVE  request' = request
    BY <2>2 DEF SweepStep, SelectExpired, CountReferences, DeleteBlob, DeleteRow, Commit,
       SweepDies, BlobFails, RollBack, objectVars
  <2> QED BY <2>1, <2>2 DEF Next, vars, objectVars, AnchorInv, AssetsUpload
<1>3. ASSUME NEW s \in Sweep, SweepStep(s) \/ SweepDies(s) \/ \E o \in Object : BlobFails(s, o)
      PROVE  s \in active /\ \A t \in Sweep : t # s => sweep'[t] = sweep[t]
  <2>1. s \in active \/ sweep[s].pc # "idle"
    BY <1>3 DEF SweepStep, SelectExpired, CountReferences, DeleteBlob, DeleteRow, Commit,
       SweepDies, BlobFails
  <2>2. \A t \in Sweep : t # s => sweep'[t] = sweep[t]
    BY <1>3 DEF SweepStep, SelectExpired, CountReferences, DeleteBlob, DeleteRow, Commit,
       SweepDies, BlobFails, RollBack, AuditInv, VaultTypeOK
  <2> QED BY <2>1, <2>2, IdleTyped DEF AnchorInv, Resting
<1>4. (\E o \in Object : Create(o) \/ Drop(o) \/ Expire(o)) => sweep' = sweep
  BY DEF Create, FindBlob, Upload, Insert, InsertFails, Drop, Expire
<1>5. Resting'
  BY <1>1, <1>3, <1>4 DEF Next, vars, AnchorInv, Resting
<1>6. ASSUME OneAtATime, NEW s \in active PROVE Anchored(s)'
  <2>1. s \in Sweep /\ Anchored(s)
    BY <1>6 DEF AnchorInv, Resting
  <2>2. CASE \E o \in Object : Create(o) \/ Drop(o) \/ Expire(o)
    BY <2>1, <2>2, ObjectAnchor DEF AnchorInv
  <2>3. ASSUME NEW t \in Sweep, SweepStep(t) \/ SweepDies(t) \/ \E o \in Object : BlobFails(t, o)
        PROVE  Anchored(s)'
    <3>1. t = s
      BY <1>3, <1>6, <2>3 DEF OneAtATime
    <3> QED BY <2>1, <2>3, <3>1, CountAnchor, BlobAnchor, RowAnchor DEF SweepStep
  <2>4. CASE UNCHANGED vars
    <3>1. Taken(s)' = Taken(s) /\ UNCHANGED <<row, request, blobs>>
      BY <2>4 DEF vars, objectVars, Taken
    <3> QED BY <2>1, <3>1, AnchorKeeps DEF Keeps
  <2> QED BY <2>2, <2>3, <2>4 DEF Next
<1> QED BY <1>1, <1>2, <1>5, <1>6 DEF AnchorInv

\* retention.py, property 1: where sweeps run one at a time, over any objects,
\* contents and failures, no content of a deleted asset is left in the store
\* that no row or request has and no DELETE or failed creation left behind.
THEOREM ErasedIsGone ==
  ASSUME IsFiniteSet(Sweep)
  PROVE  Spec => []ErasedContentIsGone
<1>1. Init => AnchorInv
  BY IdleTyped DEF Init, AnchorInv, AssetsUpload, Resting, Anchored
<1>2. AnchorInv => ErasedContentIsGone
  <2> SUFFICES ASSUME AnchorInv, Cardinality(active) = 1, NEW o \in Asset,
                      ContentOf[o] \in blobs
               PROVE  \E a \in Asset :
                        /\ ContentOf[a] = ContentOf[o]
                        /\ row[a] \in {"live", "dropped"} \/ request[a] \in {"stored", "failed"}
    BY DEF ErasedContentIsGone
  <2>1. IsFiniteSet(active)
    BY FS_Subset DEF AnchorInv, Resting
  <2>2. PICK s : active = {s}
    BY <2>1, FS_Singleton
  <2>3. Anchored(s)
    BY <2>2 DEF AnchorInv, OneAtATime
  <2> QED BY <2>3 DEF Anchored, Keeps
<1> QED BY <1>1, <1>2, AuditInvariant, AnchorStep, PTL DEF Spec
=============================================================================
