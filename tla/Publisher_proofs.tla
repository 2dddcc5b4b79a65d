-------------------------- MODULE Publisher_proofs --------------------------
(***************************************************************************)
(* What holds of the publisher for any number of requests, tokens, assets  *)
(* and mishaps: its types, that a token is worth one draft, how far the    *)
(* queue overshoots its cap, and that the kill switch is final.            *)
(***************************************************************************)
EXTENDS Publisher, SequenceTheorems, FiniteSetTheorems, TLAPS

RequestRow == [pc : RequestSteps, token : Token, sent : Asset, rows : Nat, reason : Reasons]

\* Step only moves the pc of one request.
LEMMA StepMoves ==
  ASSUME PublisherTypeOK, NEW q \in Request, NEW from, NEW to \in RequestSteps,
         Step(q, from, to)
  PROVE  /\ req' \in [Request -> RequestRow]
         /\ req[q].pc = from /\ req'[q].pc = to
         /\ \A p \in Request : /\ p # q => req'[p] = req[p]
                               /\ req'[p].token = req[p].token
                               /\ req'[p].sent = req[p].sent
BY DEF PublisherTypeOK, RequestRow, Step

\* Reject ends one request.
LEMMA RejectEnds ==
  ASSUME PublisherTypeOK, NEW q \in Request, NEW from, NEW why \in Reasons,
         Reject(q, from, why)
  PROVE  /\ req' \in [Request -> RequestRow]
         /\ req[q].pc = from /\ req'[q].pc = "answered"
         /\ \A p \in Request : /\ p # q => req'[p] = req[p]
                               /\ req'[p].token = req[p].token
                               /\ req'[p].sent = req[p].sent
<1>1. "answered" \in RequestSteps
  BY DEF RequestSteps
<1>2. QED
  BY <1>1 DEF PublisherTypeOK, RequestRow, Reject

LEMMA MishapCounted ==
  ASSUME mishaps \in Nat, NEW kind, Mishap(kind)
  PROVE  mishaps' \in Nat
BY DEF Mishap

-----------------------------------------------------------------------------
(* The strengthening: what a request past the hash check or past the ledger  *)
(* knows, and what the ledger knows of the drafts                            *)

Hashed(q) == req[q].pc \in {"burn", "count", "create", "record"}
Owns(q) == req[q].pc \in {"count", "create"}

HashChecked == \A q \in Request : Hashed(q) => req[q].sent = req[q].token.asset

\* A request between the ledger and its draft owns its jti alone.
OwnsItsToken ==
  \A q \in Request : Owns(q)
    => /\ req[q].token.jti \in burned
       /\ \A n \in 1..Len(drafts) : drafts[n].jti # req[q].token.jti
       /\ \A p \in Request \ {q} : Owns(p) => req[p].token.jti # req[q].token.jti

DraftsBurned == \A n \in 1..Len(drafts) : drafts[n].jti \in burned

IInv == PublisherTypeOK /\ HashChecked /\ OwnsItsToken /\ DraftsBurned /\ OneDraftPerToken

pvars == <<switchVars, publisherVars, mishaps>>

LEMMA IInit == SwitchInit /\ PublisherInit /\ mishaps = 0 => IInv
<1> SUFFICES ASSUME PublisherInit, mishaps = 0
             PROVE  IInv
  OBVIOUS
<1> USE DEF PublisherInit
<1>1. (CHOOSE t \in Token : TRUE) \in Token /\ (CHOOSE a \in Asset : TRUE) \in Asset
  BY PublisherAssumption
<1>2. "free" \in RequestSteps /\ "none" \in Reasons
  BY DEF RequestSteps, Reasons
<1>3. PublisherTypeOK
  BY <1>1, <1>2 DEF PublisherTypeOK
<1>4. \A q \in Request : req[q].pc = "free"
  OBVIOUS
<1>5. HashChecked /\ OwnsItsToken /\ DraftsBurned /\ OneDraftPerToken
  BY <1>4 DEF HashChecked, Hashed, OwnsItsToken, Owns, DraftsBurned, OneDraftPerToken
<1>6. QED
  BY <1>3, <1>5 DEF IInv

\* A step that moves or ends one request, without ledger, queue or draft, and
\* takes it past no check.
LEMMA QuietStep ==
  ASSUME IInv, NEW q \in Request,
         req' \in [Request -> RequestRow], mishaps' \in Nat,
         \A p \in Request : p # q => req'[p] = req[p],
         ~Owns(q)' \/ (Owns(q) /\ req'[q].token = req[q].token),
         Hashed(q)' => req'[q].sent = req'[q].token.asset,
         burned' = burned, queue' \in Nat, drafts' = drafts
  PROVE  IInv'
<1>1. PublisherTypeOK'
  BY DEF IInv, PublisherTypeOK, RequestRow
<1>2. HashChecked'
  BY DEF IInv, HashChecked, Hashed
<1>3. \A p \in Request : Owns(p)' => Owns(p) /\ req'[p].token = req[p].token
  BY DEF Owns
<1>4. OwnsItsToken'
  BY <1>3 DEF IInv, OwnsItsToken
<1>5. DraftsBurned' /\ OneDraftPerToken'
  BY DEF IInv, DraftsBurned, OneDraftPerToken
<1>6. QED
  BY <1>1, <1>2, <1>4, <1>5 DEF IInv

LEMMA ArriveKeeps ==
  ASSUME IInv, NEW q \in Request, NEW t \in Token, NEW a \in Asset, Arrive(q, t, a)
  PROVE  IInv'
<1>1. "verify" \in RequestSteps /\ "none" \in Reasons
  BY DEF RequestSteps, Reasons
<1>2. req' \in [Request -> RequestRow]
  BY <1>1 DEF IInv, PublisherTypeOK, Arrive, RequestRow
<1>3. req'[q].pc = "verify" /\ \A p \in Request : p # q => req'[p] = req[p]
  BY DEF IInv, PublisherTypeOK, Arrive
<1>4. ~Owns(q)' /\ ~Hashed(q)'
  BY <1>3 DEF Owns, Hashed
<1>5. mishaps' \in Nat /\ queue' \in Nat /\ burned' = burned /\ drafts' = drafts
  BY DEF IInv, PublisherTypeOK, Arrive
<1>6. QED
  BY <1>2, <1>3, <1>4, <1>5, QuietStep

LEMMA VerifyKeeps ==
  ASSUME IInv, NEW q \in Request, VerifyToken(q)
  PROVE  IInv'
<1>1. PublisherTypeOK /\ "switch" \in RequestSteps /\ "token_expired" \in Reasons
  BY DEF IInv, RequestSteps, Reasons
<1>2. mishaps' \in Nat
  BY <1>1, MishapCounted DEF VerifyToken, PublisherTypeOK
<1>3. /\ req' \in [Request -> RequestRow] /\ req'[q].pc \in {"switch", "answered"}
      /\ \A p \in Request : p # q => req'[p] = req[p]
  BY <1>1, StepMoves, RejectEnds DEF VerifyToken
<1>4. ~Owns(q)' /\ ~Hashed(q)'
  BY <1>3 DEF Owns, Hashed
<1>5. queue' \in Nat /\ burned' = burned /\ drafts' = drafts
  BY <1>1 DEF PublisherTypeOK, VerifyToken
<1>6. QED
  BY <1>2, <1>3, <1>4, <1>5, QuietStep

LEMMA SwitchKeeps ==
  ASSUME IInv, NEW q \in Request, CheckSwitch(q)
  PROVE  IInv'
<1>1. PublisherTypeOK /\ "hash" \in RequestSteps /\ "kill_switch_active" \in Reasons
  BY DEF IInv, RequestSteps, Reasons
<1>2. Step(q, "switch", "hash") \/ Reject(q, "switch", "kill_switch_active")
  BY DEF CheckSwitch
<1>3. /\ req' \in [Request -> RequestRow] /\ req'[q].pc \in {"hash", "answered"}
      /\ \A p \in Request : p # q => req'[p] = req[p]
  BY <1>1, <1>2, StepMoves, RejectEnds
<1>4. ~Owns(q)' /\ ~Hashed(q)'
  BY <1>3 DEF Owns, Hashed
<1>5. mishaps' \in Nat /\ queue' \in Nat /\ burned' = burned /\ drafts' = drafts
  BY <1>1 DEF PublisherTypeOK, CheckSwitch
<1>6. QED
  BY <1>3, <1>4, <1>5, QuietStep

LEMMA HashKeeps ==
  ASSUME IInv, NEW q \in Request, CheckHash(q)
  PROVE  IInv'
<1>1. /\ PublisherTypeOK /\ "burn" \in RequestSteps
      /\ "content_hash_mismatch" \in Reasons /\ "vault_lookup_failed" \in Reasons
  BY DEF IInv, RequestSteps, Reasons
<1>2. mishaps' \in Nat
  BY <1>1, MishapCounted DEF CheckHash, PublisherTypeOK
<1>3. \/ req[q].sent = req[q].token.asset /\ Step(q, "hash", "burn")
      \/ Reject(q, "hash", "content_hash_mismatch")
      \/ Reject(q, "hash", "vault_lookup_failed")
  BY DEF CheckHash
<1>4. /\ req' \in [Request -> RequestRow] /\ req'[q].pc \in {"burn", "answered"}
      /\ \A p \in Request : p # q => req'[p] = req[p]
  BY <1>1, <1>3, StepMoves, RejectEnds
<1>5. ~Owns(q)'
  BY <1>4 DEF Owns
<1>6. Hashed(q)' => req'[q].sent = req'[q].token.asset
  BY <1>1, <1>3, StepMoves, RejectEnds DEF Hashed
<1>7. queue' \in Nat /\ burned' = burned /\ drafts' = drafts
  BY <1>1 DEF PublisherTypeOK, CheckHash
<1>8. QED
  BY <1>2, <1>4, <1>5, <1>6, <1>7, QuietStep

LEMMA BurnKeeps ==
  ASSUME IInv, NEW q \in Request, BurnToken(q)
  PROVE  IInv'
<1>1. PublisherTypeOK /\ "token_replayed" \in Reasons
      /\ AfterBurn(q) \in RequestSteps
  BY DEF IInv, RequestSteps, Reasons, AfterBurn
<1>2. mishaps' \in Nat /\ queue' \in Nat /\ drafts' = drafts
  BY <1>1 DEF PublisherTypeOK, BurnToken
<1>3. CASE req[q].token.jti \in burned
  <2>1. Reject(q, "burn", "token_replayed") /\ burned' = burned
    BY <1>3 DEF BurnToken
  <2>2. /\ req' \in [Request -> RequestRow] /\ req'[q].pc = "answered"
        /\ \A p \in Request : p # q => req'[p] = req[p]
    BY <1>1, <2>1, RejectEnds
  <2>3. ~Owns(q)' /\ ~Hashed(q)'
    BY <2>2 DEF Owns, Hashed
  <2>4. QED
    BY <1>2, <2>1, <2>2, <2>3, QuietStep
<1>4. CASE req[q].token.jti \notin burned
  <2>1. /\ Step(q, "burn", AfterBurn(q))
        /\ burned' = burned \cup {req[q].token.jti}
    BY <1>4 DEF BurnToken
  <2>2. /\ req' \in [Request -> RequestRow] /\ req[q].pc = "burn"
        /\ \A p \in Request : /\ p # q => req'[p] = req[p]
                              /\ req'[p].token = req[p].token
                              /\ req'[p].sent = req[p].sent
    BY <1>1, <2>1, StepMoves
  <2>3. req[q].token.jti \in Jti
    BY <1>1 DEF PublisherTypeOK, Jti
  <2>4. PublisherTypeOK'
    BY <1>1, <1>2, <2>1, <2>2, <2>3 DEF PublisherTypeOK, RequestRow
  <2>5. HashChecked'
    BY <2>2 DEF IInv, HashChecked, Hashed
  <2>6. \A p \in Request \ {q} : Owns(p)' => Owns(p)
    BY <2>2 DEF Owns
  <2>7. OwnsItsToken'
    <3> SUFFICES ASSUME NEW p \in Request, Owns(p)'
                 PROVE  /\ req'[p].token.jti \in burned'
                        /\ \A n \in 1..Len(drafts') : drafts'[n].jti # req'[p].token.jti
                        /\ \A r \in Request \ {p} : Owns(r)' => req'[r].token.jti # req'[p].token.jti
      BY DEF OwnsItsToken
    <3>1. CASE p = q
      <4>1. \A n \in 1..Len(drafts) : drafts[n].jti # req[q].token.jti
        BY <1>4 DEF IInv, DraftsBurned
      <4>2. \A r \in Request \ {q} : Owns(r)' => req[r].token.jti \in burned
        BY <2>6 DEF IInv, OwnsItsToken
      <4>3. QED
        BY <3>1, <4>1, <4>2, <1>2, <1>4, <2>1, <2>2
    <3>2. CASE p # q
      <4>1. Owns(p) /\ req[p].token.jti \in burned
        BY <2>6, <3>2 DEF IInv, OwnsItsToken
      <4>2. \A r \in Request \ {p, q} : Owns(r)' => req[r].token.jti # req[p].token.jti
        BY <2>6, <4>1 DEF IInv, OwnsItsToken
      <4>3. \A n \in 1..Len(drafts) : drafts[n].jti # req[p].token.jti
        BY <4>1 DEF IInv, OwnsItsToken
      <4>4. QED
        BY <3>2, <4>1, <4>2, <4>3, <1>2, <1>4, <2>1, <2>2
    <3>3. QED
      BY <3>1, <3>2
  <2>8. DraftsBurned' /\ OneDraftPerToken'
    BY <1>2, <2>1 DEF IInv, DraftsBurned, OneDraftPerToken
  <2>9. QED
    BY <2>4, <2>5, <2>7, <2>8 DEF IInv
<1>5. QED
  BY <1>3, <1>4

LEMMA CountKeeps ==
  ASSUME IInv, NEW q \in Request, CheckQueueCap(q)
  PROVE  IInv'
<1>1. /\ PublisherTypeOK /\ "buffer_queue_cap_exceeded" \in Reasons
      /\ "create" \in RequestSteps /\ "failed" \in RequestSteps
  BY DEF IInv, RequestSteps, Reasons
<1>2. mishaps' \in Nat
  BY <1>1, MishapCounted DEF CheckQueueCap, PublisherTypeOK
<1>3. \/ Step(q, "count", "create") \/ Step(q, "count", "failed")
      \/ Reject(q, "count", "buffer_queue_cap_exceeded")
  BY DEF CheckQueueCap
<1>4. /\ req' \in [Request -> RequestRow]
      /\ req[q].pc = "count" /\ req'[q].pc \in {"create", "failed", "answered"}
      /\ \A p \in Request : /\ p # q => req'[p] = req[p]
                            /\ req'[p].token = req[p].token
                            /\ req'[p].sent = req[p].sent
  BY <1>1, <1>3, StepMoves, RejectEnds
<1>5. Owns(q) /\ Hashed(q)
  BY <1>4 DEF Owns, Hashed
<1>6. Hashed(q)' => req'[q].sent = req'[q].token.asset
  BY <1>4, <1>5 DEF IInv, HashChecked
<1>7. queue' \in Nat /\ burned' = burned /\ drafts' = drafts
  BY <1>1 DEF PublisherTypeOK, CheckQueueCap
<1>8. QED
  BY <1>2, <1>4, <1>5, <1>6, <1>7, QuietStep

LEMMA DraftKeeps ==
  ASSUME IInv, NEW q \in Request, CreateDraft(q)
  PROVE  IInv'
<1>1. PublisherTypeOK /\ "record" \in RequestSteps /\ "failed" \in RequestSteps
  BY DEF IInv, RequestSteps
<1>2. mishaps' \in Nat
  BY <1>1, MishapCounted DEF CreateDraft, PublisherTypeOK
<1>3. Step(q, "create", "record") \/ Step(q, "create", "failed")
  BY DEF CreateDraft
<1>4. /\ req' \in [Request -> RequestRow]
      /\ req[q].pc = "create" /\ req'[q].pc \in {"record", "failed"}
      /\ \A p \in Request : /\ p # q => req'[p] = req[p]
                            /\ req'[p].token = req[p].token
                            /\ req'[p].sent = req[p].sent
  BY <1>1, <1>3, StepMoves
<1>5. Owns(q) /\ Hashed(q) /\ ~Owns(q)'
  BY <1>4 DEF Owns, Hashed
<1>6. req[q].sent = req[q].token.asset
  BY <1>5 DEF IInv, HashChecked
<1>7. CASE queue' = queue /\ drafts' = drafts
  <2>1. Hashed(q)' => req'[q].sent = req'[q].token.asset
    BY <1>4, <1>6
  <2>2. queue' \in Nat /\ burned' = burned
    BY <1>1, <1>7 DEF PublisherTypeOK, CreateDraft
  <2>3. QED
    BY <1>2, <1>4, <1>5, <1>7, <2>1, <2>2, QuietStep
<1>8. CASE /\ queue' = queue + 1
           /\ drafts' = Append(drafts, [jti |-> req[q].token.jti, asset |-> req[q].sent])
  <2> DEFINE d == [jti |-> req[q].token.jti, asset |-> req[q].sent]
  <2>1. d \in [jti : Jti, asset : Asset]
    BY <1>1 DEF PublisherTypeOK, Jti
  <2>2. /\ drafts' \in Seq([jti : Jti, asset : Asset])
        /\ Len(drafts') = Len(drafts) + 1
        /\ \A n \in 1..Len(drafts) : drafts'[n] = drafts[n]
        /\ drafts'[Len(drafts) + 1] = d
        /\ Len(drafts) \in Nat
    BY <1>1, <1>8, <2>1, AppendProperties DEF PublisherTypeOK
  <2>3. burned' = burned
    BY DEF CreateDraft
  <2>4. PublisherTypeOK'
    BY <1>1, <1>2, <1>4, <1>8, <2>2, <2>3 DEF PublisherTypeOK, RequestRow
  <2>5. HashChecked'
    BY <1>4, <1>6 DEF IInv, HashChecked, Hashed
  <2>6. \A n \in 1..Len(drafts') : n \in 1..Len(drafts) \/ n = Len(drafts) + 1
    BY <2>2
  <2>7. /\ req[q].token.jti \in burned
        /\ \A n \in 1..Len(drafts) : drafts[n].jti # req[q].token.jti
        /\ \A p \in Request \ {q} : Owns(p) => req[p].token.jti # req[q].token.jti
    BY <1>5 DEF IInv, OwnsItsToken
  <2>8. OwnsItsToken'
    <3> SUFFICES ASSUME NEW p \in Request, Owns(p)'
                 PROVE  /\ req'[p].token.jti \in burned'
                        /\ \A n \in 1..Len(drafts') : drafts'[n].jti # req'[p].token.jti
                        /\ \A r \in Request \ {p} : Owns(r)' => req'[r].token.jti # req'[p].token.jti
      BY DEF OwnsItsToken
    <3>1. p # q /\ Owns(p)
      BY <1>4, <1>5 DEF Owns
    <3>2. \A r \in Request : Owns(r)' => Owns(r)
      BY <1>4, <1>5 DEF Owns
    <3>3. \A n \in 1..Len(drafts) : drafts[n].jti # req[p].token.jti
      BY <3>1 DEF IInv, OwnsItsToken
    <3>4. d.jti # req[p].token.jti
      BY <2>7, <3>1
    <3>5. \A n \in 1..Len(drafts') : drafts'[n].jti # req[p].token.jti
      BY <2>2, <2>6, <3>3, <3>4
    <3>6. QED
      BY <1>4, <2>3, <3>1, <3>2, <3>5 DEF IInv, OwnsItsToken
  <2>9. DraftsBurned'
    BY <2>2, <2>3, <2>6, <2>7 DEF IInv, DraftsBurned
  <2>10. OneDraftPerToken'
    <3>1. ASSUME NEW m \in 1..Len(drafts'), NEW n \in 1..Len(drafts'),
                 drafts'[m].jti = drafts'[n].jti
          PROVE  m = n
      <4>1. CASE m \in 1..Len(drafts) /\ n \in 1..Len(drafts)
        BY <3>1, <4>1, <2>2 DEF IInv, OneDraftPerToken
      <4>2. CASE m = Len(drafts) + 1 \/ n = Len(drafts) + 1
        BY <3>1, <4>2, <2>2, <2>6, <2>7
      <4>3. QED
        BY <4>1, <4>2, <2>6
    <3>2. \A n \in 1..Len(drafts') : \E t \in Token :
            t.jti = drafts'[n].jti /\ t.asset = drafts'[n].asset
      <4>1. req[q].token \in Token
        BY <1>1 DEF PublisherTypeOK
      <4>2. QED
        BY <1>6, <2>2, <2>6, <4>1 DEF IInv, OneDraftPerToken
    <3>3. QED
      BY <3>1, <3>2 DEF OneDraftPerToken
  <2>11. QED
    BY <2>4, <2>5, <2>8, <2>9, <2>10 DEF IInv
<1>9. QED
  BY <1>7, <1>8 DEF CreateDraft

LEMMA RecordKeeps ==
  ASSUME IInv, NEW q \in Request, RecordPublish(q)
  PROVE  IInv'
<1>1. /\ PublisherTypeOK /\ "published" \in Reasons
      /\ "answered" \in RequestSteps /\ "failed" \in RequestSteps
  BY DEF IInv, RequestSteps, Reasons
<1>2. mishaps' \in Nat
  BY <1>1, MishapCounted DEF RecordPublish, PublisherTypeOK
<1>3. /\ req' \in [Request -> RequestRow] /\ req'[q].pc \in {"answered", "failed"}
      /\ \A p \in Request : p # q => req'[p] = req[p]
  <2>1. CASE Step(q, "record", "failed")
    BY <1>1, <2>1, StepMoves
  <2>2. CASE req' = [req EXCEPT ![q].pc = "answered", ![q].rows = @ + 1,
                                ![q].reason = "published"]
    BY <1>1, <2>2 DEF PublisherTypeOK, RequestRow
  <2>3. QED
    BY <2>1, <2>2 DEF RecordPublish
<1>4. ~Owns(q)' /\ ~Hashed(q)'
  BY <1>3 DEF Owns, Hashed
<1>5. queue' \in Nat /\ burned' = burned /\ drafts' = drafts
  BY <1>1 DEF PublisherTypeOK, RecordPublish
<1>6. QED
  BY <1>2, <1>3, <1>4, <1>5, QuietStep

LEMMA IStep == IInv /\ [PublisherNext]_pvars => IInv'
<1> SUFFICES ASSUME IInv, [PublisherNext]_pvars
             PROVE  IInv'
  OBVIOUS
<1>1. ASSUME NEW q \in Request, NEW t \in Token, NEW a \in Asset, Arrive(q, t, a)
      PROVE  IInv'
  BY <1>1, ArriveKeeps
<1>2. ASSUME NEW q \in Request, ServePublish(q)
      PROVE  IInv'
  BY <1>2, VerifyKeeps, SwitchKeeps, HashKeeps, BurnKeeps, CountKeeps, DraftKeeps,
     RecordKeeps DEF ServePublish
<1>3. CASE BufferPosts
  <2>1. PublisherTypeOK'
    BY <1>3 DEF IInv, PublisherTypeOK, BufferPosts
  <2>2. QED
    BY <1>3, <2>1 DEF BufferPosts, IInv, HashChecked, Hashed, OwnsItsToken, Owns,
       DraftsBurned, OneDraftPerToken
<1>4. CASE UNCHANGED <<publisherVars, mishaps>>
  BY <1>4 DEF publisherVars, IInv, PublisherTypeOK, HashChecked, Hashed, OwnsItsToken,
     Owns, DraftsBurned, OneDraftPerToken
<1>5. QED
  BY <1>1, <1>2, <1>3, <1>4 DEF PublisherNext, pvars

\* The publisher's tables and requests keep their types.
THEOREM PublisherTypes == PublisherSpec => []PublisherTypeOK
<1>1. IInv => PublisherTypeOK
  BY DEF IInv
<1>2. QED
  BY IInit, IStep, <1>1, PTL DEF PublisherSpec, PublisherStart, pvars

\* jti_ledger.py: a token is worth one draft, of the asset it is bound to,
\* however many requests present it at once and whatever fails.
THEOREM TokenDraftsOnce == PublisherSpec => []OneDraftPerToken
<1>1. IInv => OneDraftPerToken
  BY DEF IInv
<1>2. QED
  BY IInit, IStep, <1>1, PTL DEF PublisherSpec, PublisherStart, pvars

-----------------------------------------------------------------------------
(* How far the queue can overshoot its cap                                   *)

\* Requests that have passed the cap check and not drafted yet.
Creating == {q \in Request : req[q].pc = "create"}

\* Every one of them may still add a draft: what the bound leaves room for.
RoomLeft == queue + Cardinality(Creating) < QueueCap + Cardinality(Request) + mishaps

LEMMA CreatingFinite ==
  ASSUME IsFiniteSet(Request)
  PROVE  /\ IsFiniteSet(Creating) /\ Cardinality(Creating) \in Nat
         /\ Cardinality(Request) \in Nat
         /\ Cardinality(Creating) <= Cardinality(Request)
<1>1. Creating \subseteq Request
  BY DEF Creating
<1>2. /\ IsFiniteSet(Creating)
      /\ Cardinality(Creating) <= Cardinality(Request)
  BY <1>1, FS_Subset
<1> QED
  BY <1>2, FS_CardinalityType

\* A step that moves one request and adds no post.
LEMMA RoomStep ==
  ASSUME IInv, IsFiniteSet(Request), RoomLeft, NEW q \in Request,
         \A p \in Request : p # q => req'[p] = req[p],
         queue' = queue, mishaps' \in {mishaps, mishaps + 1},
         req'[q].pc = "create" => queue < QueueCap \/ mishaps' = mishaps + 1
  PROVE  RoomLeft'
<1>1. /\ queue \in Nat /\ mishaps \in Nat /\ QueueCap \in Nat /\ Cardinality(Request) \in Nat
      /\ IsFiniteSet(Creating) /\ Cardinality(Creating) \in Nat
      /\ queue + Cardinality(Creating) < QueueCap + Cardinality(Request) + mishaps
  BY CreatingFinite, PublisherAssumption DEF IInv, PublisherTypeOK, RoomLeft
<1> DEFINE C == {p \in Request : req'[p].pc = "create"}
<1>2. /\ C = Creating' /\ C \subseteq Request
      /\ C \subseteq Creating \cup {q} /\ (q \in C <=> req'[q].pc = "create")
  BY DEF Creating
<1> HIDE DEF C
<1>3. IsFiniteSet(C) /\ Cardinality(C) \in Nat /\ Cardinality(C) <= Cardinality(Request)
  BY <1>2, FS_Subset, FS_CardinalityType
<1>4. CASE q \notin C
  <2>1. C \in SUBSET Creating
    BY <1>2, <1>4
  <2>2. Cardinality(C) <= Cardinality(Creating)
    BY <1>1, <2>1, FS_Subset
  <2> QED
    BY <1>1, <1>2, <1>3, <2>2 DEF RoomLeft
<1>5. CASE q \in C
  <2>1. CASE queue < QueueCap
    BY <1>1, <1>2, <1>3, <2>1 DEF RoomLeft
  <2>2. CASE mishaps' = mishaps + 1
    <3>1. /\ IsFiniteSet(Creating \cup {q})
          /\ Cardinality(Creating \cup {q}) <= Cardinality(Creating) + 1
      <4>1. /\ IsFiniteSet(Creating \cup {q})
            /\ Cardinality(Creating \cup {q}) =
                 IF q \in Creating THEN Cardinality(Creating) ELSE Cardinality(Creating) + 1
        BY <1>1, FS_AddElement, Zenon
      <4> QED
        BY <1>1, <4>1
    <3>2. Cardinality(C) <= Cardinality(Creating \cup {q})
          /\ Cardinality(Creating \cup {q}) \in Nat
      BY <1>2, <3>1, FS_Subset, FS_CardinalityType
    <3> QED
      BY <1>1, <1>2, <1>3, <2>2, <3>1, <3>2 DEF RoomLeft
  <2> QED
    BY <1>2, <1>5, <2>1, <2>2
<1> QED
  BY <1>4, <1>5

\* The draft takes the room of its request.
LEMMA RoomDraft ==
  ASSUME IInv, IsFiniteSet(Request), RoomLeft, NEW q \in Request, CreateDraft(q)
  PROVE  RoomLeft'
<1>1. /\ queue \in Nat /\ mishaps \in Nat /\ QueueCap \in Nat /\ Cardinality(Request) \in Nat
      /\ IsFiniteSet(Creating) /\ Cardinality(Creating) \in Nat
      /\ queue + Cardinality(Creating) < QueueCap + Cardinality(Request) + mishaps
  BY CreatingFinite, PublisherAssumption DEF IInv, PublisherTypeOK, RoomLeft
<1>2. PublisherTypeOK /\ "record" \in RequestSteps /\ "failed" \in RequestSteps
  BY DEF IInv, RequestSteps
<1>3. Step(q, "create", "record") \/ Step(q, "create", "failed")
  BY DEF CreateDraft
<1>4. /\ req[q].pc = "create" /\ req'[q].pc # "create"
      /\ \A p \in Request : p # q => req'[p] = req[p]
  BY <1>2, <1>3, StepMoves
<1> DEFINE C == {p \in Request : req'[p].pc = "create"}
<1>5. C = Creating' /\ C = Creating \ {q} /\ q \in Creating
  BY <1>4 DEF Creating
<1>6. Cardinality(Creating') = Cardinality(Creating) - 1
  <2>1. Cardinality(Creating \ {q}) = Cardinality(Creating) - 1
    BY <1>1, <1>5, FS_RemoveElement
  <2> QED
    BY <1>5, <2>1
<1>7. queue' \in {queue, queue + 1} /\ mishaps' \in {mishaps, mishaps + 1}
  BY DEF CreateDraft, Mishap
<1> QED
  BY <1>1, <1>6, <1>7 DEF RoomLeft

LEMMA RoomKept ==
  ASSUME IInv, IsFiniteSet(Request), RoomLeft, [PublisherNext]_pvars
  PROVE  RoomLeft'
<1>1. PublisherTypeOK
  BY DEF IInv
<1>2. ASSUME NEW q \in Request, NEW t \in Token, NEW a \in Asset, Arrive(q, t, a)
      PROVE  RoomLeft'
  <2>1. req'[q].pc = "verify" /\ \A p \in Request : p # q => req'[p] = req[p]
    BY <1>1, <1>2 DEF PublisherTypeOK, Arrive
  <2>2. queue' = queue /\ mishaps' = mishaps
    BY <1>2 DEF Arrive
  <2> QED
    BY <2>1, <2>2, RoomStep
<1>3. ASSUME NEW q \in Request,
             VerifyToken(q) \/ CheckSwitch(q) \/ CheckHash(q) \/ BurnToken(q) \/ RecordPublish(q)
      PROVE  RoomLeft'
  <2>1. queue' = queue /\ mishaps' \in {mishaps, mishaps + 1}
    BY <1>3 DEF VerifyToken, CheckSwitch, CheckHash, BurnToken, RecordPublish, Mishap
  <2>2. /\ req'[q].pc # "create"
        /\ \A p \in Request : p # q => req'[p] = req[p]
    <3>1. \/ \E from : \E to \in {"switch", "hash", "burn", "record", "count", "failed"} :
                Step(q, from, to)
          \/ \E from : \E why \in Reasons : Reject(q, from, why)
          \/ RecordPublish(q) /\ ~Step(q, "record", "failed")
      BY <1>3 DEF VerifyToken, CheckSwitch, CheckHash, BurnToken, RecordPublish, AfterBurn, Reasons
    <3>2. {"switch", "hash", "burn", "record", "count", "failed"} \subseteq RequestSteps \ {"create"}
      BY DEF RequestSteps
    <3>3. CASE RecordPublish(q) /\ ~Step(q, "record", "failed")
      BY <1>1, <3>3 DEF RecordPublish, PublisherTypeOK
    <3> QED
      BY <1>1, <3>1, <3>2, <3>3, StepMoves, RejectEnds
  <2> QED
    BY <2>1, <2>2, RoomStep
<1>4. ASSUME NEW q \in Request, CheckQueueCap(q) PROVE RoomLeft'
  <2>1. /\ "buffer_queue_cap_exceeded" \in Reasons
        /\ "create" \in RequestSteps /\ "failed" \in RequestSteps
    BY DEF RequestSteps, Reasons
  <2>2. /\ queue' = queue /\ mishaps' \in {mishaps, mishaps + 1}
        /\ \/ Step(q, "count", "create") /\ (queue < QueueCap \/ mishaps' = mishaps + 1)
           \/ Step(q, "count", "failed")
           \/ Reject(q, "count", "buffer_queue_cap_exceeded")
    <3>1. queue \in Nat /\ QueueCap \in Nat
      BY <1>1, PublisherAssumption DEF PublisherTypeOK
    <3> QED
      BY <1>4, <3>1 DEF CheckQueueCap, Mishap
  <2>3. /\ \A p \in Request : p # q => req'[p] = req[p]
        /\ req'[q].pc = "create" => queue < QueueCap \/ mishaps' = mishaps + 1
    BY <1>1, <2>1, <2>2, StepMoves, RejectEnds
  <2> QED
    BY <2>2, <2>3, RoomStep
<1>5. CASE BufferPosts
  <2>1. queue' = queue - 1 /\ Creating' = Creating /\ mishaps' = mishaps
    BY <1>5 DEF BufferPosts, Creating
  <2>2. /\ queue \in Nat /\ mishaps \in Nat /\ QueueCap \in Nat
        /\ Cardinality(Request) \in Nat /\ Cardinality(Creating) \in Nat
    BY <1>1, CreatingFinite, PublisherAssumption DEF PublisherTypeOK
  <2> QED
    BY <2>1, <2>2 DEF RoomLeft
<1>6. CASE UNCHANGED <<publisherVars, mishaps>>
  BY <1>6 DEF publisherVars, RoomLeft, Creating
<1> QED
  BY <1>2, <1>3, <1>4, <1>5, <1>6, RoomDraft DEF PublisherNext, ServePublish, pvars

\* buffer_client.py: count and draft are two calls of a request, and an unread
\* count is an empty queue.  For any number of requests at the same time the
\* queue stays under its cap, and one post per request and unread count.
THEOREM OvershootIsBounded ==
  ASSUME IsFiniteSet(Request), Request # {}
  PROVE  PublisherSpec => []OvershootBounded
<1>1. PublisherStart => IInv /\ RoomLeft
  <2> SUFFICES ASSUME PublisherStart PROVE IInv /\ RoomLeft
    OBVIOUS
  <2>1. IInv
    BY IInit DEF PublisherStart
  <2>2. Creating = {} /\ queue = 0 /\ mishaps = 0
    BY DEF PublisherStart, PublisherInit, Creating
  <2>3. Cardinality(Creating) = 0 /\ Cardinality(Request) \in Nat \ {0} /\ QueueCap \in Nat
    BY <2>2, FS_EmptySet, FS_CardinalityType, PublisherAssumption
  <2> QED
    BY <2>1, <2>2, <2>3 DEF RoomLeft
<1>2. IInv /\ RoomLeft /\ [PublisherNext]_pvars => (IInv /\ RoomLeft)'
  BY IStep, RoomKept
<1>3. IInv /\ RoomLeft => OvershootBounded
  <2>1. Cardinality(Creating) \in Nat /\ Cardinality(Request) \in Nat /\ QueueCap \in Nat
    BY CreatingFinite, PublisherAssumption
  <2> QED
    BY <2>1 DEF IInv, PublisherTypeOK, RoomLeft, OvershootBounded
<1> QED
  BY <1>1, <1>2, <1>3, PTL DEF PublisherSpec, pvars

-----------------------------------------------------------------------------
(* The kill switch                                                           *)

\* No request is past its check of the switch.
NonePast == \A q \in Request : BeforeSwitch(q)

LEMMA NonePastKept ==
  ASSUME IInv, Blocked, NonePast, [PublisherNext]_pvars
  PROVE  NonePast'
<1>1. PublisherTypeOK
  BY DEF IInv
<1>2. ASSUME NEW q \in Request,
             \A p \in Request : p # q => req'[p] = req[p],
             req'[q].pc \in {"verify", "switch", "answered"}
      PROVE  NonePast'
  BY <1>2 DEF NonePast, BeforeSwitch, Over
<1>3. ASSUME NEW q \in Request, NEW t \in Token, NEW a \in Asset, Arrive(q, t, a)
      PROVE  NonePast'
  <2>1. req'[q].pc = "verify" /\ \A p \in Request : p # q => req'[p] = req[p]
    BY <1>1, <1>3 DEF PublisherTypeOK, Arrive
  <2> QED
    BY <1>2, <2>1
<1>4. ASSUME NEW q \in Request, ServePublish(q) PROVE NonePast'
  <2>1. req[q].pc \in {"free", "answered", "failed", "verify", "switch"}
    BY DEF NonePast, BeforeSwitch, Over
  <2>2. VerifyToken(q) \/ CheckSwitch(q)
    BY <1>4, <2>1 DEF ServePublish, CheckHash, BurnToken, CheckQueueCap, CreateDraft,
       RecordPublish, Step, Reject
  <2>3. \/ Step(q, "verify", "switch") \/ Reject(q, "verify", "token_expired")
        \/ Reject(q, "switch", "kill_switch_active")
    BY <2>2 DEF VerifyToken, CheckSwitch
  <2>4. "switch" \in RequestSteps /\ {"token_expired", "kill_switch_active"} \subseteq Reasons
    BY DEF RequestSteps, Reasons
  <2>5. /\ req'[q].pc \in {"switch", "answered"}
        /\ \A p \in Request : p # q => req'[p] = req[p]
    BY <1>1, <2>3, <2>4, StepMoves, RejectEnds
  <2> QED
    BY <1>2, <2>5
<1>5. UNCHANGED req => NonePast'
  BY DEF NonePast, BeforeSwitch, Over
<1>6. BufferPosts \/ UNCHANGED <<publisherVars, mishaps>> => UNCHANGED req
  BY DEF BufferPosts, publisherVars
<1> QED
  BY <1>3, <1>4, <1>5, <1>6 DEF PublisherNext, pvars

\* routers/publish.py asks for the switch before it burns a token or calls
\* anybody: for any number of requests and operators, once the switch is on for
\* good and no request is past its check, none of them calls Buffer.
THEOREM SwitchIsFinal == PublisherSpec => SwitchStops
<1> DEFINE Silent == \A q \in Request : ~CallsBuffer(q)
<1>1. IInv /\ NonePast => Silent
  BY DEF NonePast, BeforeSwitch, Over, CallsBuffer
<1>2. IInv /\ Blocked /\ NonePast /\ [PublisherNext]_pvars => NonePast'
  BY NonePastKept
<1>3. PublisherStart => IInv
  BY IInit DEF PublisherStart
<1>4. NonePast <=> \A q \in Request : BeforeSwitch(q)
  BY DEF NonePast
<1> HIDE DEF Silent
<1>5. PublisherSpec => [](NonePast /\ []Blocked => []Silent)
  BY <1>1, <1>2, <1>3, IStep, PTL DEF PublisherSpec, pvars
<1> QED
  BY <1>5 DEF Silent, NonePast, SwitchStops
=============================================================================
