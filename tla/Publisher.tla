----------------------------- MODULE Publisher -----------------------------
(***************************************************************************)
(* services/publisher: POST /publish.  The connection autocommits, the     *)
(* Vault and mcp-buffer are called over HTTP: one action is one statement  *)
(* or one call, and the requests of all replicas interleave between them.  *)
(***************************************************************************)
EXTENDS KillSwitch, Mishaps, FiniteSets

CONSTANTS
  Asset,       \* assets whose bytes can be sent
  Token,       \* [jti, asset]: a gate token and the asset its hash is bound to
  Request,     \* POST /publish calls in progress at the same time
  DryAsset,    \* assets published dry: all of them under publisher_dry_run(),
               \* else those the Vault records for the proof circuit
  QueueCap     \* BUFFER_FREE_TIER_QUEUE_CAP (10 in the code)

ASSUME PublisherAssumption ==
  /\ Token # {} /\ \A t \in Token : t.asset \in Asset
  /\ DryAsset \subseteq Asset
  /\ QueueCap \in Nat

VARIABLES
  req,         \* [pc, token, sent, rows, reason] of every request
  burned,      \* governance.jti_ledger
  queue,       \* posts in the Buffer queue
  drafts       \* every create_draft that took effect, in order

publisherVars == <<req, burned, queue, drafts>>

Reasons == {"none", "token_expired", "kill_switch_active", "content_hash_mismatch",
            "vault_lookup_failed", "token_replayed", "buffer_queue_cap_exceeded",
            "published"}
RequestSteps == {"free", "verify", "switch", "hash", "burn", "count", "create",
                 "record", "answered", "failed"}
Over(q) == req[q].pc \in {"free", "answered", "failed"}
AfterBurn(q) == IF req[q].sent \in DryAsset THEN "record" ELSE "count"

PublisherInit ==
  /\ req = [q \in Request |-> [pc |-> "free", token |-> CHOOSE t \in Token : TRUE,
                               sent |-> CHOOSE a \in Asset : TRUE,
                               rows |-> 0, reason |-> "none"]]
  /\ burned = {}
  /\ queue = 0
  /\ drafts = <<>>

Step(q, from, to) ==
  /\ req[q].pc = from
  /\ req' = [req EXCEPT ![q].pc = to]

\* _refuse(record_attempt(...)): one rejected row and a 403.
Reject(q, from, why) ==
  /\ req[q].pc = from
  /\ req' = [req EXCEPT ![q].pc = "answered", ![q].rows = @ + 1, ![q].reason = why]

-----------------------------------------------------------------------------
(* POST /publish with a gate token and the bytes of an asset *)

Arrive(q, token, sent) ==
  /\ Over(q)
  /\ req' = [req EXCEPT ![q] = [pc |-> "verify", token |-> token, sent |-> sent,
                                rows |-> 0, reason |-> "none"]]
  /\ UNCHANGED <<burned, queue, drafts, mishaps>>

\* Signature, algorithm and claims hold of a token the gatekeeper has signed;
\* what is left is its expiry.
VerifyToken(q) ==
  /\ \/ Step(q, "verify", "switch") /\ UNCHANGED mishaps
     \/ Reject(q, "verify", "token_expired") /\ Mishap("token_expires")
  /\ UNCHANGED <<burned, queue, drafts>>

\* Definitions named "Bug..." are seeded bugs, used by no behaviour.
BugSwitchUnread(q) ==
  Step(q, "switch", "hash") /\ UNCHANGED <<burned, queue, drafts, mishaps>>

CheckSwitch(q) ==
  /\ IF Blocked THEN Reject(q, "switch", "kill_switch_active") ELSE Step(q, "switch", "hash")
  /\ UNCHANGED <<burned, queue, drafts, mishaps>>

\* The hash of the bytes, then the Vault's own record of the asset.
CheckHash(q) ==
  /\ IF req[q].sent # req[q].token.asset
     THEN Reject(q, "hash", "content_hash_mismatch") /\ UNCHANGED mishaps
     ELSE \/ Step(q, "hash", "burn") /\ UNCHANGED mishaps
          \/ Reject(q, "hash", "vault_lookup_failed") /\ Mishap("vault_down")
  /\ UNCHANGED <<burned, queue, drafts>>

BugBurnTwice(q) ==
  /\ Step(q, "burn", AfterBurn(q))
  /\ burned' = burned \cup {req[q].token.jti}
  /\ UNCHANGED <<queue, drafts, mishaps>>

\* INSERT ... ON CONFLICT DO NOTHING RETURNING: atomic.
BurnToken(q) ==
  /\ IF req[q].token.jti \in burned
     THEN Reject(q, "burn", "token_replayed") /\ UNCHANGED burned
     ELSE /\ Step(q, "burn", AfterBurn(q))
          /\ burned' = burned \cup {req[q].token.jti}
  /\ UNCHANGED <<queue, drafts, mishaps>>

BugCapOffByOne(q) ==
  /\ IF queue > QueueCap THEN Reject(q, "count", "buffer_queue_cap_exceeded")
     ELSE Step(q, "count", "create")
  /\ UNCHANGED <<burned, queue, drafts, mishaps>>

\* list_queue_count, compared with the cap.  An error that mcp-buffer answers
\* counts as full, an answer of another shape as empty; an error of the
\* transport is caught by nobody.
CheckQueueCap(q) ==
  /\ \/ /\ IF queue >= QueueCap THEN Reject(q, "count", "buffer_queue_cap_exceeded")
           ELSE Step(q, "count", "create")
        /\ UNCHANGED mishaps
     \/ Reject(q, "count", "buffer_queue_cap_exceeded") /\ Mishap("count_fails")
     \/ Step(q, "count", "failed") /\ Mishap("count_fails")
     \/ Step(q, "count", "create") /\ Mishap("count_unread")
  /\ UNCHANGED <<burned, queue, drafts>>

\* Nothing catches what create_draft raises: the caller gets a 500.
CreateDraft(q) ==
  /\ \/ Step(q, "create", "record") /\ UNCHANGED mishaps
     \/ Step(q, "create", "failed") /\ Mishap("draft_fails")
  /\ \/ queue' = queue + 1 /\ drafts' = Append(drafts, [jti |-> req[q].token.jti, asset |-> req[q].sent])
     \/ req'[q].pc = "failed" /\ UNCHANGED <<queue, drafts>>
  /\ UNCHANGED burned

\* record_publish (a write to the Vault, which may raise), then the row.
RecordPublish(q) ==
  /\ \/ /\ req[q].pc = "record"
        /\ req' = [req EXCEPT ![q].pc = "answered", ![q].rows = @ + 1,
                              ![q].reason = "published"]
        /\ UNCHANGED mishaps
     \/ Step(q, "record", "failed") /\ Mishap("record_fails")
  /\ UNCHANGED <<burned, queue, drafts>>

\* Buffer posts the oldest of its queue (external).
BufferPosts ==
  /\ queue > 0
  /\ queue' = queue - 1
  /\ UNCHANGED <<req, burned, drafts, mishaps>>

ServePublish(q) ==
  \/ VerifyToken(q) \/ CheckSwitch(q) \/ CheckHash(q) \/ BurnToken(q)
  \/ CheckQueueCap(q) \/ CreateDraft(q) \/ RecordPublish(q)

-----------------------------------------------------------------------------
(* The publisher with callers that send any token with any bytes, again and  *)
(* again                                                                     *)

PublisherNext ==
  \/ \E q \in Request, t \in Token, a \in Asset : Arrive(q, t, a) /\ UNCHANGED switchVars
  \/ \E q \in Request : ServePublish(q) /\ UNCHANGED switchVars
  \/ BufferPosts /\ UNCHANGED switchVars
  \/ Toggle /\ UNCHANGED <<publisherVars, mishaps>>

PublisherStart == SwitchInit /\ PublisherInit /\ mishaps = 0
PublisherSpec ==
  PublisherStart /\ [][PublisherNext]_<<switchVars, publisherVars, mishaps>>

-----------------------------------------------------------------------------
(* Properties *)

\* Every variable of a request and of the publisher's tables has its type.
Jti == {t.jti : t \in Token}
PublisherTypeOK ==
  /\ req \in [Request -> [pc : RequestSteps, token : Token, sent : Asset,
                          rows : Nat, reason : Reasons]]
  /\ burned \subseteq Jti
  /\ queue \in Nat
  /\ drafts \in Seq([jti : Jti, asset : Asset])
  /\ mishaps \in Nat

\* jti_ledger.py: "two concurrent publish attempts with the same token cannot
\* both win", so a token makes at most one draft, of the asset it is bound to.
OneDraftPerToken ==
  /\ \A m, n \in 1..Len(drafts) : drafts[m].jti = drafts[n].jti => m = n
  /\ \A n \in 1..Len(drafts) : \E t \in Token :
        t.jti = drafts[n].jti /\ t.asset = drafts[n].asset

\* The kill switch, README "<5s": once it is on for good and no request is
\* past its check, none calls Buffer, whatever tokens were issued before.
BeforeSwitch(q) == Over(q) \/ req[q].pc \in {"verify", "switch"}
CallsBuffer(q) == req[q].pc = "create"
SwitchStops ==
  []((\A q \in Request : BeforeSwitch(q)) /\ []Blocked
       => [](\A q \in Request : ~CallsBuffer(q)))

\* buffer_client.py: the cap check lets no "over-cap request through".  It does
\* (count and draft are two calls, and an unread count is an empty queue), but
\* by less than one draft per request and one per unread count.
OvershootBounded == queue < QueueCap + Cardinality(Request) + mishaps

=============================================================================
