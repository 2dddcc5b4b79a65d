----------------------------- MODULE PublishLoop -----------------------------
(***************************************************************************)
(* The way of a post from the approval request to Buffer: the handler that *)
(* asks (schedule_publish.py), the gatekeeper and the human, the sweep of  *)
(* the publish loop (publish.py) and the publisher.  The asking handler of *)
(* a post and every sweep are callers of the gatekeeper.                   *)
(***************************************************************************)
EXTENDS Gatekeeper, Publisher

CONSTANTS
  Sweep        \* sweeps in progress at the same time, one per replica

ASSUME LoopAssumption ==
  /\ Caller = Post \cup Sweep /\ Post \cap Sweep = {}
  /\ Asset = Post
  /\ Token = [jti : 1..MaxTokens, asset : Post]

VARIABLES
  row,         \* the asking task: "unasked", "awaiting" (approval_id is in its
               \* result_ref) or "published" (publish_attempt_id is too)
  sweep        \* [pc, todo, post, call] of every sweep

loopVars == <<row, sweep>>
vars == <<gatekeeperVars, publisherVars, loopVars>>

Init ==
  /\ SwitchInit /\ GatekeeperInit /\ PublisherInit
  /\ row = [p \in Post |-> "unasked"]
  /\ sweep = [s \in Sweep |-> [pc |-> "idle", todo |-> {},
                               post |-> CHOOSE p \in Post : TRUE,
                               call |-> CHOOSE q \in Request : TRUE]]

-----------------------------------------------------------------------------
(* schedule_social_buffer_handler *)

Ask(p) ==
  /\ row[p] = "unasked"
  /\ GateCheck(p, p)
  /\ UNCHANGED <<switchVars, publisherVars, loopVars>>

\* set_result_ref: the row awaits publication whatever the gate answered.
StoreApproval(p) ==
  /\ row[p] = "unasked"
  /\ gate[p].pc = "answered" /\ gate[p].answer # "error"
  /\ row' = [row EXCEPT ![p] = "awaiting"]
  /\ gate' = [gate EXCEPT ![p].pc = "idle"]
  /\ UNCHANGED <<switchVars, tokens, inboxVars, mishaps, publisherVars, sweep>>

\* The handler raises, or its process dies, and the dispatcher runs it again.
AskAgain(p) ==
  /\ row[p] = "unasked"
  /\ gate[p].pc = "answered"
  /\ \/ gate[p].answer = "error" /\ UNCHANGED mishaps
     \/ gate[p].answer # "error" /\ Mishap("crash")
  /\ gate' = [gate EXCEPT ![p].pc = "idle"]
  /\ UNCHANGED <<switchVars, tokens, inboxVars, publisherVars, loopVars>>

-----------------------------------------------------------------------------
(* publish_approved_assets_handler *)

At(s, step) == sweep[s].pc = step
MoveTo(s, step) == sweep' = [sweep EXCEPT ![s].pc = step]
\* The next candidate, whatever became of this one.
Skip(s) == sweep' = [sweep EXCEPT ![s].pc = "next", ![s].todo = @ \ {sweep[s].post}]

\* find_awaiting_publication.
FindAwaiting(s) ==
  LET waiting == {p \in Post : row[p] = "awaiting"} IN
  /\ At(s, "idle")
  /\ sweep' = [sweep EXCEPT ![s].pc = "next", ![s].todo = waiting]
  /\ UNCHANGED <<gatekeeperVars, publisherVars, row>>

\* Definitions named "Bug..." are seeded bugs, used by no behaviour.
BugStopAtPending(s) ==
  /\ At(s, "next")
  /\ \E p \in sweep[s].todo :
       IF LatestStatus(p) = "approved"
       THEN sweep' = [sweep EXCEPT ![s].pc = "mint", ![s].post = p]
       ELSE sweep' = [sweep EXCEPT ![s].todo = {}]
  /\ UNCHANGED <<gatekeeperVars, publisherVars, row>>

\* GET /approval-status, of the newest card of the post.
ReadStatus(s) ==
  /\ At(s, "next")
  /\ \E p \in sweep[s].todo :
       IF LatestStatus(p) = "approved"
       THEN sweep' = [sweep EXCEPT ![s].pc = "mint", ![s].post = p]
       ELSE sweep' = [sweep EXCEPT ![s].todo = @ \ {p}]
  /\ UNCHANGED <<gatekeeperVars, publisherVars, row>>

EndSweep(s) ==
  /\ At(s, "next") /\ sweep[s].todo = {}
  /\ MoveTo(s, "idle")
  /\ UNCHANGED <<gatekeeperVars, publisherVars, row>>

\* vault.get_asset, then the second gate check, which mints the token.
AskForToken(s) ==
  /\ At(s, "mint")
  /\ GateCheck(s, sweep[s].post)
  /\ MoveTo(s, "token")
  /\ UNCHANGED <<switchVars, publisherVars, row>>

NoToken(s) ==
  /\ At(s, "token") /\ gate[s].pc = "answered" /\ gate[s].answer # "token"
  /\ gate' = [gate EXCEPT ![s].pc = "idle"]
  /\ Skip(s)
  /\ UNCHANGED <<switchVars, tokens, inboxVars, mishaps, publisherVars, row>>

Publish(s) ==
  /\ At(s, "token") /\ gate[s].pc = "answered" /\ gate[s].answer = "token"
  /\ \E q \in Request :
       /\ \A r \in Sweep : At(r, "await") => sweep[r].call # q
       /\ Arrive(q, [jti |-> gate[s].jti, asset |-> tokens[gate[s].jti]], sweep[s].post)
       /\ sweep' = [sweep EXCEPT ![s].pc = "await", ![s].call = q]
  /\ gate' = [gate EXCEPT ![s].pc = "idle"]
  /\ UNCHANGED <<switchVars, tokens, inboxVars, row>>

\* The client raises on every answer but a 200, and after 30 seconds; the
\* sweep logs it and goes on, the publisher does not notice.
PublishRaises(s) ==
  LET q == sweep[s].call IN
  /\ At(s, "await")
  /\ \/ Over(q) /\ req[q].reason # "published" /\ UNCHANGED mishaps
     \/ ~Over(q) /\ Mishap("timeout")
  /\ Skip(s)
  /\ UNCHANGED <<switchVars, gateVars, inboxVars, publisherVars, row>>

BugNoWriteBack(s) ==
  /\ At(s, "await") /\ Over(sweep[s].call) /\ req[sweep[s].call].reason = "published"
  /\ Skip(s)
  /\ UNCHANGED <<gatekeeperVars, publisherVars, row>>

BugAnyAnswerPublishes(s) ==
  /\ At(s, "await") /\ Over(sweep[s].call)
  /\ row' = [row EXCEPT ![sweep[s].post] = "published"]
  /\ Skip(s)
  /\ UNCHANGED <<gatekeeperVars, publisherVars>>

\* A 200: set_result_ref writes publish_attempt_id.
WriteBack(s) ==
  LET q == sweep[s].call IN
  /\ At(s, "await") /\ Over(q) /\ req[q].reason = "published"
  /\ row' = [row EXCEPT ![sweep[s].post] = "published"]
  /\ Skip(s)
  /\ UNCHANGED <<gatekeeperVars, publisherVars>>

\* The replica dies; a later heartbeat starts another sweep.  An answer the
\* gatekeeper still gives is read by nobody.
SweepDies(s) ==
  /\ sweep[s].pc \notin {"idle"}
  /\ gate[s].pc \in {"idle", "answered"}
  /\ Mishap("crash")
  /\ sweep' = [sweep EXCEPT ![s].pc = "idle", ![s].todo = {}]
  /\ gate' = [gate EXCEPT ![s].pc = "idle"]
  /\ UNCHANGED <<switchVars, tokens, inboxVars, publisherVars, row>>

-----------------------------------------------------------------------------
Handle(p) == Ask(p) \/ StoreApproval(p) \/ AskAgain(p)

RunSweep(s) ==
  \/ FindAwaiting(s) \/ ReadStatus(s) \/ EndSweep(s) \/ AskForToken(s)
  \/ NoToken(s) \/ Publish(s) \/ PublishRaises(s) \/ WriteBack(s)

ServeCaller(c) ==
  ServeGateCheck(c) /\ UNCHANGED <<switchVars, publisherVars, loopVars>>
Approve(k) ==
  ServeClick(k) /\ UNCHANGED <<switchVars, publisherVars, loopVars>>
ServeRequest(q) ==
  ServePublish(q) /\ UNCHANGED <<switchVars, gateVars, inboxVars, loopVars>>
Drain == BufferPosts /\ UNCHANGED <<switchVars, gateVars, inboxVars, loopVars>>

Next ==
  \/ \E p \in Post : Handle(p)
  \/ \E s \in Sweep : RunSweep(s) \/ SweepDies(s)
  \/ \E c \in Caller : ServeCaller(c)
  \/ \E k \in Click : Approve(k)
  \/ \E q \in Request : ServeRequest(q)
  \/ LinkExpires /\ UNCHANGED <<switchVars, publisherVars, loopVars>>
  \/ Drain
  \/ ToggleSwitch /\ UNCHANGED <<publisherVars, loopVars>>

Spec == Init /\ [][Next]_vars

\* Heartbeats keep firing sweeps, servers answer what they have begun and
\* Buffer posts what it has queued; no human has to click.
Fairness ==
  /\ \A p \in Post : WF_vars(Handle(p))
  /\ \A s \in Sweep : WF_vars(RunSweep(s))
  /\ \A c \in Caller : WF_vars(ServeCaller(c))
  /\ \A q \in Request : WF_vars(ServeRequest(q))
  /\ WF_vars(Drain)
FairSpec == Spec /\ Fairness

-----------------------------------------------------------------------------
(* Properties *)

Copies(p) == {n \in 1..Len(drafts) : drafts[n].asset = p}

\* Whatever the sweeps do, a draft has a human's approval of its very bytes.
DraftNeedsApproval ==
  \A p \in Post : Copies(p) # {} /\ Level[p] \in ApprovalLevels => HasApproval(p)

\* A row that carries publish_attempt_id is not swept again, so its post must
\* have gone out.
WrittenBackIsDrafted ==
  \A p \in Post : row[p] = "published" /\ p \notin DryAsset => Copies(p) # {}

\* publish.py: "an approval granted three days late still publish[es]".
ApprovedIsPublished ==
  \A p \in Post : HasApproval(p) ~> (row[p] = "published")

\* The release of a post as a human sees it (Release.tla).
Verdict(p) ==
  IF HasApproval(p) THEN "approved"
  ELSE IF \E i \in CardsOf(p) : cards[i].status = "rejected" THEN "refused"
  ELSE "open"

Promise == INSTANCE Release WITH
  verdict <- [p \in Post |-> Verdict(p)],
  copies <- [p \in Post |-> Cardinality(Copies(p))]

\* One sweep at a time, and no mishap that makes a step be done again: asked,
\* decided once, out once.
KeepsPromise == Promise!FairSpec
=============================================================================
