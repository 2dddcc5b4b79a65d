# Verification of Canvas Marketing OS

TLA+ models of the parts of this repository where interleavings, failures and
retries decide whether the system is right: the task dispatcher of the
orchestrator; the way of a post from the approval request to Buffer (gatekeeper,
kill switch, publisher, publish loop); the model gateway's single flight and
budget; the QA reviews of a draft and their redraft loop; the option cards and
the functions that look after the scanned sources; the Vault's content store and
retention sweep. TLC checks them on small instances, TLAPS proves the central
properties for every value of the constants.

## 1. The system

| Component | State | Operations | Interacts with |
|---|---|---|---|
| Task dispatch: `services/orchestrator` (`worker.py`, `dispatch/gating.py`, `state_machine.py`, `db.py`) | `task_state`, `task_transitions`; Service Bus queues `event`, `task` | heartbeat to task batch, dependency gate, start, completion, advance dependents, requeue, three strikes, dead letter, cascade, alert | Service Bus (PeekLock), Postgres, handlers |
| Agent handlers: `dispatch/handlers/*` | `task_state.result_ref` | one function per task type, calls to gateway, vault, gatekeeper | model gateway, vault, gatekeeper |
| QA review and retry: `qa_review.py`, `qa_retry.py` | advisory lock per draft, verdicts and redrafts in `result_ref`, agent runs in the Vault | review, redraft for both reviews, settle, card | dispatch, gateway, Vault, Friday's task |
| Kill switch: `gatekeeper/app/routers/kill_switch.py`, `governance-lib` | `governance.kill_switches` | read-then-write toggle, `is_blocked` | read by gatekeeper and publisher |
| Gatekeeper: `services/gatekeeper` | `approval_inbox`, `gate_decisions`, `approval_actions`, signed gate tokens | `/gate-check`, `/approval-action`, `/approval-status` | kill switch, orchestrator, humans |
| Publisher: `services/publisher` | `jti_ledger`, `publish_attempts` | `/publish` | kill switch, vault, mcp-buffer |
| Publish loop: `handlers/schedule_publish.py`, `handlers/publish.py` | `approval_id` and `publish_attempt_id` in `result_ref` | ask for approval, sweep | gatekeeper, publisher, vault |
| Model gateway: `services/model-gateway` | `completions`, advisory lock per `task_ref`, `costs`, connection pool | `/v1/completions`: single flight, budget and downgrade, redaction, provider call | Postgres through PgBouncer, providers |
| Options inbox: `handlers/options.py`, `services/options_inbox`, `gatekeeper/app/option_decisions.py` | `option_cards`, `approval_decisions` | compose, digest, `GET /decide` | gateway, Teams, humans |
| Source lifecycle and web reach: `source_lifecycle.py`, `web_reach.py` | `signals` in the Vault, markers among them | yield, discovery, retire pass, allowlist review, monthly pass | options inbox, gateway |
| Vault: `services/vault` | assets and other objects, `retention_policy`, audit log, blobs addressed by content | CRUD, retention sweep, lineage search | everyone |
| Dead-letter routing, loop loader, analytics ingest, registry, MCP servers, console, function packages, infrastructure | see `PROJECT.json` | | |

Orchestrator, gatekeeper, publisher, gateway and vault run as one to three
replicas (`infra/modules/container-app.bicep`). They share one Postgres; almost
every helper opens its own autocommit connection, so a handler is a sequence of
separately committed statements; the Vault's routers and its sweep use
transactions, and gateway and QA retry keep an advisory lock on a session of
their own. Service Bus locks a message for a minute and redelivers it when the
lock expires.

What is hard here:

- **Interleaving**: replicas compete for the task queue, a join has several
  parents that complete at the same time, clicks, toggles, gate checks and
  publish requests run between each other's statements, sweeps overlap, two
  reviews judge one draft, requests meet on one `task_ref`.
- **Crashes and redelivery**: a message whose holder dies or is slow reaches a
  second replica; rows are left between two statements of a handler, locks in
  sessions whose owner has gone.
- **Partial failure**: a remote call fails before or after it took effect and
  the caller cannot tell; a blob goes and its row stays.
- **Limits**: requeue bound, three strikes, the Buffer queue cap, link and
  token expiry, connection pools, daily budgets, the digest's budget, the number
  of rows a handler looks back.
- **Replayed answers**: the gateway answers by agent run, agent runs are numbered by
  client, and a handler that is run again, or opens a second client, gets answers to
  questions it no longer asks.

What makes the components correct, in the order of importance:

1. no task runs before what it depends on; without faults a cascade kills only
   what can never run; no wake-up is lost; every task reaches one outcome and
   keeps it (section 3 says what is left of each of these under faults);
2. nothing reaches Buffer without a human's approval of these very bytes; the
   kill switch stops what is not yet past it, and what it shows is what blocks
   (true of one operator only); one token makes one draft; an approved post goes
   out, once;
3. what is put up for approval has passed its reviews (true of the brand steward's
   only, and of bytes it was shown); a verdict belongs to the bytes it names, also
   when the gateway replays it; no redraft is paid for twice; a draft that fails is
   heard of;
4. one human decision per card, audited, never revised; one attempt row per
   publish request;
5. one provider call per task reference, spend within budget, no request waits
   for ever;
6. what has expired is deleted, with its content and one audit row; what has not
   keeps its content;
7. a source is retired for its own bad record, with its replacement at hand, and
   at most once a pass.

`PROJECT.json` lists every component and every hazard at its line.

## 2. Modules

```
LoopRun (abstract)        Release (abstract)         SingleFlight (abstract)
   ^ implements              ^ implements               ^ implements
TaskDispatch             PublishLoop                ModelGateway
                             ^ composes
                         Gatekeeper   Publisher     QaRetry   VaultRetention
                             ^            ^
                         KillSwitch                 OptionsInbox <- SourceLifecycle

Mishaps: all but TaskDispatch and KillSwitch
Proofs:  TaskDispatch_proofs, KillSwitch_proofs, Publisher_proofs,
         PublishLoop_proofs (gatekeeper and loop, on the two before it),
         ModelGateway_proofs, QaRetry_proofs, VaultRetention_proofs,
         SourceLifecycle_proofs (option cards and source lifecycle)
```

The modules `MC...` give the constants their values for TLC. A definition whose
name starts with `Bug` is a seeded bug that no specification uses: it is the form
the definition beside it would take with a plausible mistake, and the property it
is paired with in `PROJECT.json` fails on it. `Mishaps` is what can go wrong
around the services; a run names the kinds it lets happen, and `MaxMishaps`
bounds all of them together.

### TaskDispatch

One loop run: the heartbeat, its batch of tasks, the task queue and the
replicas. One action is one transaction of `orchestrator/db.py` or one call to
Service Bus, since each db helper commits before it returns.

| State | Code |
|---|---|
| `state`, `retryCount`, `reasons` | `task_state.state`, `.retry_count`, the reasons in `task_transitions` |
| `eventQueue`, `taskQueue`, `batch`, `orphaned` | the two queues, what a replica has locked, what a dead process still has locked |
| `pc`, `todo`, `strike`, `looping` | where a replica is in `run_worker_loop`, its local task list, the count `increment_retry` gave it, whether it is in `_retry_or_dead_letter` |
| `alerts` | alerts published by `dead_letter.emit_alert` |

`ReceiveEvents`, `ReceiveTasks` and `CompleteMessage` are the loop of
`run_worker_loop`; `InsertTaskBatch`, `PublishTask`, `HeartbeatHandled` are
`handle_heartbeat_message`; `GateCleared` to `AdvanceDependent` are
`dispatch_task` with a handler and `advance_dependents` (its selection, its
counts and its transitions are three steps); `RequeueNotReady`,
`GiveUpNotReady` the `TaskNotReadyError` branch; `Failure...`,
`IncrementRetry`, `ScheduleRetry`, `DeadLetter` are `record_failure`; `Cascade...`
are `cascade_dead_letter`. Faults: `StepRaises` (a database or bus call raises,
and the exception goes where the code's `except` clauses send it), `Crash`,
`OrphanReturns`, `LockExpires`.

Abstractions: a handler is what it writes to `task_state` (completed, blocked
by QA, raised); the backoff sleeps have no state; the transition rows are kept
as the set of their reasons.

### KillSwitch, Gatekeeper, Publisher, PublishLoop

`KillSwitch` has the global rows and the two statements of a toggle; the table may
be empty, as the migration leaves it, or have its one row.
`Gatekeeper` has the gate check of each caller (policy, look-up, mint or
escalate) and the click of each human (follow, consume, decide, audit, with the
refusals), statement by statement. `Publisher` has `/publish` from the token to
the attempt row: token, switch, hash and vault, ledger, queue count, draft,
record. `PublishLoop` composes the three: the asking handler and the sweeps are
callers of the gatekeeper, a token is an index into the minted tokens, a
publish call is a request of the publisher whose answer the sweep awaits or
gives up on.

Abstractions: a post is one (agent run, function, content hash) triple, and its
bytes are equal to another's only if the posts are; signatures and claims of a
token the gatekeeper has signed hold; the table of expiry times is reduced to
one event per card and per token; a post needs only one card to be looked up, as
the code orders them by creation.

### ModelGateway

`POST /v1/completions` on several replicas, one action per statement or call.

| State | Code |
|---|---|
| `req[r].pc`, `.ref`, `.conn` | where a request is in `run_single_flight` and `_compute`, its `task_ref`, the pooled connection it holds (live, or lost to the server) |
| `req[r].owns`, `.carried` | the advisory locks of its session: the one it took, those that came with the connection |
| `idle` | the connection that each replica's pool keeps (`minconn` 1), as the locks its session has |
| `stored`, `spend`, `paid`, `queued` | `completions`, today's `costs`, provider calls answered, `gate_decisions` rows |

`Arrive` is everything before the cache (validation, routing, redaction firewall);
`Connect`/`ConnectFails` is `getconn` through PgBouncer; `AcquireAndCheck` the lock
and the look-up; `CheckBudget`, `CallProvider`, `Meter` are `_compute`; `Store`,
`Unlock`, `ReleaseWithoutStoring`, `Return` the ways out, each with its failure.
`LoseSession`, `CrashReplica` and `NewDay` happen around them.

Abstractions: an answer is the number of the provider call that gave it; a call
costs `Dear`, or `Cheap` below the soft threshold; one agent; the query of a
second connection (budget, metering) is one action that borrows and gives back.

### QaRetry

Thursday and Friday for one Wednesday draft: brand steward and fact check, each on
a replica of its own, and the Friday task that asks for approval.

| State | Code |
|---|---|
| `state`, `strikes`, `ref` | `task_state` of the two reviews; `ref` is what `result_ref` says and of which version |
| `draft`, `newest`, `reviews` | the version in the draft's `result_ref`, the newest the model has written, the versions that each kind of review was shown and found clean |
| `answers`, `calls`, `reran` | the completions stored for the agent runs of a review task, by ordinal; how many runs the handler's client has asked for; reviews that were run again after an exception |
| `recipe` | how a redraft of the draft's type is rendered, if it is: a post, or a layout around the text |
| `lock`, `owns`, `sessionLost` | `pg_try_advisory_lock` on the draft, the owner's `lock_conn`, and whether its session has ended under it |
| `pc`, `text`, `found`, `attempt`, `plan`, `settling` | the handler's place and locals: bytes, `current_violations`, attempts, what it has decided, which task it is settling |
| `friday...`, `scheduled` | the Friday task, the version it read, what it asked approval for |
| `gate`, `carded` | `policies/fact-check-gate.yaml`; Teams has a card about the draft |

`LookAtDraft`, `Judge`, `ClaimDraft` are `_single_draft_qa_review`; `Regenerate`,
`InstallDraft`, `RecheckBrand`, `RecheckFacts` are `_run_qa_retry_loop`;
`VaultRefuses` is the 422 of `POST /assets` to an empty text;
`StoreVerdict`, `MoveTask`, `AdvanceFriday`, `SendCard` settle first the own task,
then the sibling's; `ReleaseDraft` is the `finally`. `HandlerRaises` (the worker runs
the handler again), `WorkerCrashes` with `Reconcile`, `MessageExpires`,
`LoseLockSession` and `EditGatePolicy` interfere.

A model call goes out under the agent run of its (task, ordinal), and the gateway
answers by that run (`VerdictsOn`, `Redraft`, `Keep`): the stored completion if there is
one, whatever the prompt is by now. `ClaimDraft` opens the loop's own client, whose
ordinals start again, so that its first redraft is the review's own verdict
(`Rendered`: a layout without text, `Shell`; of a post, nothing); a handler that is run
again goes through its old answers before it asks for new ones.

Abstractions: bytes are their version; the model's verdict is one of four; the
reconciliation of violations with the text is part of the verdict on the text that was
shown, and open on any other (`Judgements`); a review's answers are forgotten when its
handler has settled, as nothing asks for them again;
`advance_dependents`, `record_failure` and the cascade, apart in `TaskDispatch`, are
one action here; `limit` fixes the bounds of a behaviour from its start; a draft
without lineage to a task is left out, as no loop makes one.

### OptionsInbox, SourceLifecycle

| State | Code |
|---|---|
| `cards`, `decisions` | `option_cards` in the order of their `INSERT`, with their `created_at`; `approval_decisions` (unique by card) |
| `inFlight`, `built` | cards that `build_card` has stamped and whose POST is on its way; cards stamped so far, the clock of `created_at` |
| `posted` | cards whose signed links a digest has brought to Teams |
| `compose`, `digest`, `click` | where each compose task, the digest handler and each `GET /decide` is |
| `signals` | the Vault's `signals`, newest first: yields, retirements, markers, everything else |
| `retire`, `review` | the retire pass and the allowlist review in progress |

`Compose` has three candidates of which any subset survives its review and needs
two; `BuildCard` stamps a card and `InsertCard` is the arrival of its POST, so that two
cards can be listed against the order of their `INSERT`s, with a digest in between;
`ListPending` and `RouteDigest` are the digest handler with `policy.route`;
`FollowLink` and `RecordDecision` are the checks and the `INSERT` of a click;
`Yield` probes every listing, a url of several profiles once for each (`Listings`), and
`FloorBreached` counts these checks by url; `StartRetire` to `EndPass` are the retire
pass listing by listing, `Discover`,
`StartReview`, `ReviewCandidate`, `MonthlyReview` the others. `ComposeRaises`,
`RetireRaises`, `ReviewRaises` start a handler again from its top.

Abstractions: the bytes of an option are its letter; time is a count of days, but for
`created_at`, which is a place in the order of stamps; a POST that its handler has given
up is lost or still arrives, but is not overtaken by the answer to a later one
about the same thing; the rows of one yield are one signal with a check for every
listing, while the code's rows may be cut in the middle of a yield by the lookback;
scan profiles and bootstrap candidates are constants; which candidates the model finds
and what the nine criteria say of one is open; a probe is up or down.

### VaultRetention

| State | Code |
|---|---|
| `row`, `policy`, `audits` | the object's row, its `retention_policy`, its `retention_deletion` rows |
| `request` | how far the `POST` that creates it has come |
| `blobs` | contents in the blob store |
| `sweep` | each `run_retention_expiry`: what its outer transaction has locked (`batch`), deleted and not committed (`gone`), and the row it is at |

`FindBlob`, `Upload`, `Insert` are `store_content_addressed` and the transaction of
`create_object`; `Drop` is `DELETE /{type}/{id}`; `SelectExpired`, `CountReferences`,
`DeleteBlob`, `DeleteRow`, `Commit` are the sweep; `BlobFails` its
`retention_deletion_failed` branch, `RollBack` what an uncaught foreign-key violation
or the end of its process leaves.

Abstractions: `INSERT` and commit of a creation are one action; a statement that waits
for another transaction's row lock is a guard; the batch has no order (the query
has no `ORDER BY`); an object is created once; an object whose taxonomy rows refer to a
campaign for ever is a `Parents` edge; `raced` is a history variable, `active` the
sweeps that are run in a behaviour, both there for the properties.

## 3. Runs

Passing runs:

| Run | Shows |
|---|---|
| `dispatch_serial` | One replica, a diamond of four tasks listed against its order, a crash and an exception at any step of the dispatch, in any combination: no task but one in `retry_pending` is left without a message, a task has no more strikes before its turn than messages have been delivered, what `LoopRun` says may never happen does not, and without a fault every task ends. |
| `dispatch_replicas` | A join of two tasks on two replicas that compete, with a lock that may expire (1,127,503 states): gate and wake-ups throughout; a cascade kills only behind a dead or refused dependency, which until the lock expires never completes; no two runners and one alert per dead task until then. |
| `publish_races` | Two requests replay four tokens, with right and wrong bytes, of a live and a dry-run asset, with one failure, or with a toggle and no failure: a token makes one draft of its own asset, the queue overshoots its cap by less than one draft per request, and once the switch is on for good no request that is not past its check calls Buffer. |
| `loop_calm` | Posts of levels 1 and 4, two clicks, one sweep at a time, one mishap of the kinds that make no step be done again (a gate check or click that fails, an expired link or token, a Vault or a count that fails or is misread): implements `Release` with its liveness; an approval is acted on. |
| `loop_mishaps` | Two sweeps, two cards, two clicks, two operators on an empty table or one row, one mishap of any kind (1,717,925 states): no draft without approval, no write-back without draft, no more switch rows than operators, a decision is audited and stands. |
| `gateway` | Three requests on two replicas, one `task_ref` or none, one mishap: one request at a time in the window of a reference, one answer for it (implements `SingleFlight`), the budget overshot by at most the calls in flight, every request answered. |
| `qa_rounds` | Both reviews, their redraft loop and Friday: drafts of every recipe; two attempts when nothing goes wrong, with an edit of the gate policy in between, and one or two with one mishap (538,830 states): a pass names bytes that its review was shown and found clean, and what is put up for approval has so passed the brand steward, but for reviews that were run again after an exception; no redraft is paid for twice; the draft reaches Teams and never ends without a card or Friday on its way; both handlers end and unlock. |
| `option_cards` | Cards, digests, clicks, and the source functions that compete for them, in six families of bounds (1,066,786 states): one sound decision per card, one card per draft and failed attempt, overflow is younger than what is sent unless its POST came late, a retired source has a replacement on offer and has failed the floor's number of checks, passes keep their distance. |
| `vault_retention` | An agent run and two assets of the same bytes, one or two sweeps, one mishap: one audit row per deletion, content that is to be kept stays, content of what is deleted goes, what nothing references is swept. |

Runs that end in a violation each refute one sentence of the repository; the
sentence and the cause are in `PROJECT.json`, "findings":

| Run | What the code does |
|---|---|
| `unreviewed_scheduled` | The loop completes its own review before its sibling's `result_ref` is replaced; Friday starts in between and schedules the bytes that one review failed. |
| `recovered_source_retired` | The retire pass looks at the oldest of the rows it reads, where it means the newest. |
| `expired_stays` | A row that references an expired object makes every sweep roll back its whole batch. |

The models reach further disagreements between the code and its comments. Some
need other constants than the runs have, which are given here; the others are
behaviours of the runs themselves, or of code that a model leaves out for the
reason given:

| Where | Behaviour |
|---|---|
| `TaskDispatch`, two replicas, one expired lock | A late `advance_dependents` takes a finished task back to dispatchable (`db.py:151` against the comment at `state_machine.py:21`). |
| `TaskDispatch`, two replicas, `NotReadyMaxRequeues = 1` | Giving up on a not-ready task leaves it in `retry_pending` for ever (`worker.py:327`). |
| `TaskDispatch`, replicas that take turns, three heartbeats, `NotReadyMaxRequeues = 0` | Each heartbeat publishes the tasks once more, each give-up is a strike: a task dies of three without its turn while its dependency is still to complete: `OutcomesStand` fails (`worker.py:327`). |
| `TaskDispatch`, `FaultySteps = {"check"}`, one exception | A failed read of the gate makes `_retry_or_dead_letter` run a handler whose dependencies have not completed: `GateRespected` fails (`gating.py:79`, `worker.py:364`). |
| `TaskDispatch`, `FaultySteps = {"not_ready"}`, two replicas | A requeue that raises loses the only message of a pending task: `Driven` fails (`worker.py:310-315`). |
| `TaskDispatch`, one crash, fairness | The redelivered message only counts a strike, the task stays in `retry_pending` and nothing retries it: `EveryTaskEnds` without its fault exception fails (`docs/architecture/05-ai-architecture.md:297`). |
| `TaskDispatch`, two replicas, one expired lock, crash or exception | A cascade kills a task whose dependency completes: the dependency's tasks are published twice, or its redelivered copy counts a strike, while the first holder still runs it; or the worker raises or dies behind the completion and a late `advance_dependents` revives it. `CascadeJustified` without `NoFault` fails, against "provably cannot ever complete" (`state_machine.py:140-142`). |
| `TaskDispatch`, two replicas, one expired lock | Both report the third strike and both alert: `OneAlertPerDeadTask` without its first line fails (`worker.py:130`). |
| `TaskDispatch`, two replicas, one expired lock on the heartbeat | The tasks are published twice and both replicas run one: `OneRunner` without its first line fails, as it does when the replica that publishes them crashes on its way. |
| `TaskDispatch`, two replicas, one crash | The redelivered message ends in `retry_pending`, then a late `advance_dependents` makes the task dispatchable again, without a message: `Driven` fails. |
| `TaskDispatch` | The in-process retry runs the handler without moving the row through running (`worker.py:392`). |
| `KillSwitch`, an empty table, two operators | Both first toggles insert; the older row is never reported or updated again, and blocks if it is active: `SwitchAgrees` fails (`kill_switch.py:25`), so no run checks it; `loop_mishaps` shows what is left, one row an operator. |
| `Gatekeeper`, `click_fails` | A failure after `consume_link` leaves a decision without its rows (`approval_action.py:18`). |
| `Gatekeeper`, `link_expires` | A card marked expired by one click is approved by another that had read it before; `consume_link` does not look at `expires_at` (`approval_action.py:17`). |
| `Publisher` | A request refused for the cap has burned its token (`publish.py:28`); a failure after the ledger leaves no attempt row (`publish.py:4`). |
| `PublishLoop`, `answer_lost` | A retried gate check raises a second card; the approval of the first is never seen (`gate_check.py:202`, `approval_inbox.py:80`, `db.py:644`). |
| `PublishLoop`, `record_fails`, `timeout` | A failure behind the draft: the next sweep drafts the post again under a fresh token (`publish.py:405` against `publish-loop.yaml:21`); `draft_fails` and `crash` do the same. Two overlapping sweeps do so without any failure. |
| `PublishLoop`, posts of levels 3 and 4 | They get no card, so `/approval-status` never knows them (`handlers/publish.py:102`). |
| `ModelGateway`, `store_fails` | The `INSERT` raises on a live session: the connection goes back to the pool with the lock, and every later request of that reference on another connection waits for ever; that is why `Answered` excludes it (`caching.py:187`, `:262`). |
| `QaRetry` | Both reviews fail version 1: the one that loses the lock marks itself failed at once, Friday is dead-lettered as a cascade while the owner still redrafts, and a joint pass comes too late (`qa_retry.py:76-82`, `:1030-1035`). |
| `QaRetry` | After the owner has given the lock back, a sibling that judged the old bytes late starts a second loop of `MAX_QA_RETRY_ATTEMPTS` (`qa_retry.py:404-417`). |
| `QaRetry` | A refusal without a code is a violation in the first review and a pass in the loop's (`qa_retry.py:354-358`). |
| `QaRetry` | A late failing sibling turns a jointly completed review into a failed one after Friday was advanced; an exception between the own FAILED and the card leaves no card; a missing asset fails without one. |
| `QaRetry`, `vault_client_ext.py:474` | The loop's second client (`qa_retry.py:456`) numbers its runs from one again, so that attempt 1 gets the stored review instead of a redraft, against the docstring of `create_agent_run_idempotent` (`:459-461`). Of a post that is the empty text: the Vault answers 422, the handler runs again into the same answer, and the third strike dead-letters the review; the loop never redrafts a post. Of a carousel, newsletter or case study it is the layout without text, which is stored, installed, reviewed and, if both pass it, scheduled: not "the newly regenerated draft" of `qa_retry.py:426-429`. `update_agent_run` (`:334`) marks the failed review's run succeeded. `services/orchestrator/tests` use a gateway without the cache. |
| `QaRetry`, `step_raises` | A review that is run again gets its first verdict, whatever the draft is by then: it passes or fails bytes that no model was shown; that is why `PassIsEarned` and `ScheduledIsReviewed` except it. A loop that is run again installs its old redrafts, with the verdicts that belong to them, so the draft goes back to a text it has had before. |
| `QaRetry`, `lock_session_lost` | Two loops redraft one draft and the older bytes may win. |
| `OptionsInbox` | `route_digest_handler` gives `route` no `value_score` (`policy.py:92`), so that age decides the overflow where `policies/autonomy-matrix.yaml:63-67` has the expected value; overflow is not closed. |
| `OptionsInbox` | An attempt that fails after `create_option_card` makes a second card; a card that has expired undecided never comes back and is never closed; undecided old cards fill every digest, so younger ones can expire unseen; cards of a realtime kind are named in `escalations` and never posted; `notify_options_digest` reports success when its POST failed; nothing executes a decision; a click is checked against the expiry before it is recorded. |
| `SourceLifecycle` | A yield has a row for each (profile, url), `yield_history_by_url` joins them by url (`source_lifecycle.py:600-621`, `:687-706`), and `scan-profiles.yaml` lists some urls in two to five profiles: five failed checks are one to three nights, against "nightly checks" (`:656`). A url of several profiles gets one retire card for each in a pass. |
| `SourceLifecycle` | Once 500 other rows are younger than a marker its pass runs early, and a widened domain's revert is never seen; the monthly review keeps the oldest widening's date and builds no card; the daily allowlist review widens and cards the same domain again; the urls of retired sources are proposed again. |
| `vault_client_ext.py:474`, source functions (not modelled) | The agent runs of a task are numbered by their order: another set of eligible candidates in a second attempt takes over runs of other candidates. |
| `VaultRetention` | A creation that found its blob just before a sweep deleted it is answered 201 and has no content (`storage.py`, "dedup-safe deletion", against `retention.py:137-168`); `KeptContentStays` shows that it is the only one. |
| `VaultRetention` | After a roll-back the blobs of the batch are gone and its rows are not, with no audit row; reads of them fail until a later sweep commits. |
| `VaultRetention`, two active sweeps | Each counts the other's row, both leave the blob, and nothing ever deletes it; so `ErasedContentIsGone` is about one sweep at a time. |
| `VaultRetention` | `DELETE /assets` leaves the blob for ever, and the sweep later audits a retention deletion of what is gone; a failed `INSERT` leaves its upload; a rolled-back sweep leaves its `retention_run` row "running". |
| `retention-expiry-job.bicep:89` (not modelled) | The job's trigger is Manual, where `retention.py` and `docs/architecture/15` say scheduled. |

**Bounds.** Two replicas, sweeps, clicks or requests are enough for a race
between two of them, and the properties about races are about pairs, which is
also what the proofs use; the gateway has three requests, so that a third waits or
finds the pool full while two share a replica. A join of two parents is the
smallest graph with a wake-up to lose, the diamond adds a cascade through a level
and a file order against the dependencies. The requeue bound is 2 or 3 instead of
20: it is reached, with the dependency in every state. Three strikes are the
code's own. `MaxFaults` is 1 of each kind a dispatcher run names, a crash and an
exception in `dispatch_serial`, an expired lock in `dispatch_replicas`; `MaxMishaps`
is 1 in all. `QueueCap` is 1
or 2 instead of 10. `MaxCards`, `MaxTokens`, `MaxToggles` and `MaxArrivals` cap
what callers can make the services create; `loop_calm`, which has liveness, allows the
token that its one mishap may cost. `PoolSize` and `Backends` are 2 instead
of 20; `Limit` 2, `Soft` 1, `Dear` 2 and `Cheap` 1 make the limit reachable from
below, at it and past it. The QA loop has two attempts instead of ten (`MAX_QA_RETRY_ATTEMPTS`, `qa_retry.py:92`): the
first is answered with the stored review, the second is the first real redraft; with a
mishap there are two attempts only when no review passes, which is where a rerun meets
its old redrafts. `Budget` is 1 card a
day instead of 6, so that the second card is overflow; `Floor` 2 checks instead of
5, of two urls of which one has two listings, `Lookback` 3 signals instead of 500, cards live 1 and 2 days, passes are 2 days apart: each
is reached and passed in the families of `MCSourceLifecycle`, which bound days,
cards and signals together because each hazard needs its own mix. In the Vault two
assets with the same bytes are what reference counting is about, and the run that one
of them references is what a foreign key protects.

`publish_races` and `loop_mishaps` have a constraint that keeps failures apart from
toggles, and mishaps apart from a second toggle: no property relates them. The properties under a constraint are
invariants, `DecisionStands`, and `SwitchStops`, which only says what never happens. Symmetry
is used for replicas, operators, sweeps, clicks and drafts, in runs without
liveness properties. `CHECK_DEADLOCK FALSE` stands where a bound on what
callers may create ends a behaviour, or everything is done: the loop with
mishaps, the gateway, the QA and the option runs.

**Fairness.** All weak: no step here has to win against a competitor to go on.
`TaskDispatch`: the poll loop of a replica never stops, every HTTP client has a
timeout, Service Bus expires the locks of a dead process. `PublishLoop`: heartbeats
keep firing sweeps, servers answer what they have begun, Buffer posts what it has
queued. `ModelGateway`: each request goes on, the providers' clients have timeouts
and PgBouncer gives up on a client that waits too long. `QaRetry`: each review's
handler goes on, and Friday's message is polled. `VaultRetention`: each sweep goes on,
and is started again. Nobody assumes that a human clicks, that a request arrives, that
anything expires or fails. The option runs claim no liveness.

## 4. Proofs

| Theorem | Statement | Argument |
|---|---|---|
| `TypeCorrect` | `Spec => []TypeOK` | `TypeInv`: a busy replica holds a message, the message of a task step is about a task, an absent row has no history. Without the second part `Cur(r)` would not be a task. |
| `GateSafe` | `Spec => []GateRespected` | `GateInv`: a task that is dispatchable or past it, a replica past the gate, and a list of tasks to advance all imply that the dependencies have completed *once*; since reasons only grow, later regressions of the state do not matter. Assumes `GateReadsSucceed`: the two reads of the gate do not raise. Section 3 shows that it is needed. |
| `CascadeSafe` | `OneHeartbeat => (Spec => []CascadeJustified)` | `CascadeInv`: blocked states have blocking reasons, and a replica in the cascade has seen one; and without faults `OneOutcome`, on `Solo` and `AlertInv`: a task has at most one outcome in its history, and then no message but the one whose handling is winding it up; so what is blocked has not completed and never will. |
| `WakeupsAreKept` | `Spec => []NoLostWakeup` | `WakeInv`: either every row exists or nothing but heartbeats has happened. The last dependency completes in the step that puts its replica on the way to select its dependents, and a replica on its way stays there until it has advanced them. |
| `OneRunnerPerTask` | `OneHeartbeat => (Spec => []OneRunner)` | `Solo`: until a lock expires or a replica crashes, the heartbeat is unread, or every task has at most one message that is still to be handled, over queue, batches and what is still to be published. Two heartbeats publish the tasks twice, hence the assumption. |
| `OneAlertEach` | `OneHeartbeat => (Spec => []OneAlertPerDeadTask)` | `AlertInv` on `Solo`: no message that is still to be handled is about a dead task, but the one whose handling ends with its alert; so nobody kills a task twice. |
| `DrivenInTurn` | `FaultySteps \subseteq DispatchSteps => (TurnSpec => []Driven)` | for replicas that take turns, and any number of crashes, expired locks and exceptions within the dispatch: `DrivenInv`, where `Supplied` counts a message only while it is queued, in a batch, or with an orphan whose lock is its own, and `TurnRow` says what the one busy replica owes its task before it completes the message. |
| `StrikesAreFounded` | `GateReadsSucceed => (TurnSpec => []StrikesFounded)` | for replicas that take turns, any crash, expired lock and exception included: `StrikeInv` counts. The strikes of a task whose dependencies are not done, and the messages that may still cost it one (queued, in a batch, orphaned, still to be published by the replica at work, or to come from an unread heartbeat) never exceed the messages delivered: one per heartbeat, one more per crash and per expired lock. A requeue trades a message for a message, a give-up a message for a strike, a heartbeat itself for one message of each task; a crash delivers the message in hand once more, an expired lock a copy. `Chances` counts over a sequence as the cardinality of a set of positions, for which the library has the theorems. |
| `KeepsPromiseInTurn` | `FewDeliveries, GateReadsSucceed => (TurnSpec => OutcomesStand)` | the step simulation of `LoopRun`, handlers and calls raising, processes dying and locks expiring at will: `SerialInv` joins the invariants above with `StrikeInv` and `SettledInv` (a row says what its history says, and what the busy replica has read of it still holds). `FewDeliveries`: fewer heartbeats, crashes and expired locks together than the strikes that kill a task; so a third strike means that the task had its turn. With three the promise is broken (section 3). |
| `PublisherTypes` | `PublisherSpec => []PublisherTypeOK` | part of `IInv` below |
| `TokenDraftsOnce` | `PublisherSpec => []OneDraftPerToken` | `IInv`: a request past the hash check carries the bytes of its token; a request between ledger and draft owns its jti alone, which is burned and has no draft yet; drafted tokens are burned. |
| `OvershootIsBounded` | `PublisherSpec => []OvershootBounded` | `RoomLeft`: queue and requests that are past the count together stay below the cap, the requests and the unread counts; only a count below the cap adds a request to them. Assumes finitely many requests, at least one. |
| `SwitchIsFinal` | `PublisherSpec => SwitchStops` | `NonePast`, no request is past its check, is kept by every step while the switch is on; the rest is temporal. |
| `DraftsAreApproved` | `Spec => []DraftNeedsApproval` (publish loop) | `ApprovalInv`: gate checks that are about to mint, tokens, requests (by their token) and drafts are about cleared posts. It stands on `LoopInv`, with which the publisher's `IInv` and the inbox hold in the composed system. |
| `WriteBackIsSound` | `Spec => []WrittenBackIsDrafted` | `WriteBackInv`: a request that is answered "published" has sent its post, and the request that a sweep awaits is the sweep's own: no other sweep reuses it and it is about the post the sweep is at. |
| `LoopDraftsOnce`, `LoopRowsAreFew` | `Spec => []OneDraftPerToken`, `FewRowsAtStart => (Spec => []RowPerOperator)` | the steps of the loop are steps of the publisher, or of the switch, or leave them alone. |
| `ReleasedAsPromised` | `OneSweep, NothingIsRepeated => (Spec => Promise!Spec)` | the step simulation of `Release`, the other kinds of mishap happening at will: `ReleaseInv` says that the handler of a post raises its only card (`Asked`), that what a sweep has to do awaits publication and is approved where it is at (`Swept`), that a request is at work only while the sweep awaits it (`Awaited`), and that a post that is out is out once and written back, or about to be (`OutOnce`). `NothingIsRepeated` excludes crash, lost answer, timeout, and a draft or row whose failure is reported after it took effect: TLC finds a behaviour that breaks `Release` with each of the five alone. |
| `DecisionsAudited`, `DecisionsStand` | `Spec => []DecisionAudited`, `Spec => DecisionStands` | `InboxInv`: `CardAccount`, a card has been consumed just when its status is a choice, and then one click at most is deciding it and what is on record is what that click has written so far. |
| `DecisionsAreSound`, `OverflowByAge`, `CardsAreCounted` | option cards: `OneSoundDecision`, `OverflowIsYounger`, `CardsPerDraft` | `InboxInv`: a click past its checks holds an option of a posted card; `ListSound`, what a digest handler has read is all the live cards up to its last row that are not in Teams, and of these `Sent` takes the oldest by `created_at`, no two of which are equal. `DraftInv`: a draft that says it is composed has a card, and each further one is due to a mishap. |
| `DropsAreCovered` | `Spec => []NeverABareDrop` | `DropInv`: a pass that is about to write the signal has its card behind it, and cards are never taken away. |
| `RetirementsAreFounded` | `Spec => []RetirementIsFounded` | `FoundedInv`: the sources a pass has still to do are `Fallen`, which no later row or day undoes; `OldestAreEnough` counts the oldest checks that the pass looks at, by the order `Behind`: of enough checks they are as many as the floor asks for. |
| `PassesKeepTheirDistance` | `Spec => []PassesAreSpaced` | `SpacedInv`: as long as a retire pass is in progress, every marker within the lookback is older than its interval; the monthly review writes its marker in the step that looks for one. |
| `RowsAreFew`, `OneOperatorAgrees` | `FewRowsAtStart => (SwitchSpec => []RowPerOperator)`, one operator `=> (SwitchSpec => []SwitchAgrees)` | `RowsInv`: once there is a row, the rows and the operators that have found none and are about to insert one are together no more than the operators; nobody joins these after. Both start from the empty table or from one row. With two operators `SwitchAgrees` fails (section 3). |
| `GatewayTypes`, `WindowIsOne` | `GatewaySpec => []GatewayTypeOK`, `[]OneWindow` | `GatewayInv`: `RowInv` says of each request what its place implies for its connection, its lock and the stored answer; `LockInv` that no two sessions (of requests, or of pooled connections) hold one reference's lock. Leftover locks in the pool are part of it: without them a request could inherit a lock that somebody else has. |
| `OneAnswer` | `GatewaySpec => OneAnswerPerRef` | the step simulation of `SingleFlight`, from `GatewayInv`: who is answered has the stored call, and what is stored stays. |
| `BudgetIsHeld` | `GatewaySpec => []BudgetHeld` | `BudgetInv`: spend and the calls past the check together; the check adds one call only below the limit, and metering turns a call into spend. |
| `QaTypes`, `PassEarned` | `QaSpec => []QaTypeOK`, `[]PassIsEarned` | `QaInv` is `QaTypeOK`, `LoopInv`, `VerdictInv`, `FridayInv`, `PaidInv`, `HeardInv`. `VerdictInv`: `HandlerKnows`, what a handler has in its hands when it settles was shown to its review and found clean, for both kinds if the outcome is joint. It needs `RoundsMatch` of `LoopInv`: the two verdicts stored behind a redraft are on what that redraft rendered, so a loop that is run again passes what its answers passed. |
| `ScheduledReviewed` | `QaSpec => []ScheduledIsReviewed` | `FridayInv`: `VerdictFirst`, a completed review has a verdict and Friday starts only when both have; so the first `result_ref` it meets is the brand steward's. |
| `PaidOnce` | `QaSpec => []RedraftsArePaidOnce` | `PaidInv`: of the redrafts paid for, no review has more than its attempts less one, and each is among the stored answers of that review while its handler may still ask (`PaidFor`). `LoopInv` says how the answers are laid out: three to an attempt, the first of all the review's own verdict, so an attempt that is repeated finds its redraft stored. |
| `NothingSilent` | `QaSpec => []NothingEndsSilently` | `Heard`: as long as nothing goes wrong, a written draft has its card, or a handler that is about to send one (`PlansSound`: a handler plans a card just when it rejects), or nothing is lost (`NothingIsLost`): no verdict but passes, a handler that has moved its task has completed it, and while Friday is still pending with both reviews completed, one of the handlers is on its way to advance it. The last part is the one that is not obvious: a review can be completed by its sibling before it starts, and start all the same. |
| `DeletionAudited` | `Spec => []AuditedOnce` | `AuditInv`: `Accounted` relates request, row, policy and audit rows of an object; `LockedRows` and `Apart`, what a sweep has locked is due and locked by it alone until it commits. |
| `ContentStays` | `Spec => []KeptContentStays` | `ContentInv`: `Relied`, whoever has found or stored content has it, unless it raced; `Counted`, when a sweep is about to delete a blob, every kept asset with that content has raced with it. |
| `ErasedIsGone` | `Spec => []ErasedContentIsGone` | `AnchorInv`: while one sweep is run at a time, every blob has an asset that keeps it: a live one that the sweep has not taken, or one whose `DELETE` or creation left it. Assumes finitely many sweeps. |

The proofs assume the constants' `ASSUME`s in the modules and what the table names;
section 3 shows for each of the dispatcher's assumptions what happens without it.
They hold for every task graph (cyclic ones included), any number of replicas,
requests, tokens, operators, posts, cards, clicks, sources, objects, contents and
sweeps, any pool size, budget, floor, lookback and number of redraft rounds, and
any bound on faults and mishaps; the switch's, for a table of at most one row at the start. `TurnSpec` is the dispatcher whose replicas take
turns; with one replica it is `Spec`. No theorem has the constraint or the symmetry
of the run that checks its property.
A leaf that takes its prover more than about a second names the prover and a longer
time (`SMTT(30)`, `ZenonT(40)`), so that the proofs do not depend on a fast machine.

Only model-checked: liveness (`EveryTaskEnds`, `KeepsPromise` of the publish loop as far
as it says that something happens, `ApprovedIsPublished`, `Answered`,
`DraftReachesTeams`, `ReviewsEnd`, `UnblockedIsSwept`) is out of the prover's reach,
as are `ENABLED` and what a recursive definition computes for every input.
Every other property of a passing run is the property of a theorem. The type invariants
of gateway and QA are theorems that no run checks.

## 5. Not modelled, and what could follow

Not modelled within the components above:

- task dispatch: a publication to the bus that fails half-way (`worker.py:203`); the
  Teams routing of dead letters (`dead_letter.py`);
- QA: batches of more than one draft; which violations the reconciliation with the text drops;
- gateway: the content rules of the redaction firewall; the embedding endpoint;
- options: standing permissions and value scores, which every caller passes empty;
  `store.py`, which nothing calls at run time; the level review of
  `decision_quality.py` with `earn_in.py`;
- sources: the agent-run ledger, the nine criteria of the allowlist rule one by
  one, the parsing of cadences and dates;
- Vault: `PATCH`, reads, the consent and taxonomy checks before a write, the lineage
  search, the daily utilisation roll-up; `gate_decisions`, `costs` and `consent` rows,
  which have no `DELETE`.

Other handlers of `dispatch/handlers` call the gateway and the Vault once and complete
their task; in `TaskDispatch` they are the handler that completes, blocks or raises.

What could follow, in this order: the loop loader (acyclicity against a definition
by paths) and the dead-letter routing (one card per real failure); the level review of
`decision_quality.py`, which moves thresholds from a window of decisions; a raising
publication with `Driven` weakened accordingly; the write-back of the sweep as a merge of
`result_ref`.

Left out for good: prompts and validators of the function packages, the layout of
Teams cards, the console's pages, analytics ingest, the MCP wrappers, registry,
telemetry and credential libraries (no protocol, or pure I/O); key handling and
authentication; function-scoped kill switches, which no code writes; the parsing of
absent or forged tokens, which are refused before any state is read.
