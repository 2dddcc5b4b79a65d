------------------------------ MODULE QaRetry ------------------------------
(***************************************************************************)
(* Thursday and Friday of weekly-content-loop for one Wednesday draft: its *)
(* two review tasks (brand steward and fact check), the redraft loop that  *)
(* whichever of them owns the draft's advisory lock runs for both, and the *)
(* Friday task that asks for approval of the bytes it finds through the    *)
(* reviews.  dispatch/handlers/qa_retry.py, schedule_publish.py.           *)
(*                                                                         *)
(* The two reviews run on different replicas; every db helper commits      *)
(* before it returns, so one action is one helper or one remote call.  The *)
(* bytes of the draft are their version: 1 is Wednesday's, 2 and 3 are     *)
(* what the renderers make of a verdict, each redraft makes the next.      *)
(*                                                                         *)
(* A model call is made under the agent run of its (task, ordinal), and    *)
(* the gateway answers by that run alone (vault_client_ext.py,             *)
(* completion.py, caching.py): "answers" holds what it has answered to a   *)
(* review task so far, by ordinal.  The loop opens a client of its own,    *)
(* whose ordinals start again: its first redraft is asked for under the    *)
(* review's run, and a handler that is run again gets its old answers.     *)
(***************************************************************************)
EXTENDS Mishaps, Integers, Sequences

CONSTANT
  Limits       \* the bounds a behaviour may start with: MAX_QA_RETRY_ATTEMPTS
               \* (10 in the code), edits of policies/fact-check-gate.yaml, mishaps,
               \* the verdicts the model gives

\* What the model answers: pass, violation codes, the uncleared code, or a
\* refusal (pass: false) that names no code.  What it answers is kept with the
\* version it was shown; a redraft, with the version it makes.
Verdicts == {"pass", "codes", "uncleared", "refusal"}
Answers == [verdict : Verdicts \cup {"redraft"}, of : Nat]
Bounds == [attempts : Nat, flips : Nat, mishaps : Nat, verdicts : SUBSET Verdicts]

ASSUME QaAssumption == Limits \subseteq Bounds

Kind == {"brand_steward", "fact_check"}
Other(k) == IF k = "brand_steward" THEN "fact_check" ELSE "brand_steward"
NoOne == "no_one"
FirstDraft == 1
\* A verdict rendered as a draft: the layout of the draft's type, without text.
Shell(k) == IF k = "brand_steward" THEN 2 ELSE 3
LastShell == 3
DeadLetterStrike == 3

\* What a review concludes: no violation, violations that a redraft may fix,
\* the uncleared-reference code, the code of a disabled fact-check gate.
Findings == {"clean", "fixable", "uncleared", "gate_off"}
NeverRetryable == {"uncleared", "gate_off"}
\* How the draft's task_type is rendered (_DRAFT_REGEN_PARAMS): a post is only
\* its text, a carousel, newsletter or case study has a layout around it.
Recipes == {"none", "post", "layout"}

Terminal == {"completed", "failed", "dead_lettered"}
HandlerSteps == {"look", "judge", "claim", "regenerate", "install", "check_brand",
                 "check_fact", "store", "move", "advance", "release"}
Steps == HandlerSteps \cup {"waiting", "start", "card", "done", "crashed"}

VARIABLES
  state,       \* task_state.state of the two reviews
  strikes,     \* their retry_count
  ref,         \* their result_ref: what it says, and of which version
  drafted,     \* what the draft's result_ref is: an asset, undrafted, missing
  limit,       \* the bounds of this behaviour
  recipe,      \* how a redraft of the draft's task_type is rendered, if it is
  draft,       \* the version in the draft's result_ref
  newest,      \* the newest version the model has written
  answers,     \* completions stored for the agent runs of a review, by ordinal
  reviews,     \* history: the versions each kind was shown and found clean
  lock,        \* whose session holds the draft's advisory lock
  gate,        \* policies/fact-check-gate.yaml: approved
  flips,       \* edits of that file so far
  carded,      \* Teams has a card about the draft
  pc,          \* where the handler of a review is
  text,        \* the version it works on
  found,       \* current_violations of its loop
  attempt,     \* attempts of its loop
  calls,       \* agent runs its vault client has asked for
  owns,        \* it has a lock_conn to release
  settling,    \* the task it is settling
  plan,        \* what it settles: [says, joint, card]
  expired,     \* reviews whose message has been redelivered while they ran
  sessionLost, \* a lock's session has ended under its owner
  reran,       \* history: reviews whose handler was run again after an exception
  friday,      \* task_state.state of the Friday task
  fridayHas,   \* the version Friday's handler has read, 0 before
  fridayStrikes,
  scheduled    \* versions whose approval Friday has asked for

taskVars == <<state, strikes, ref>>
draftVars == <<draft, newest, answers>>
loopVars == <<text, found, attempt, calls>>
planVars == <<settling, plan>>
lockVars == <<lock, owns>>
fridayVars == <<friday, fridayHas, fridayStrikes, scheduled>>
givenVars == <<drafted, recipe, limit>>
gateVars == <<gate, flips>>
faultVars == <<expired, sessionLost, reran, mishaps>>
qaVars == <<taskVars, draftVars, loopVars, planVars, lockVars, fridayVars, givenVars,
            gateVars, reviews, carded, pc, faultVars>>

NoRef == [says |-> "nothing", of |-> 0, joint |-> FALSE]
NothingFound == [c \in Kind |-> "clean"]
NoPlan == [says |-> "nothing", joint |-> FALSE, card |-> FALSE]

QaInit ==
  /\ state = [k \in Kind |-> "dispatchable"]
  /\ strikes = [k \in Kind |-> 0]
  /\ ref = [k \in Kind |-> NoRef]
  /\ drafted \in {"asset", "undrafted", "missing"}
  /\ recipe \in Recipes
  /\ limit \in Limits
  /\ draft = FirstDraft
  /\ newest = LastShell
  /\ answers = [k \in Kind |-> <<>>]
  /\ reviews = [k \in Kind |-> {}]
  /\ lock = NoOne
  /\ gate \in BOOLEAN
  /\ flips = 0
  /\ carded = FALSE
  /\ pc = [k \in Kind |-> "waiting"]
  /\ text = [k \in Kind |-> FirstDraft]
  /\ found = [k \in Kind |-> NothingFound]
  /\ attempt = [k \in Kind |-> 0]
  /\ calls = [k \in Kind |-> 0]
  /\ owns = [k \in Kind |-> FALSE]
  /\ settling = [k \in Kind |-> k]
  /\ plan = [k \in Kind |-> NoPlan]
  /\ expired = {}
  /\ sessionLost = FALSE
  /\ reran = {}
  /\ friday = "pending"
  /\ fridayHas = 0
  /\ fridayStrikes = 0
  /\ scheduled = {}
  /\ mishaps = 0

GoesWrong(kind) == mishaps < limit.mishaps /\ Mishap(kind)

Step(k, from, to) == pc[k] = from /\ pc' = [pc EXCEPT ![k] = to]

\* The handler has decided; from here on it settles its own task and, if the
\* outcome is joint, its sibling's after it.  (What a handler has found and
\* tried has no effect any more and is forgotten.)
Settle(k, says, joint, card) ==
  /\ pc' = [pc EXCEPT ![k] = "store"]
  /\ found' = [found EXCEPT ![k] = NothingFound]
  /\ attempt' = [attempt EXCEPT ![k] = 0]
  /\ calls' = [calls EXCEPT ![k] = 0]
  /\ plan' = [plan EXCEPT ![k] = [says |-> says, joint |-> joint, card |-> card]]
  /\ settling' = [settling EXCEPT ![k] = k]

\* create_agent_run_idempotent: the ordinal of the next agent run of the client,
\* and whether the run is in the ledger and answered.
Run(k) == calls[k] + 1
Answered(k) == Run(k) <= Len(answers[k])

\* What the gateway may answer when version is to be judged: under an answered
\* run the stored completion, whatever the prompt is now.
VerdictsOn(k, version) ==
  IF Answered(k) THEN {answers[k][Run(k)]} ELSE [verdict : limit.verdicts, of : {version}]
Redraft(k) ==
  IF Answered(k) THEN answers[k][Run(k)] ELSE [verdict |-> "redraft", of |-> newest + 1]

\* The gateway stores what it has had to ask the provider for.
Keep(k, answer) ==
  answers' = IF Answered(k) THEN answers ELSE [answers EXCEPT ![k] = Append(@, answer)]
Count(k) == calls' = [calls EXCEPT ![k] = Run(k)]

\* A kind of review has found no violation in the very bytes it was shown.
Record(kind, version, answer, finding) ==
  reviews' = IF finding = "clean" /\ answer.of = version
             THEN [reviews EXCEPT ![kind] = @ \cup {version}]
             ELSE reviews

-----------------------------------------------------------------------------
(* dispatch_task: the gate reads the state, RUNNING is written after it *)

CheckState(k) ==
  /\ Step(k, "waiting", IF state[k] = "dispatchable" THEN "start" ELSE "done")
  /\ UNCHANGED <<taskVars, draftVars, loopVars, planVars, lockVars, fridayVars,
                 givenVars, gateVars, reviews, carded, faultVars>>

StartReview(k) ==
  /\ Step(k, "start", "look")
  /\ state' = [state EXCEPT ![k] = "running"]
  /\ UNCHANGED <<strikes, ref, draftVars, loopVars, planVars, lockVars, fridayVars,
                 givenVars, gateVars, reviews, carded, faultVars>>

(* _single_draft_qa_review *)

\* The draft's result_ref is read here, once.  A draft that was deliberately
\* not written reviews clean; one that has no asset fails, without a card.
LookAtDraft(k) ==
  /\ pc[k] = "look"
  /\ \/ /\ drafted = "undrafted"
        /\ Settle(k, "skipped", FALSE, FALSE)
        /\ UNCHANGED text
     \/ /\ drafted = "missing"
        /\ Settle(k, "rejected", FALSE, FALSE)
        /\ UNCHANGED text
     \/ /\ drafted = "asset" /\ k = "fact_check" /\ ~gate
        /\ Settle(k, "rejected", FALSE, TRUE)
        /\ UNCHANGED text
     \/ /\ drafted = "asset" /\ (k = "fact_check" => gate)
        /\ Step(k, "look", "judge")
        /\ text' = [text EXCEPT ![k] = draft]
        /\ UNCHANGED <<planVars, found, attempt, calls>>
  /\ UNCHANGED <<taskVars, draftVars, lockVars, fridayVars, givenVars,
                 gateVars, reviews, carded, faultVars>>

\* _resolve_verdict and what follows it: a refusal without a code is a
\* violation of its own.
Judgement(verdict) ==
  CASE verdict = "pass" -> "clean"
    [] verdict = "uncleared" -> "uncleared"
    [] OTHER -> "fixable"

\* The two checks of the text itself (reconcile_violations drops codes that it
\* does not bear out, find_uncleared_in_text adds one) make of a verdict on
\* other bytes what these bytes give; only a refusal never turns into a pass.
Judgements(answer, version) ==
  IF answer.of = version THEN {Judgement(answer.verdict)}
  ELSE {"fixable", "uncleared"} \cup IF answer.verdict = "refusal" THEN {} ELSE {"clean"}

Judge(k) ==
  /\ pc[k] = "judge"
  /\ \E answer \in VerdictsOn(k, text[k]) :
       /\ Keep(k, answer)
       /\ \E finding \in Judgements(answer, text[k]) :
            /\ Record(k, text[k], answer, finding)
            /\ \/ finding = "clean" /\ Settle(k, "passed", FALSE, FALSE)
               \/ /\ finding # "clean" /\ (finding \in NeverRetryable \/ recipe = "none")
                  /\ Settle(k, "rejected", FALSE, TRUE)
               \/ /\ finding # "clean" /\ finding \notin NeverRetryable /\ recipe # "none"
                  /\ Step(k, "judge", "claim")
                  /\ Count(k)
                  /\ found' = [found EXCEPT ![k] = [NothingFound EXCEPT ![k] = finding]]
                  /\ UNCHANGED <<planVars, attempt>>
  /\ UNCHANGED <<taskVars, draft, newest, text, lockVars, fridayVars, givenVars,
                 gateVars, carded, faultVars>>

\* Seeded bug: the loser leaves the card to the owner of the lock.
BugLoserIsSilent(k) ==
  /\ pc[k] = "claim"
  /\ \/ /\ lock = NoOne
        /\ Step(k, "claim", "regenerate")
        /\ lock' = k
        /\ owns' = [owns EXCEPT ![k] = TRUE]
        /\ calls' = [calls EXCEPT ![k] = 0]
        /\ UNCHANGED <<planVars, found, attempt>>
     \/ /\ lock # NoOne
        /\ Settle(k, "rejected", FALSE, FALSE)
        /\ UNCHANGED lockVars
  /\ UNCHANGED <<taskVars, draftVars, text, fridayVars, givenVars, gateVars,
                 reviews, carded, faultVars>>

\* Seeded bug: the loop's agent runs are counted on from the review's.
BugCountsOn(k) ==
  /\ pc[k] = "claim"
  /\ \/ /\ lock = NoOne
        /\ Step(k, "claim", "regenerate")
        /\ lock' = k
        /\ owns' = [owns EXCEPT ![k] = TRUE]
        /\ UNCHANGED <<planVars, found, attempt, calls>>
     \/ /\ lock # NoOne
        /\ Settle(k, "rejected", FALSE, TRUE)
        /\ UNCHANGED lockVars
  /\ UNCHANGED <<taskVars, draftVars, text, fridayVars, givenVars, gateVars,
                 reviews, carded, faultVars>>

\* pg_try_advisory_lock on the draft: the loser does not wait, it fails its
\* own task and sends its own card.  The winner opens a vault client of its own.
ClaimDraft(k) ==
  /\ pc[k] = "claim"
  /\ \/ /\ lock = NoOne
        /\ Step(k, "claim", "regenerate")
        /\ lock' = k
        /\ owns' = [owns EXCEPT ![k] = TRUE]
        /\ calls' = [calls EXCEPT ![k] = 0]
        /\ UNCHANGED <<planVars, found, attempt>>
     \/ /\ lock # NoOne
        /\ Settle(k, "rejected", FALSE, TRUE)
        /\ UNCHANGED lockVars
  /\ UNCHANGED <<taskVars, draftVars, text, fridayVars, givenVars, gateVars,
                 reviews, carded, faultVars>>

-----------------------------------------------------------------------------
(* _run_qa_retry_loop *)

GivesUp(k) ==
  \/ attempt[k] = limit.attempts
  \/ \E c \in Kind : found[k][c] \in NeverRetryable

\* What the renderer of the draft's type makes of an answer.
Rendered(k, answer) == IF answer.verdict = "redraft" THEN answer.of ELSE Shell(k)

\* One attempt: a redraft, or what the gateway has stored under its run.
AskForRedraft(k) ==
  /\ LET answer == Redraft(k) IN
       /\ Keep(k, answer)
       /\ text' = [text EXCEPT ![k] = Rendered(k, answer)]
  /\ Count(k)
  /\ newest' = IF Answered(k) THEN newest ELSE newest + 1
  /\ attempt' = [attempt EXCEPT ![k] = @ + 1]
  /\ Step(k, "regenerate", "install")
  /\ UNCHANGED <<planVars, found>>

\* Seeded bug: giving up is logged, but no card is sent.
BugGiveUpSilently(k) ==
  /\ pc[k] = "regenerate"
  /\ \/ ~GivesUp(k) /\ AskForRedraft(k)
     \/ /\ GivesUp(k)
        /\ Settle(k, "rejected", TRUE, FALSE)
        /\ UNCHANGED <<newest, answers, text>>
  /\ UNCHANGED <<taskVars, draft, lockVars, fridayVars, givenVars, gateVars,
                 reviews, carded, faultVars>>

\* The head of the loop: give up and fail both reviews with one card, or ask
\* for a redraft.
Regenerate(k) ==
  /\ pc[k] = "regenerate"
  /\ \/ ~GivesUp(k) /\ AskForRedraft(k)
     \/ /\ GivesUp(k)
        /\ Settle(k, "rejected", TRUE, TRUE)
        /\ UNCHANGED <<newest, answers, text>>
  /\ UNCHANGED <<taskVars, draft, lockVars, fridayVars, givenVars, gateVars,
                 reviews, carded, faultVars>>

\* A verdict has neither "post" nor "cta_url": as a post it is the empty text,
\* which POST /assets refuses.
IsEmpty(k) == recipe = "post" /\ text[k] = Shell(k)

InstallDraft(k) ==
  /\ ~IsEmpty(k)
  /\ Step(k, "install", "check_brand")
  /\ draft' = text[k]
  /\ UNCHANGED <<taskVars, newest, answers, loopVars, planVars, lockVars, fridayVars,
                 givenVars, gateVars, reviews, carded, faultVars>>

\* _run_single_qa_check reads the violation codes only: what names none is a
\* pass to it, a refusal too.
AsCodes(answer) ==
  IF answer.verdict \in {"codes", "uncleared"} THEN answer
  ELSE [answer EXCEPT !.verdict = "pass"]

RecheckBrand(k) ==
  /\ Step(k, "check_brand", "check_fact")
  /\ \E given \in VerdictsOn(k, text[k]) :
       LET answer == AsCodes(given)
           finding == Judgement(answer.verdict) IN
       /\ Keep(k, answer)
       /\ Record("brand_steward", text[k], answer, finding)
       /\ found' = [found EXCEPT ![k]["brand_steward"] = finding]
  /\ Count(k)
  /\ UNCHANGED <<taskVars, draft, newest, text, attempt, planVars, lockVars, fridayVars,
                 givenVars, gateVars, carded, faultVars>>

\* Seeded bug: the brand steward's verdict alone ends the loop.
BugConclude(k, fact) ==
  IF found[k]["brand_steward"] = "clean"
  THEN Settle(k, "passed", TRUE, FALSE)
  ELSE /\ Step(k, "check_fact", "regenerate")
       /\ found' = [found EXCEPT ![k]["fact_check"] = fact]
       /\ calls' = [calls EXCEPT ![k] = IF fact = "gate_off" THEN @ ELSE Run(k)]
       /\ UNCHANGED <<planVars, attempt>>

\* Both reviews of the new version are in: a joint pass, or another round.  Of
\* the three agent runs of a round the last is not asked for while the gate is
\* off, after which there is no round.
Conclude(k, fact) ==
  IF found[k]["brand_steward"] = "clean" /\ fact = "clean"
  THEN Settle(k, "passed", TRUE, FALSE)
  ELSE /\ Step(k, "check_fact", "regenerate")
       /\ found' = [found EXCEPT ![k]["fact_check"] = fact]
       /\ calls' = [calls EXCEPT ![k] = IF fact = "gate_off" THEN @ ELSE Run(k)]
       /\ UNCHANGED <<planVars, attempt>>

RecheckFacts(k) ==
  /\ pc[k] = "check_fact"
  /\ \/ /\ gate
        /\ \E given \in VerdictsOn(k, text[k]) :
             LET answer == AsCodes(given)
                 finding == Judgement(answer.verdict) IN
             /\ Keep(k, answer)
             /\ Record("fact_check", text[k], answer, finding)
             /\ Conclude(k, finding)
     \/ ~gate /\ Conclude(k, "gate_off") /\ UNCHANGED <<answers, reviews>>
  /\ UNCHANGED <<taskVars, draft, newest, text, lockVars, fridayVars, givenVars,
                 gateVars, carded, faultVars>>

-----------------------------------------------------------------------------
(* Settling a task: result_ref, state, dependents; then the sibling's or the card *)

StoreVerdict(k) ==
  /\ Step(k, "store", "move")
  /\ ref' = [ref EXCEPT ![settling[k]] = [says |-> plan[k].says, of |-> text[k],
                                             joint |-> plan[k].joint]]
  /\ UNCHANGED <<state, strikes, draftVars, loopVars, planVars, lockVars, fridayVars,
                 givenVars, gateVars, reviews, carded, faultVars>>

\* The handler has settled what it had to and sent its card.  (Its agent runs
\* are asked for no more, and what they were answered is forgotten too.)
Leave(k) ==
  /\ pc' = [pc EXCEPT ![k] = IF owns[k] THEN "release" ELSE "done"]
  /\ plan' = [plan EXCEPT ![k] = NoPlan]
  /\ settling' = [settling EXCEPT ![k] = k]
  /\ text' = [text EXCEPT ![k] = FirstDraft]
  /\ answers' = [answers EXCEPT ![k] = <<>>]

\* Where the handler goes when a task is settled.
AfterTask(k) ==
  IF plan[k].joint /\ settling[k] = k
  THEN /\ pc' = [pc EXCEPT ![k] = "store"]
       /\ settling' = [settling EXCEPT ![k] = Other(k)]
       /\ UNCHANGED <<plan, text, answers>>
  ELSE IF plan[k].card
  THEN pc' = [pc EXCEPT ![k] = "card"] /\ UNCHANGED <<planVars, text, answers>>
  ELSE Leave(k)

MoveTask(k) ==
  /\ pc[k] = "move"
  /\ \/ /\ plan[k].says = "rejected"
        /\ state' = [state EXCEPT ![settling[k]] = "failed"]
        /\ AfterTask(k)
     \/ /\ plan[k].says # "rejected"
        /\ state' = [state EXCEPT ![settling[k]] = "completed"]
        /\ Step(k, "move", "advance")
        /\ UNCHANGED <<planVars, text, answers>>
  /\ UNCHANGED <<strikes, ref, draft, newest, found, attempt, calls, lockVars, fridayVars,
                 givenVars, gateVars, reviews, carded, faultVars>>

\* advance_dependents (its three steps are apart in TaskDispatch).
AdvanceFriday(k) ==
  /\ pc[k] = "advance"
  /\ friday' = IF friday = "pending" /\ \A c \in Kind : state[c] = "completed"
               THEN "dispatchable" ELSE friday
  /\ AfterTask(k)
  /\ UNCHANGED <<taskVars, draft, newest, found, attempt, calls, lockVars, fridayHas, fridayStrikes,
                 scheduled, givenVars, gateVars, reviews, carded, faultVars>>

SendCard(k) ==
  /\ pc[k] = "card"
  /\ carded' = TRUE
  /\ Leave(k)
  /\ UNCHANGED <<taskVars, draft, newest, found, attempt, calls, lockVars, fridayVars, givenVars,
                 gateVars, reviews, faultVars>>

\* The session of k ends, or unlocks all it holds.
FreeLock(k) ==
  /\ lock' = IF lock = k THEN NoOne ELSE lock
  /\ owns' = [owns EXCEPT ![k] = FALSE]

ReleaseDraft(k) ==
  /\ Step(k, "release", "done")
  /\ FreeLock(k)
  /\ UNCHANGED <<taskVars, draftVars, loopVars, planVars, fridayVars, givenVars, gateVars,
                 reviews, carded, faultVars>>

-----------------------------------------------------------------------------
(* What goes wrong while a review runs *)

\* The call of the handler is over.
Forget(k) ==
  /\ found' = [found EXCEPT ![k] = NothingFound]
  /\ attempt' = [attempt EXCEPT ![k] = 0]
  /\ calls' = [calls EXCEPT ![k] = 0]
  /\ plan' = [plan EXCEPT ![k] = NoPlan]
  /\ settling' = [settling EXCEPT ![k] = k]
  /\ text' = [text EXCEPT ![k] = FirstDraft]

\* state_machine.record_failure: a no-op for a terminal task, else a strike.
RecordFailure(k) ==
  IF state[k] \in Terminal
  THEN UNCHANGED <<taskVars, carded>>
  ELSE /\ strikes' = [strikes EXCEPT ![k] = @ + 1]
       /\ state' = [state EXCEPT ![k] = IF strikes[k] + 1 < DeadLetterStrike
                                        THEN "retry_pending" ELSE "dead_lettered"]
       /\ carded' = (carded \/ strikes[k] + 1 = DeadLetterStrike)
       /\ UNCHANGED ref

\* The worker runs the handler again from its start, unless the task is
\* terminal by now.
RunAgain(k) ==
  /\ Forget(k)
  /\ RecordFailure(k)
  /\ LET again == state'[k] = "retry_pending" IN
       /\ pc' = [pc EXCEPT ![k] = IF again THEN "look" ELSE "done"]
       /\ reran' = IF again THEN reran \cup {k} ELSE reran

\* Seeded bug: the lock is released after the loop, not in a finally block.
BugHandlerRaises(k) ==
  /\ pc[k] \in HandlerSteps
  /\ GoesWrong("step_raises")
  /\ RunAgain(k)
  /\ UNCHANGED <<draftVars, lockVars, fridayVars, givenVars, gateVars,
                 reviews, expired, sessionLost>>

\* A call raises: the finally block releases the lock.
HandlerRaises(k) ==
  /\ pc[k] \in HandlerSteps
  /\ GoesWrong("step_raises")
  /\ FreeLock(k)
  /\ RunAgain(k)
  /\ UNCHANGED <<draftVars, fridayVars, givenVars, gateVars,
                 reviews, expired, sessionLost>>

\* create_asset raises on the 422 of the Vault: so it does at every attempt to
\* redraft a post, until the review is dead-lettered.
VaultRefuses(k) ==
  /\ pc[k] = "install" /\ IsEmpty(k)
  /\ FreeLock(k)
  /\ RunAgain(k)
  /\ UNCHANGED <<draftVars, fridayVars, givenVars, gateVars, reviews, expired,
                 sessionLost, mishaps>>

WorkerCrashes(k) ==
  /\ pc[k] \in HandlerSteps \cup {"card"}
  /\ GoesWrong("worker_crash")
  /\ Forget(k)
  /\ FreeLock(k)
  /\ pc' = [pc EXCEPT ![k] = "crashed"]
  /\ UNCHANGED <<taskVars, draftVars, fridayVars, givenVars, gateVars,
                 reviews, carded, expired, sessionLost, reran>>

\* The crashed replica's message reaches another one, which only counts a
\* strike (reconcile_redelivered_task).
Reconcile(k) ==
  /\ Step(k, "crashed", "done")
  /\ IF k \in expired THEN UNCHANGED <<taskVars, carded>> ELSE RecordFailure(k)
  /\ UNCHANGED <<draftVars, loopVars, planVars, lockVars, fridayVars, givenVars, gateVars,
                 reviews, faultVars>>

\* The review outlives its message lock (PT1M) and another replica gets the
\* message, once: it completes it.
MessageExpires(k) ==
  /\ pc[k] \in HandlerSteps
  /\ k \notin expired
  /\ GoesWrong("message_expires")
  /\ expired' = expired \cup {k}
  /\ RecordFailure(k)
  /\ UNCHANGED <<draftVars, loopVars, planVars, lockVars, fridayVars, givenVars, gateVars,
                 reviews, pc, sessionLost, reran>>

\* The session of lock_conn ends; its owner does not look at it until it
\* releases it.
LoseLockSession(k) ==
  /\ owns[k] /\ lock = k
  /\ GoesWrong("lock_session_lost")
  /\ lock' = NoOne
  /\ sessionLost' = TRUE
  /\ UNCHANGED <<taskVars, draftVars, loopVars, planVars, owns, fridayVars, givenVars,
                 gateVars, reviews, carded, pc, expired, reran>>

EditGatePolicy ==
  /\ flips < limit.flips
  /\ gate' = ~gate
  /\ flips' = flips + 1
  /\ UNCHANGED <<taskVars, draftVars, loopVars, planVars, lockVars, fridayVars, givenVars,
                 reviews, carded, pc, faultVars>>

-----------------------------------------------------------------------------
(* The Friday task: schedule-social-buffer or publish-newsletter *)

StayReviewed ==
  UNCHANGED <<taskVars, draftVars, loopVars, planVars, lockVars, givenVars, gateVars,
              reviews, pc, faultVars>>

\* Its message comes by while a review has failed: it is dead-lettered as a
\* cascade, which sends no card of its own.
FridayIsBlocked ==
  /\ friday = "pending"
  /\ \E k \in Kind : state[k] \in {"failed", "dead_lettered"}
  /\ friday' = "dead_lettered"
  /\ StayReviewed /\ UNCHANGED <<fridayHas, fridayStrikes, scheduled, carded>>

FridayStarts ==
  /\ friday = "dispatchable"
  /\ friday' = "running"
  /\ StayReviewed /\ UNCHANGED <<fridayHas, fridayStrikes, scheduled, carded>>

\* Seeded bug: Friday takes the bytes of the draft instead of its review's.
BugFridaySees == [says |-> "passed", of |-> draft, joint |-> FALSE]

\* resolve_lineage_result: the first dependency with a result_ref, in the order
\* of depends_on.
FridaySees == IF ref["brand_steward"].says # "nothing" THEN ref["brand_steward"]
              ELSE ref["fact_check"]

FridayReads ==
  /\ friday \in {"running", "retry_pending"}
  /\ fridayHas = 0
  /\ \/ /\ FridaySees.says = "passed"
        /\ fridayHas' = FridaySees.of
        /\ UNCHANGED <<friday, fridayStrikes, carded>>
     \/ /\ FridaySees.says = "skipped"
        /\ friday' = "completed"
        /\ UNCHANGED <<fridayHas, fridayStrikes, carded>>
     \/ /\ FridaySees.says \in {"rejected", "nothing"}
        /\ fridayStrikes' = fridayStrikes + 1
        /\ IF fridayStrikes + 1 < DeadLetterStrike
           THEN friday' = "retry_pending" /\ UNCHANGED carded
           ELSE friday' = "dead_lettered" /\ carded' = TRUE
        /\ UNCHANGED fridayHas
  /\ StayReviewed /\ UNCHANGED scheduled

\* The gate check raises the approval card of the bytes that were read.
FridaySchedules ==
  /\ friday \in {"running", "retry_pending"}
  /\ fridayHas # 0
  /\ scheduled' = scheduled \cup {fridayHas}
  /\ friday' = "completed"
  /\ carded' = TRUE
  /\ StayReviewed /\ UNCHANGED <<fridayHas, fridayStrikes>>

-----------------------------------------------------------------------------

ReviewStep(k) ==
  \/ CheckState(k) \/ StartReview(k) \/ LookAtDraft(k) \/ Judge(k) \/ ClaimDraft(k)
  \/ Regenerate(k) \/ VaultRefuses(k) \/ InstallDraft(k) \/ RecheckBrand(k)
  \/ RecheckFacts(k)
  \/ StoreVerdict(k) \/ MoveTask(k) \/ AdvanceFriday(k) \/ SendCard(k)
  \/ ReleaseDraft(k) \/ Reconcile(k)

ReviewMishap(k) ==
  \/ HandlerRaises(k) \/ WorkerCrashes(k) \/ MessageExpires(k) \/ LoseLockSession(k)

FridayStep == FridayIsBlocked \/ FridayStarts \/ FridayReads \/ FridaySchedules

QaNext ==
  \/ \E k \in Kind : ReviewStep(k) \/ ReviewMishap(k)
  \/ EditGatePolicy
  \/ FridayStep

QaSpec == QaInit /\ [][QaNext]_qaVars

\* A handler goes on (every client has a timeout), a crashed replica's message
\* is redelivered, and the worker keeps polling Friday's message.
QaFairSpec ==
  QaSpec /\ (\A k \in Kind : WF_qaVars(ReviewStep(k))) /\ WF_qaVars(FridayStep)

-----------------------------------------------------------------------------
(* Properties *)

RefSays == {"nothing", "passed", "rejected", "skipped"}
ReviewStates == Terminal \cup {"dispatchable", "running", "retry_pending"}

\* Types of task rows, loops, lock, carded and of the Friday task.
QaTypeOK ==
  /\ state \in [Kind -> ReviewStates]
  /\ strikes \in [Kind -> Nat]
  /\ ref \in [Kind -> [says : RefSays, of : Nat, joint : BOOLEAN]]
  /\ drafted \in {"asset", "undrafted", "missing"}
  /\ recipe \in Recipes
  /\ limit \in Bounds
  /\ draft \in Nat /\ newest \in Nat
  /\ answers \in [Kind -> Seq(Answers)]
  /\ reviews \in [Kind -> SUBSET Nat]
  /\ lock \in Kind \cup {NoOne}
  /\ gate \in BOOLEAN /\ flips \in Nat
  /\ carded \in BOOLEAN
  /\ pc \in [Kind -> Steps]
  /\ text \in [Kind -> Nat]
  /\ found \in [Kind -> [Kind -> Findings]]
  /\ attempt \in [Kind -> Nat]
  /\ calls \in [Kind -> Nat]
  /\ owns \in [Kind -> BOOLEAN]
  /\ settling \in [Kind -> Kind]
  /\ plan \in [Kind -> [says : RefSays, joint : BOOLEAN, card : BOOLEAN]]
  /\ expired \subseteq Kind
  /\ sessionLost \in BOOLEAN
  /\ reran \subseteq Kind
  /\ friday \in Terminal \cup {"pending", "dispatchable", "running", "retry_pending"}
  /\ fridayHas \in Nat /\ fridayStrikes \in Nat
  /\ scheduled \subseteq Nat
  /\ mishaps \in Nat

Reviewed(kind, version) == version \in reviews[kind]

\* A review task says "passed" only of bytes that its own kind of review was
\* shown and found without violation, whichever of the two handlers wrote it and
\* however redrafts, crashes, lost sessions and replayed answers interleave; what
\* a redraft loop passes has been so found by both, also when the loop is run
\* again on stored answers (ordinals restart with the redrafts they belong to).
\* The exception: a review that is run again after an exception keeps its first
\* verdict, whatever the draft is by then (the task_ref of _complete_and_meter).
PassIsEarned ==
  \A k \in Kind : ref[k].says = "passed" =>
    IF ref[k].joint THEN \A c \in Kind : Reviewed(c, ref[k].of)
                    ELSE Reviewed(k, ref[k].of) \/ k \in reran

\* Friday asks for approval only of bytes the brand steward has passed, also
\* when a loop rewrites draft and reviews while Friday's handler runs, unless
\* the brand steward's own review was run again after an exception.
ScheduledIsReviewed ==
  \A v \in scheduled : Reviewed("brand_steward", v) \/ "brand_steward" \in reran

\* However often the two handlers are run again, the provider is paid for at
\* most one redraft an attempt and review, none of them for the first attempt
\* (the ledger of agent runs, under whose first ordinal the loop finds the
\* review itself).
RedraftsArePaidOnce ==
  newest <= LastShell + IF limit.attempts = 0 THEN 0 ELSE 2 * (limit.attempts - 1)

\* When nothing goes wrong, every draft that has been written reaches Teams: as
\* an approval card, or as a card that says what its reviews found.
DraftReachesTeams == drafted = "asset" ~> carded \/ mishaps > 0

\* The same, told by the moment both reviews have ended: without a card in
\* Teams by then, both have completed and Friday is about to ask for approval of
\* bytes that passed.  No order of giving up, losing the lock, a redraft of the
\* sibling's and Friday's start leaves a written draft failed and unheard of
\* (the "needs edit" card of whoever does not get the lock, the one card of the
\* loop that gives up, the completion that advances Friday).
NothingEndsSilently ==
  mishaps = 0 /\ drafted = "asset" /\ ~carded /\ (\A k \in Kind : pc[k] = "done")
    => /\ \A k \in Kind : state[k] = "completed"
       /\ friday \in {"dispatchable", "running"} /\ FridaySees.says = "passed"

\* Whatever goes wrong, both handlers end and no draft stays locked.
ReviewsEnd ==
  /\ \A k \in Kind : <>[](pc[k] = "done")
  /\ <>[](lock = NoOne)

\* qa_retry.py:430 "only a joint pass on both counts as success": what Friday
\* asks approval for has passed both reviews.
ScheduledPassedBoth == \A v \in scheduled, k \in Kind : Reviewed(k, v)
=============================================================================
