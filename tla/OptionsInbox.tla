---------------------------- MODULE OptionsInbox ----------------------------
(***************************************************************************)
(* Option cards: public.option_cards and public.approval_decisions, the    *)
(* handler that composes a card from a Wednesday draft, the digest router  *)
(* and GET /decide.  dispatch/handlers/options.py, services/options_inbox, *)
(* vault/routers/option_cards.py, gatekeeper/app/option_decisions.py.      *)
(*                                                                         *)
(* Vault and gatekeeper autocommit: one action is one statement or one     *)
(* remote call.  The bytes of an option are its letter; created_at is the  *)
(* number of cards that had been built before.                             *)
(***************************************************************************)
EXTENDS Mishaps, Sequences, FiniteSets

CONSTANTS
  Draft,        \* drafts with a compose-options task
  Click,        \* GET /decide requests in progress at the same time
  Budget,       \* cards_per_working_day (6 in the policy)
  DigestDays,   \* life of a card (120 hours in the code)
  RealtimeDays, \* life of a card of a non-negotiable kind (72 hours)
  Limits        \* bounds a behaviour may start with: the tasks that its loops
                \* fire, and numbers of days, cards, signals and mishaps

Tasks == {"compose", "digest", "yield", "retire", "discover", "review", "monthly", "other"}

ASSUME InboxAssumption ==
  /\ Budget \in Nat /\ DigestDays \in Nat /\ RealtimeDays \in Nat
  /\ Limits \subseteq [tasks : SUBSET Tasks, days : Nat, cards : Nat,
                       signals : Nat, mishaps : Nat]

VARIABLES
  cards,     \* option_cards in the order of their INSERT: [kind, about, offers,
             \* born, made], the last two the day and the instant of created_at
  inFlight,  \* cards that are built and whose POST has not reached the Vault
  built,     \* cards built so far
  decisions, \* approval_decisions: [card, choice]
  posted,    \* cards whose signed links have been in a digest in Teams
  compose,   \* where the compose-options task of a draft is
  digest,    \* [pc, rows]: the cards that the digest handler has read
  click,     \* [pc, card, choice] of every request
  day,
  limit      \* the bounds of this behaviour

tableVars == <<cards, inFlight, built>>
cardVars == <<tableVars, decisions, posted, digest, click>>
inboxVars == <<cardVars, compose, day, limit, mishaps>>

Letters == {"A", "B", "C"}
RejectAll == "rejected_all"
NonNegotiable == {"source.allowlist"}
Fired(task) == task \in limit.tasks
GoesWrong(kind) == mishaps < limit.mishaps /\ Mishap(kind)

Realtime(i) == cards[i].kind \in NonNegotiable
Expired(i) == day >= cards[i].born + (IF Realtime(i) THEN RealtimeDays ELSE DigestDays)
Decided(i) == \E d \in decisions : d.card = i

InboxInit ==
  /\ cards = <<>>
  /\ inFlight = {}
  /\ built = 0
  /\ decisions = {}
  /\ posted = {}
  /\ compose = [d \in Draft |-> "waiting"]
  /\ digest = [pc |-> "idle", rows |-> {}]
  /\ click = [k \in Click |-> [pc |-> "idle", card |-> 0, choice |-> RejectAll]]
  /\ day = 0
  /\ limit \in Limits
  /\ mishaps = 0

\* build_card: created_at is read from the orchestrator's clock, and the POST
\* goes out under the fresh uuid of that card.
BuildCard(kind, about, offers) ==
  /\ built < limit.cards
  /\ built' = built + 1
  /\ inFlight' = inFlight \cup {[kind |-> kind, about |-> about, offers |-> offers,
                                 born |-> day, made |-> built]}
  /\ UNCHANGED <<cards, decisions, posted, digest, click>>

\* POST /option-cards reaches the Vault: the INSERT takes created_at as it is.
InsertCard(card) ==
  /\ cards' = Append(cards, card)
  /\ inFlight' = inFlight \ {card}
  /\ UNCHANGED <<built, decisions, posted, digest, click, compose, day, limit, mishaps>>

\* The handler that has posted a card waits for the answer.
OnItsWay(about) == \E c \in inFlight : c.about = about

\* It waits no longer: the POST is lost, or arrives behind its back.
Abandon(abouts) ==
  /\ \/ UNCHANGED inFlight
     \/ inFlight' = {c \in inFlight : c.about \notin abouts}
  /\ UNCHANGED <<cards, built, decisions, posted, digest, click>>

-----------------------------------------------------------------------------
(* compose_options_handler *)

\* The draft was skipped on purpose, or its asset is missing.
NothingToCompose(d) ==
  /\ compose[d] = "waiting"
  /\ \E end \in {"skipped", "blocked"} : compose' = [compose EXCEPT ![d] = end]
  /\ UNCHANGED <<cardVars, day, limit, mishaps>>

\* Definitions named "Bug..." are seeded bugs, used by no behaviour.
BugCompose(d) ==
  /\ compose[d] = "waiting"
  /\ \E survivors \in SUBSET Letters :
       IF Cardinality(survivors) < 2
       THEN compose' = [compose EXCEPT ![d] = "composed"] /\ UNCHANGED cardVars
       ELSE /\ BuildCard("content.reply", d, survivors)
            /\ compose' = [compose EXCEPT ![d] = "carded"]
  /\ UNCHANGED <<day, limit, mishaps>>

\* Each of three candidates passes its own review or does not; a card needs two.
Compose(d) ==
  /\ compose[d] = "waiting"
  /\ \E survivors \in SUBSET Letters :
       IF Cardinality(survivors) < 2
       THEN compose' = [compose EXCEPT ![d] = "blocked"] /\ UNCHANGED cardVars
       ELSE /\ BuildCard("content.reply", d, survivors)
            /\ compose' = [compose EXCEPT ![d] = "carded"]
  /\ UNCHANGED <<day, limit, mishaps>>

\* update_agent_run, set_result_ref, COMPLETED.
FinishCompose(d) ==
  /\ compose[d] = "carded" /\ ~OnItsWay(d)
  /\ compose' = [compose EXCEPT ![d] = "composed"]
  /\ UNCHANGED <<cardVars, day, limit, mishaps>>

\* The POST or one of these raises: the handler runs again, from its top.
ComposeRaises(d) ==
  /\ compose[d] = "carded"
  /\ GoesWrong("step_raises")
  /\ compose' = [compose EXCEPT ![d] = "waiting"]
  /\ Abandon({d})
  /\ UNCHANGED <<day, limit>>

ComposeOptions(d) ==
  NothingToCompose(d) \/ Compose(d) \/ FinishCompose(d) \/ ComposeRaises(d)

-----------------------------------------------------------------------------
(* route_digest_handler *)

Pending(i) == ~Decided(i) /\ ~Expired(i)

\* GET /option-cards?pending=true.
ListPending ==
  /\ digest.pc = "idle"
  /\ digest' = [pc |-> "listed", rows |-> {i \in 1..Len(cards) : Pending(i)}]
  /\ UNCHANGED <<tableVars, decisions, posted, click, compose, day, limit, mishaps>>

\* route: the handler gives it no permissions and no scores, so the sort by
\* value_score leaves the rows in the order of the listing, which is that of
\* created_at.  What has expired meanwhile and every realtime card is an
\* escalation, which the result_ref names and nothing posts.
InDigest == {i \in digest.rows : ~Expired(i) /\ ~Realtime(i)}
Older(i) == {j \in InDigest : cards[j].made < cards[i].made}
BugSent == {i \in InDigest : Cardinality(InDigest \ Older(i)) <= Budget}
Sent == {i \in InDigest : Cardinality(Older(i)) < Budget}

\* notify_options_digest swallows what the post raises; whatever raises after
\* it runs the handler again, which is another digest.
RouteDigest ==
  /\ digest.pc = "listed"
  /\ digest' = [pc |-> "idle", rows |-> {}]
  /\ \/ posted' = posted \cup Sent /\ UNCHANGED mishaps
     \/ GoesWrong("post_fails") /\ UNCHANGED posted
  /\ UNCHANGED <<tableVars, decisions, click, compose, day, limit>>

-----------------------------------------------------------------------------
(* GET /decide: the signature is over the card, the choice is the clicker's *)

\* A link that passes the checks: the others are answered and change nothing.
FollowLink(k) ==
  /\ click[k].pc = "idle"
  /\ \E i \in posted, choice \in Letters \cup {RejectAll} :
       /\ ~Expired(i)
       /\ choice \in cards[i].offers \cup {RejectAll}
       /\ click' = [click EXCEPT ![k] = [pc |-> "checked", card |-> i, choice |-> choice]]
  /\ UNCHANGED <<tableVars, decisions, posted, digest, compose, day, limit, mishaps>>

BugRecordDecision(k) ==
  /\ click[k].pc = "checked"
  /\ decisions' = decisions \cup {[card |-> click[k].card, choice |-> click[k].choice]}
  /\ click' = [click EXCEPT ![k].pc = "done"]
  /\ UNCHANGED <<tableVars, posted, digest, compose, day, limit, mishaps>>

\* INSERT under UNIQUE (card_id): the second is answered already_decided.
RecordDecision(k) ==
  /\ click[k].pc = "checked"
  /\ decisions' = IF Decided(click[k].card) THEN decisions
                  ELSE decisions \cup {[card |-> click[k].card, choice |-> click[k].choice]}
  /\ click' = [click EXCEPT ![k].pc = "done"]
  /\ UNCHANGED <<tableVars, posted, digest, compose, day, limit, mishaps>>

DayPasses ==
  /\ day < limit.days
  /\ day' = day + 1
  /\ UNCHANGED <<cardVars, compose, limit, mishaps>>

InboxStep ==
  \/ \E d \in Draft : ComposeOptions(d) /\ Fired("compose")
  \/ \E c \in inFlight : InsertCard(c)
  \/ (ListPending \/ RouteDigest) /\ Fired("digest")
  \/ \E k \in Click : FollowLink(k) \/ RecordDecision(k)
  \/ DayPasses

-----------------------------------------------------------------------------
(* Properties *)

\* option_decisions.py: one decision per card "atomically under concurrent
\* requests", of an option that the card offers and a human has been shown.
OneSoundDecision ==
  \A d \in decisions :
    /\ d.card \in posted
    /\ d.choice \in cards[d.card].offers \cup {RejectAll}
    /\ \A e \in decisions : d.card = e.card => d = e

\* create_option_card is not idempotent: a draft has one card and at most one
\* more for every attempt that fails after it, and none is lost.
CardsPerDraft ==
  \A d \in Draft :
    LET own == {i \in 1..Len(cards) : cards[i].about = d} IN
    /\ Cardinality(own) <= 1 + mishaps
    /\ compose[d] = "composed" => own # {}

\* Age alone decides which cards a digest leaves out, not the expected value of
\* policies/autonomy-matrix.yaml (route_digest_handler calls route without
\* value_score): a card in Teams is younger than one that waits only if that
\* one's POST came in behind it, for any order of INSERTs, digests, decisions
\* and expiries between the listing and the post.
OverflowIsYounger ==
  \A j \in posted : \A i \in 1..(j - 1) :
    cards[i].made < cards[j].made /\ ~Realtime(i) /\ ~Expired(i) => i \in posted
=============================================================================
