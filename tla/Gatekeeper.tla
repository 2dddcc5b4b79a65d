----------------------------- MODULE Gatekeeper -----------------------------
(***************************************************************************)
(* services/gatekeeper: POST /gate-check and GET /approval-action.  Both   *)
(* work on an autocommit connection, so one action is one SQL statement    *)
(* (or a run of them between which nothing shared is read) and any number  *)
(* of gate checks and clicks interleave.                                   *)
(***************************************************************************)
EXTENDS KillSwitch, Mishaps

CONSTANTS
  Post,        \* (agent_run_id, function_id, content_hash) triples
  Level,       \* autonomy level the policy gives each of them
  Caller,      \* clients of /gate-check
  Click,       \* clicks on approval links
  MaxCards,    \* bound on the approval cards of one behaviour
  MaxTokens    \* bound on the gate tokens of one behaviour

ApprovalLevels == {1, 2}
Choices == {"approved", "rejected"}
CardStatus == {"pending", "expired"} \cup Choices
Outcomes == {"link_expired", "link_already_used"} \cup Choices
Answers == {"none", "rejected", "escalated", "token", "error"}

ASSUME GateAssumption ==
  /\ Level \in [Post -> 0..4]
  /\ MaxCards \in Nat /\ MaxTokens \in Nat

VARIABLES
  cards,       \* governance.approval_inbox, in the order of creation
  tokens,      \* the post each gate token is bound to; the index is its jti
  gate,        \* [pc, post, answer, jti]: the gate check of each caller
  click,       \* [pc, card, choice]: the request of each click
  decided,     \* human rows of gate_decisions per card
  actions      \* governance.approval_actions rows per card and outcome

gateVars == <<tokens, gate>>
inboxVars == <<cards, click, decided, actions>>
gatekeeperVars == <<switchVars, gateVars, inboxVars, mishaps>>

CardsOf(p) == {i \in 1..Len(cards) : cards[i].post = p}
Newest(S) == CHOOSE i \in S : \A j \in S : j <= i

\* latest_approved finds a row; latest_status is the newest row of any status.
HasApproval(p) == \E i \in CardsOf(p) : cards[i].status = "approved"
LatestStatus(p) ==
  IF CardsOf(p) = {} THEN "not_found" ELSE cards[Newest(CardsOf(p))].status

GatekeeperInit ==
  /\ cards = <<>>
  /\ tokens = <<>>
  /\ gate = [c \in Caller |-> [pc |-> "idle", post |-> CHOOSE p \in Post : TRUE,
                               answer |-> "none", jti |-> 0]]
  /\ click = [k \in Click |-> [pc |-> "idle", card |-> 0, choice |-> "approved"]]
  /\ decided = [i \in 1..MaxCards |-> 0]
  /\ actions = [i \in 1..MaxCards |-> [o \in Outcomes |-> 0]]
  /\ mishaps = 0

-----------------------------------------------------------------------------
(* POST /gate-check.  A definition whose name starts with "Bug" is a seeded  *)
(* bug, kept beside what it changes and used by no behaviour.                *)

GateCheck(c, p) ==
  /\ gate[c].pc = "idle"
  /\ gate' = [gate EXCEPT ![c] = [pc |-> "policy", post |-> p,
                                  answer |-> "none", jti |-> 0]]
  /\ UNCHANGED <<tokens, inboxVars, mishaps>>

Answer(c, answer) ==
  gate' = [gate EXCEPT ![c].pc = "answered", ![c].answer = answer]

\* Kill switch, then level 0: a rejected decision and no token.
Refuse(c) ==
  /\ gate[c].pc = "policy"
  /\ Blocked \/ Level[gate[c].post] = 0
  /\ Answer(c, "rejected")
  /\ UNCHANGED <<tokens, inboxVars, mishaps>>

ApplyPolicy(c) ==
  /\ gate[c].pc = "policy"
  /\ ~Blocked /\ Level[gate[c].post] # 0
  /\ gate' = [gate EXCEPT ![c].pc =
                IF Level[gate[c].post] \in ApprovalLevels THEN "lookup" ELSE "mint"]
  /\ UNCHANGED <<tokens, inboxVars, mishaps>>

LookUpApproval(c) ==
  /\ gate[c].pc = "lookup"
  /\ gate' = [gate EXCEPT ![c].pc = IF HasApproval(gate[c].post) THEN "mint" ELSE "escalate"]
  /\ UNCHANGED <<tokens, inboxVars, mishaps>>

\* create_approval_request: always a new card, whatever cards there are.
Escalate(c) ==
  /\ gate[c].pc = "escalate"
  /\ Len(cards) < MaxCards
  /\ cards' = Append(cards, [post |-> gate[c].post, status |-> "pending",
                             consumed |-> FALSE, overdue |-> FALSE])
  /\ Answer(c, "escalated")
  /\ UNCHANGED <<tokens, click, decided, actions, mishaps>>

MintToken(c) ==
  /\ gate[c].pc = "mint"
  /\ Len(tokens) < MaxTokens
  /\ tokens' = Append(tokens, gate[c].post)
  /\ gate' = [gate EXCEPT ![c].pc = "answered", ![c].answer = "token",
                          ![c].jti = Len(tokens) + 1]
  /\ UNCHANGED <<inboxVars, mishaps>>

\* The gatekeeper dies or raises before it has written, or the caller's 15 s
\* run out after it has: the caller sees an exception either way.
GateFails(c) ==
  /\ \/ gate[c].pc \in {"policy", "lookup", "escalate", "mint"} /\ Mishap("gate_fails")
     \/ gate[c].pc = "answered" /\ gate[c].answer # "error" /\ Mishap("answer_lost")
  /\ Answer(c, "error")
  /\ UNCHANGED <<tokens, inboxVars>>

ServeGateCheck(c) ==
  \/ Refuse(c) \/ ApplyPolicy(c) \/ LookUpApproval(c) \/ Escalate(c)
  \/ MintToken(c) \/ GateFails(c)

-----------------------------------------------------------------------------
(* GET /approval-action: the human's click *)

\* get_by_link_token and the checks on the row it returned.
FollowLink(k) ==
  /\ click[k].pc = "idle"
  /\ \E i \in 1..Len(cards), choice \in Choices :
       click' = [click EXCEPT ![k] =
         [pc |-> IF cards[i].consumed THEN "refuse"
                 ELSE IF cards[i].overdue THEN "expire" ELSE "consume",
          card |-> i, choice |-> choice]]
  /\ UNCHANGED <<cards, decided, actions, gateVars, mishaps>>

Audit(k, outcome) ==
  /\ actions' = [actions EXCEPT ![click[k].card][outcome] = @ + 1]
  /\ click' = [click EXCEPT ![k].pc = "done"]

RefuseReplay(k) ==
  /\ click[k].pc = "refuse"
  /\ Audit(k, "link_already_used")
  /\ UNCHANGED <<cards, decided, gateVars, mishaps>>

BugMarkAnyExpired(k) ==
  /\ click[k].pc = "expire"
  /\ cards' = [cards EXCEPT ![click[k].card].status = "expired"]
  /\ click' = [click EXCEPT ![k].pc = "expired"]
  /\ UNCHANGED <<decided, actions, gateVars, mishaps>>

\* mark_expired: WHERE status = 'pending'.
MarkExpired(k) ==
  /\ click[k].pc = "expire"
  /\ cards' = [cards EXCEPT ![click[k].card].status =
                 IF @ = "pending" THEN "expired" ELSE @]
  /\ click' = [click EXCEPT ![k].pc = "expired"]
  /\ UNCHANGED <<decided, actions, gateVars, mishaps>>

RecordExpired(k) ==
  /\ click[k].pc = "expired"
  /\ Audit(k, "link_expired")
  /\ UNCHANGED <<cards, decided, gateVars, mishaps>>

BugConsumeAgain(k) ==
  /\ click[k].pc = "consume"
  /\ cards' = [cards EXCEPT ![click[k].card].status = click[k].choice,
                            ![click[k].card].consumed = TRUE]
  /\ click' = [click EXCEPT ![k].pc = "decide"]
  /\ UNCHANGED <<decided, actions, gateVars, mishaps>>

\* consume_link: one UPDATE ... WHERE link_consumed_at IS NULL.
ConsumeLink(k) ==
  LET i == click[k].card IN
  /\ click[k].pc = "consume"
  /\ IF cards[i].consumed
     THEN /\ click' = [click EXCEPT ![k].pc = "refuse"]
          /\ UNCHANGED cards
     ELSE /\ click' = [click EXCEPT ![k].pc = "decide"]
          /\ cards' = [cards EXCEPT ![i].status = click[k].choice, ![i].consumed = TRUE]
  /\ UNCHANGED <<decided, actions, gateVars, mishaps>>

InsertDecision(k) ==
  /\ click[k].pc = "decide"
  /\ decided' = [decided EXCEPT ![click[k].card] = @ + 1]
  /\ click' = [click EXCEPT ![k].pc = "audit"]
  /\ UNCHANGED <<cards, actions, gateVars, mishaps>>

RecordChoice(k) ==
  /\ click[k].pc = "audit"
  /\ Audit(k, click[k].choice)
  /\ UNCHANGED <<cards, decided, gateVars, mishaps>>

\* The gatekeeper dies, or a statement raises, between two statements.
ClickFails(k) ==
  /\ click[k].pc \notin {"idle", "done"}
  /\ Mishap("click_fails")
  /\ click' = [click EXCEPT ![k].pc = "done"]
  /\ UNCHANGED <<cards, decided, actions, gateVars>>

ServeClick(k) ==
  \/ FollowLink(k) \/ RefuseReplay(k) \/ MarkExpired(k) \/ RecordExpired(k)
  \/ ConsumeLink(k) \/ InsertDecision(k) \/ RecordChoice(k) \/ ClickFails(k)

\* expires_at of a card passes.
LinkExpires ==
  /\ Mishap("link_expires")
  /\ \E i \in 1..Len(cards) :
       /\ ~cards[i].overdue
       /\ cards' = [cards EXCEPT ![i].overdue = TRUE]
  /\ UNCHANGED <<click, decided, actions, gateVars>>

ToggleSwitch == Toggle /\ UNCHANGED <<gateVars, inboxVars, mishaps>>

-----------------------------------------------------------------------------
(* Properties *)

\* A human's decision is never revised, neither by the other choice on the
\* same card nor by a click that finds the link expired.
DecisionStands ==
  [][\A i \in 1..Len(cards) :
       cards[i].status \in Choices => cards'[i].status = cards[i].status]_gatekeeperVars

\* approval_action.py, "two concurrent clicks cannot both win": one human decision
\* and one approved or rejected audit row per card at most, whatever fails.  And
\* "All four click outcomes ... append one audit row": when nothing fails, a
\* decided card has its rows as soon as no click is at work.
AtRest == \A k \in Click : click[k].pc \in {"idle", "done"}
DecisionAudited ==
  \A i \in 1..Len(cards) :
    /\ decided[i] <= 1
    /\ actions[i]["approved"] + actions[i]["rejected"] <= 1
    /\ mishaps = 0 /\ AtRest /\ cards[i].status \in Choices
         => decided[i] = 1 /\ actions[i][cards[i].status] = 1
=============================================================================
