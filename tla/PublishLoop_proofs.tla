------------------------- MODULE PublishLoop_proofs -------------------------
(***************************************************************************)
(* Theorems about the publish loop and the gatekeeper and publisher it     *)
(* runs between, for any number of posts, sweeps, clicks, requests, cards  *)
(* and tokens, and with mishaps of every kind but in the last theorem,     *)
(* which names those it excludes.                                          *)
(***************************************************************************)
EXTENDS PublishLoop, Publisher_proofs, KillSwitch_proofs

-----------------------------------------------------------------------------
(* Types *)

Card == [post : Post, status : CardStatus, consumed : BOOLEAN, overdue : BOOLEAN]
GateSteps == {"idle", "policy", "lookup", "escalate", "mint", "answered"}
GateRow == [pc : GateSteps, post : Post, answer : Answers, jti : Nat]
ClickSteps == {"idle", "refuse", "expire", "expired", "consume", "decide", "audit", "done"}
ClickRow == [pc : ClickSteps, card : Nat, choice : Choices]
Calls == Request \cup {CHOOSE q \in Request : TRUE}
SweepRow == [pc : {"idle", "next", "mint", "token", "await"}, todo : SUBSET Post,
             post : Post, call : Calls]

\* The inbox, and the clicks: a click that has followed a link is about a card.
InboxTypes ==
  /\ cards \in Seq(Card) /\ Len(cards) <= MaxCards
  /\ click \in [Click -> ClickRow]
  /\ \A k \in Click : click[k].pc # "idle" => click[k].card \in 1..Len(cards)
  /\ decided \in [1..MaxCards -> Nat]
  /\ actions \in [1..MaxCards -> [Outcomes -> Nat]]

\* The gate checks: an answer that carries a token has the jti of a minted one.
GateTypes ==
  /\ tokens \in Seq(Post) /\ Len(tokens) <= MaxTokens
  /\ gate \in [Caller -> GateRow]
  /\ \A c \in Caller : gate[c].pc = "answered" /\ gate[c].answer = "token"
                         => gate[c].jti \in 1..Len(tokens)

SweepTypes ==
  /\ row \in [Post -> {"unasked", "awaiting", "published"}]
  /\ sweep \in [Sweep -> SweepRow]
  /\ \A s \in Sweep : At(s, "await") => sweep[s].call \in Request

-----------------------------------------------------------------------------
(* The inductive invariants *)

\* A link is consumed by the click that decides, and by nothing else.
Deciding(k, i) == click[k].pc \in {"decide", "audit"} /\ click[k].card = i
Recorded(i) == actions[i]["approved"] + actions[i]["rejected"]

\* What is on record of a card: nothing before its link is consumed; and after
\* that what the one click that decides it has written so far.
CardAccount(i) ==
  LET card == cards[i] IN
  /\ card.consumed <=> card.status \in Choices
  /\ decided[i] <= 1 /\ Recorded(i) <= 1
  /\ ~card.consumed => decided[i] = 0 /\ Recorded(i) = 0
  /\ \A k \in Click : Deciding(k, i) =>
       /\ card.consumed /\ card.status = click[k].choice
       /\ decided[i] = (IF click[k].pc = "decide" THEN 0 ELSE 1)
       /\ Recorded(i) = 0
       /\ \A l \in Click : Deciding(l, i) => l = k
  /\ mishaps = 0 /\ card.consumed /\ (\A k \in Click : ~Deciding(k, i))
       => decided[i] = 1 /\ actions[i][card.status] = 1

InboxInv ==
  /\ InboxTypes
  /\ \A i \in 1..Len(cards) : CardAccount(i)
  /\ \A i \in (Len(cards) + 1)..MaxCards : decided[i] = 0 /\ Recorded(i) = 0

\* The posts that may go out: no human has to be asked, or one has approved.
Cleared == {p \in Post : Level[p] \in ApprovalLevels => HasApproval(p)}

\* What is cleared stays so on its way: in the gate check that is about to mint,
\* in a token, in a request that carries it, in a draft.
ApprovalInv ==
  /\ \A c \in Caller : gate[c].pc = "mint" => gate[c].post \in Cleared
  /\ \A n \in 1..Len(tokens) : tokens[n] \in Cleared
  /\ \A q \in Request : req[q].pc # "free" => req[q].token.asset \in Cleared
  /\ \A n \in 1..Len(drafts) : drafts[n].asset \in Cleared

\* A request that is to be recorded, or that was, has made its draft; a sweep
\* waits for a request of its own, about the post it is at.
Sent == {p \in Post : p \in DryAsset \/ Copies(p) # {}}
WriteBackInv ==
  /\ \A q \in Request :
       req[q].pc = "record" \/ req[q].reason = "published" => req[q].sent \in Sent
  /\ \A s \in Sweep : At(s, "await") =>
       /\ req[sweep[s].call].sent = sweep[s].post
       /\ \A t \in Sweep : At(t, "await") /\ sweep[t].call = sweep[s].call => t = s
  /\ \A p \in Post : row[p] = "published" => p \in Sent

-----------------------------------------------------------------------------
(* The inbox: Escalate, the clicks, and the clock                            *)

\* No step takes a card away, gives it another post or revises a decision.
Evolved ==
  /\ Len(cards) <= Len(cards')
  /\ \A i \in 1..Len(cards) :
       /\ cards'[i].post = cards[i].post
       /\ cards[i].status \in Choices => cards'[i].status = cards[i].status

\* One card of the inbox is written.
LEMMA CardWritten ==
  ASSUME InboxTypes, NEW i \in 1..Len(cards), NEW card \in Card
  PROVE  /\ [cards EXCEPT ![i] = card] \in Seq(Card)
         /\ Len([cards EXCEPT ![i] = card]) = Len(cards)
         /\ [cards EXCEPT ![i] = card][i] = card
         /\ \A j \in 1..Len(cards) : j # i => [cards EXCEPT ![i] = card][j] = cards[j]
BY ExceptSeq DEF InboxTypes

LEMMA CardTyped ==
  ASSUME InboxTypes
  PROVE  Len(cards) \in Nat /\ \A i \in 1..Len(cards) : cards[i] \in Card
BY ElementOfSeq, LenProperties DEF InboxTypes

\* A card keeps its account if no click starts to decide it, nothing of it is
\* recorded, and a click that stops deciding it does so by a mishap.
LEMMA AccountKept ==
  ASSUME NEW i, CardAccount(i),
         cards'[i].consumed = cards[i].consumed,
         cards'[i].status \in Choices <=> cards[i].status \in Choices,
         cards[i].status \in Choices => cards'[i].status = cards[i].status,
         decided'[i] = decided[i], Recorded(i)' = Recorded(i),
         \A o \in Choices : actions'[i][o] = actions[i][o],
         \A l \in Click : Deciding(l, i)' => Deciding(l, i) /\ click'[l] = click[l],
         mishaps' = 0 => mishaps = 0 /\ \A l \in Click : Deciding(l, i) => Deciding(l, i)'
  PROVE  CardAccount(i)'
<1>1. /\ cards'[i].consumed <=> cards'[i].status \in Choices
      /\ decided'[i] <= 1 /\ Recorded(i)' <= 1
      /\ ~cards'[i].consumed => decided'[i] = 0 /\ Recorded(i)' = 0
  BY DEF CardAccount
<1>2. ASSUME NEW k \in Click, Deciding(k, i)'
      PROVE  /\ cards'[i].consumed /\ cards'[i].status = click'[k].choice
             /\ decided'[i] = (IF click'[k].pc = "decide" THEN 0 ELSE 1)
             /\ Recorded(i)' = 0
             /\ \A l \in Click : Deciding(l, i)' => l = k
  <2>1. Deciding(k, i) /\ click'[k] = click[k]
    BY <1>2
  <2>2. cards[i].consumed /\ cards[i].status = click[k].choice
    BY <2>1 DEF CardAccount
  <2> QED
    BY <2>1, <2>2 DEF CardAccount
<1>3. mishaps' = 0 /\ cards'[i].consumed /\ (\A k \in Click : ~Deciding(k, i)')
        => decided'[i] = 1 /\ actions'[i][cards'[i].status] = 1
  BY DEF CardAccount
<1> QED
  BY <1>1, <1>2, <1>3 DEF CardAccount

\* A statement of click k: what it writes to its card, its pc, and the rows.
LEMMA ClickStep ==
  ASSUME InboxInv, NEW k \in Click, click[k].pc # "idle", mishaps' = mishaps,
         NEW c, c = click[k].card,
         click' \in [Click -> ClickRow], click'[k].pc # "idle",
         click'[k].card = c,
         \A l \in Click : l # k => click'[l] = click[l],
         cards' \in Seq(Card), Len(cards') = Len(cards),
         decided' \in [1..MaxCards -> Nat], actions' \in [1..MaxCards -> [Outcomes -> Nat]],
         \A i \in 1..MaxCards : i # c =>
           decided'[i] = decided[i] /\ actions'[i] = actions[i],
         \A i \in 1..Len(cards) : i # c => cards'[i] = cards[i],
         CardAccount(c)',
         cards'[c].post = cards[c].post,
         cards[c].status \in Choices
           => cards'[c].status = cards[c].status
  PROVE  InboxInv' /\ Evolved
<1>1. Len(cards) \in Nat /\ c \in 1..Len(cards) /\ 1..Len(cards) \subseteq 1..MaxCards
  BY CardTyped, GateAssumption DEF InboxInv, InboxTypes
<1>2. InboxTypes'
  BY <1>1 DEF InboxInv, InboxTypes
<1>3. ASSUME NEW i \in 1..Len(cards), i # c PROVE CardAccount(i)'
  <2>1. cards'[i] = cards[i] /\ decided'[i] = decided[i] /\ actions'[i] = actions[i]
    BY <1>1, <1>3
  <2>2. \A l \in Click : Deciding(l, i)' <=> Deciding(l, i)
    BY <1>3 DEF Deciding
  <2>3. \A l \in Click : Deciding(l, i) => click'[l] = click[l]
    BY <1>3 DEF Deciding
  <2> QED
    BY <2>1, <2>2, <2>3, AccountKept DEF InboxInv, Recorded
<1>4. \A i \in 1..Len(cards) : CardAccount(i)'
  BY <1>3
<1>5. \A i \in (Len(cards) + 1)..MaxCards : decided'[i] = 0 /\ Recorded(i)' = 0
  <2>1. \A i \in (Len(cards) + 1)..MaxCards : i \in 1..MaxCards /\ i # c
    BY <1>1
  <2> QED
    BY <2>1 DEF InboxInv, Recorded
<1>6. InboxInv'
  BY <1>2, <1>4, <1>5 DEF InboxInv
<1>7. Evolved
  BY <1>1 DEF Evolved
<1> QED
  BY <1>6, <1>7

\* What a click that is on its way has at hand.
LEMMA ClickTyped ==
  ASSUME InboxInv, NEW k \in Click, click[k].pc # "idle"
  PROVE  /\ click[k] \in ClickRow /\ click[k].choice \in Choices
         /\ click[k].card \in 1..Len(cards) /\ click[k].card \in 1..MaxCards
         /\ cards[click[k].card] \in Card
         /\ CardAccount(click[k].card)
<1>1. click[k] \in ClickRow /\ click[k].card \in 1..Len(cards)
  BY DEF InboxInv, InboxTypes
<1>2. click[k].card \in 1..MaxCards
  BY <1>1, CardTyped, GateAssumption DEF InboxInv, InboxTypes
<1> QED
  BY <1>1, <1>2, CardTyped DEF InboxInv, ClickRow

\* A click whose statement leaves its card's account alone: it decides neither
\* before nor after.
LEMMA NeutralClick ==
  ASSUME InboxInv, NEW k \in Click, NEW c, c = click[k].card,
         click[k].pc \notin {"idle", "decide", "audit"},
         UNCHANGED <<decided, mishaps>>,
         click' \in [Click -> ClickRow], click'[k].pc \notin {"idle", "decide", "audit"},
         click'[k].card = c,
         \A l \in Click : l # k => click'[l] = click[l],
         cards' \in Seq(Card), Len(cards') = Len(cards),
         \A i \in 1..Len(cards) : i # c => cards'[i] = cards[i],
         cards'[c].post = cards[c].post, cards'[c].consumed = cards[c].consumed,
         cards'[c].status \in Choices <=> cards[c].status \in Choices,
         cards[c].status \in Choices => cards'[c].status = cards[c].status,
         actions' \in [1..MaxCards -> [Outcomes -> Nat]],
         \A i \in 1..MaxCards : i # c => actions'[i] = actions[i],
         \A o \in Choices : actions'[c][o] = actions[c][o]
  PROVE  InboxInv' /\ Evolved
<1>1. c \in 1..Len(cards) /\ CardAccount(c)
  BY ClickTyped
<1>2. CardAccount(c)'
  <2>1. \A l \in Click : Deciding(l, c)' => Deciding(l, c) /\ click'[l] = click[l]
    BY DEF Deciding
  <2>2. \A l \in Click : Deciding(l, c) => Deciding(l, c)'
    BY DEF Deciding
  <2>3. Recorded(c)' = Recorded(c)
    BY DEF Recorded, Choices
  <2> QED
    BY <1>1, <2>1, <2>2, <2>3, AccountKept
<1> QED
  BY <1>1, <1>2, ClickStep DEF InboxInv, InboxTypes

\* The link is of a card that is there; following it decides nothing.
LEMMA FollowInbox ==
  ASSUME InboxInv, NEW k \in Click, FollowLink(k)
  PROVE  InboxInv' /\ Evolved
<1>1. PICK i \in 1..Len(cards), choice \in Choices :
        click' = [click EXCEPT ![k] =
          [pc |-> IF cards[i].consumed THEN "refuse"
                  ELSE IF cards[i].overdue THEN "expire" ELSE "consume",
           card |-> i, choice |-> choice]]
  BY DEF FollowLink
<1>2. UNCHANGED <<cards, decided, actions, mishaps>> /\ Len(cards) \in Nat
  BY CardTyped DEF FollowLink, InboxInv
<1>3. /\ click' \in [Click -> ClickRow]
      /\ click'[k].card = i /\ click'[k].pc \in {"refuse", "expire", "consume"}
      /\ \A l \in Click : l # k => click'[l] = click[l]
  BY <1>1, <1>2 DEF InboxInv, InboxTypes, ClickRow, ClickSteps
<1>4. InboxTypes'
  BY <1>2, <1>3 DEF InboxInv, InboxTypes
<1>5. ASSUME NEW j \in 1..Len(cards) PROVE CardAccount(j)'
  <2>1. \A l \in Click : Deciding(l, j)' <=> Deciding(l, j)
    BY <1>3 DEF Deciding, FollowLink
  <2>2. \A l \in Click : Deciding(l, j)' => click'[l] = click[l]
    BY <1>3 DEF Deciding
  <2> QED
    BY <1>2, <2>1, <2>2, AccountKept DEF InboxInv, Recorded
<1> QED
  BY <1>2, <1>4, <1>5 DEF InboxInv, Recorded, Evolved

LEMMA NeutralInbox ==
  ASSUME InboxInv, NEW k \in Click, RefuseReplay(k) \/ MarkExpired(k) \/ RecordExpired(k)
  PROVE  InboxInv' /\ Evolved
<1>1. click[k].pc \in {"refuse", "expire", "expired"}
  BY DEF RefuseReplay, MarkExpired, RecordExpired
<1>2. PICK c \in 1..Len(cards) : c = click[k].card /\ c \in 1..MaxCards /\ cards[c] \in Card
                                 /\ CardAccount(c)
  BY <1>1, ClickTyped
<1>3. /\ UNCHANGED <<decided, mishaps>>
      /\ click' \in [Click -> ClickRow] /\ click'[k].pc \in {"done", "expired"}
      /\ click'[k].card = c
      /\ \A l \in Click : l # k => click'[l] = click[l]
  <2>1. PICK to \in {"done", "expired"} : click' = [click EXCEPT ![k].pc = to]
    BY DEF RefuseReplay, RecordExpired, MarkExpired, Audit
  <2>2. UNCHANGED <<decided, mishaps>>
    BY DEF RefuseReplay, RecordExpired, MarkExpired
  <2> QED
    BY <1>2, <2>1, <2>2 DEF InboxInv, InboxTypes, ClickRow, ClickSteps
<1>4. ASSUME NEW o \in {"link_already_used", "link_expired"},
             actions' = [actions EXCEPT ![c][o] = @ + 1]
      PROVE  /\ actions' \in [1..MaxCards -> [Outcomes -> Nat]]
             /\ \A i \in 1..MaxCards : i # c => actions'[i] = actions[i]
             /\ \A p \in Choices : actions'[c][p] = actions[c][p]
  <2>1. o \in Outcomes /\ \A p \in Choices : p \in Outcomes /\ p # o
    BY <1>4 DEF Outcomes, Choices
  <2> QED
    BY <1>2, <1>4, <2>1 DEF InboxInv, InboxTypes
<1>5. CASE RefuseReplay(k) \/ RecordExpired(k)
  <2>1. cards' = cards
    BY <1>5 DEF RefuseReplay, RecordExpired
  <2>2. \/ actions' = [actions EXCEPT ![c]["link_already_used"] = @ + 1]
        \/ actions' = [actions EXCEPT ![c]["link_expired"] = @ + 1]
    BY <1>2, <1>5 DEF RefuseReplay, RecordExpired, Audit
  <2>3. /\ actions' \in [1..MaxCards -> [Outcomes -> Nat]]
        /\ \A i \in 1..MaxCards : i # c => actions'[i] = actions[i]
        /\ \A p \in Choices : actions'[c][p] = actions[c][p]
    BY <1>4, <2>2
  <2> QED
    BY SMTT(30), <1>1, <1>2, <1>3, <2>1, <2>3, NeutralClick DEF InboxInv, InboxTypes
<1>6. CASE MarkExpired(k)
  <2> DEFINE card == [cards[c] EXCEPT !.status = IF @ = "pending" THEN "expired" ELSE @]
  <2>1. cards' = [cards EXCEPT ![c] = card] /\ actions' = actions
    BY <1>2, <1>6 DEF MarkExpired
  <2>2. /\ card \in Card /\ card.post = cards[c].post /\ card.consumed = cards[c].consumed
        /\ card.status \in Choices <=> cards[c].status \in Choices
        /\ card.status \in Choices => card.status = cards[c].status
    BY <1>2 DEF Card, CardStatus, Choices
  <2> HIDE DEF card
  <2>3. /\ cards' \in Seq(Card) /\ Len(cards') = Len(cards) /\ cards'[c] = card
        /\ \A i \in 1..Len(cards) : i # c => cards'[i] = cards[i]
    BY <1>2, <2>1, <2>2, CardWritten DEF InboxInv
  <2> QED
    BY SMTT(30), <1>1, <1>2, <1>3, <2>1, <2>2, <2>3, NeutralClick DEF InboxInv, InboxTypes
<1> QED
  BY <1>5, <1>6

\* The winner writes status and link_consumed_at; nobody has decided before.
LEMMA ConsumeInbox ==
  ASSUME InboxInv, NEW k \in Click, ConsumeLink(k)
  PROVE  InboxInv' /\ Evolved
<1>1. click[k].pc = "consume" /\ UNCHANGED <<decided, actions, mishaps>>
  BY DEF ConsumeLink
<1>2. PICK c \in 1..Len(cards) : /\ c = click[k].card /\ c \in 1..MaxCards /\ cards[c] \in Card
                                 /\ CardAccount(c) /\ click[k].choice \in Choices
  BY <1>1, ClickTyped
<1>3. /\ decided \in [1..MaxCards -> Nat] /\ actions \in [1..MaxCards -> [Outcomes -> Nat]]
      /\ click \in [Click -> ClickRow]
  BY DEF InboxInv, InboxTypes
<1>4. CASE cards[c].consumed
  <2>1. click' = [click EXCEPT ![k].pc = "refuse"] /\ cards' = cards
    BY <1>2, <1>4 DEF ConsumeLink
  <2>2. /\ click' \in [Click -> ClickRow] /\ click'[k].pc = "refuse" /\ click'[k].card = c
        /\ \A l \in Click : l # k => click'[l] = click[l]
    BY <1>2, <1>3, <2>1 DEF ClickRow, ClickSteps
  <2> QED
    BY <1>1, <1>2, <1>3, <2>1, <2>2, NeutralClick DEF InboxInv, InboxTypes
<1>5. CASE ~cards[c].consumed
  <2> DEFINE card == [cards[c] EXCEPT !.status = click[k].choice, !.consumed = TRUE]
  <2>1. cards' = [cards EXCEPT ![c] = card] /\ click' = [click EXCEPT ![k].pc = "decide"]
    BY <1>2, <1>5 DEF ConsumeLink
  <2>2. /\ card \in Card /\ card.post = cards[c].post /\ card.consumed
        /\ card.status = click[k].choice
    BY <1>2 DEF Card, CardStatus
  <2> HIDE DEF card
  <2>3. /\ cards' \in Seq(Card) /\ Len(cards') = Len(cards) /\ cards'[c] = card
        /\ \A i \in 1..Len(cards) : i # c => cards'[i] = cards[i]
    BY <1>2, <2>1, <2>2, CardWritten DEF InboxInv
  <2>4. /\ click' \in [Click -> ClickRow] /\ click'[k].pc = "decide"
        /\ click'[k].card = c /\ click'[k].choice = click[k].choice
        /\ \A l \in Click : l # k => click'[l] = click[l]
    BY <1>2, <1>3, <2>1 DEF ClickRow, ClickSteps
  <2>5. /\ decided[c] = 0 /\ Recorded(c) = 0 /\ cards[c].status \notin Choices
        /\ \A l \in Click : ~Deciding(l, c)
    BY <1>5 , <1>2 DEF CardAccount
  <2>6. \A l \in Click : Deciding(l, c)' <=> l = k
    BY <2>4, <2>5 DEF Deciding
  <2>7. CardAccount(c)'
    BY <1>1, <1>2, <2>2, <2>3, <2>4, <2>5, <2>6 DEF CardAccount, Recorded
  <2> QED
    BY <1>1, <1>2, <1>3, <2>2, <2>3, <2>4, <2>5, <2>7, ClickStep
<1> QED
  BY <1>4, <1>5

\* The winner's decision, and then its row.
LEMMA DecideInbox ==
  ASSUME InboxInv, NEW k \in Click, InsertDecision(k) \/ RecordChoice(k)
  PROVE  InboxInv' /\ Evolved
<1>1. click[k].pc \in {"decide", "audit"} /\ UNCHANGED <<cards, mishaps>>
  BY DEF InsertDecision, RecordChoice
<1>2. PICK c \in 1..Len(cards) : /\ c = click[k].card /\ c \in 1..MaxCards
                                 /\ CardAccount(c) /\ click[k].choice \in Choices
  BY <1>1, ClickTyped
<1>3. /\ decided \in [1..MaxCards -> Nat] /\ actions \in [1..MaxCards -> [Outcomes -> Nat]]
      /\ click \in [Click -> ClickRow] /\ cards \in Seq(Card) /\ click[k].choice \in Outcomes
  BY <1>2 DEF InboxInv, InboxTypes, Choices, Outcomes
<1>4. /\ Deciding(k, c) /\ cards[c].consumed /\ cards[c].status = click[k].choice
      /\ decided[c] = (IF click[k].pc = "decide" THEN 0 ELSE 1) /\ Recorded(c) = 0
      /\ \A l \in Click : Deciding(l, c) => l = k
  <2>1. Deciding(k, c)
    BY <1>1, <1>2 DEF Deciding
  <2> QED
    BY <1>2, <2>1 DEF CardAccount
<1>5. CASE InsertDecision(k)
  <2>1. /\ decided' = [decided EXCEPT ![c] = @ + 1] /\ actions' = actions
        /\ click' = [click EXCEPT ![k].pc = "audit"] /\ click[k].pc = "decide"
    BY <1>2, <1>5 DEF InsertDecision
  <2>2. /\ click' \in [Click -> ClickRow] /\ click'[k].pc = "audit"
        /\ click'[k].card = c /\ click'[k].choice = click[k].choice
        /\ \A l \in Click : l # k => click'[l] = click[l]
    BY <1>2, <1>3, <2>1 DEF ClickRow, ClickSteps
  <2>3. decided' \in [1..MaxCards -> Nat] /\ decided'[c] = 1
        /\ \A i \in 1..MaxCards : i # c => decided'[i] = decided[i]
    BY <1>2, <1>3, <1>4, <2>1
  <2>4. \A l \in Click : Deciding(l, c)' <=> l = k
    BY <1>4, <2>2 DEF Deciding
  <2>5. CardAccount(c)'
    BY <1>1, <1>2, <1>4, <2>1, <2>2, <2>3, <2>4 DEF CardAccount, Recorded
  <2> QED
    BY <1>1, <1>2, <1>3, <2>1, <2>2, <2>3, <2>5, ClickStep
<1>6. CASE RecordChoice(k)
  <2>1. /\ actions' = [actions EXCEPT ![c][click[k].choice] = @ + 1] /\ decided' = decided
        /\ click' = [click EXCEPT ![k].pc = "done"] /\ click[k].pc = "audit"
    BY <1>2, <1>6 DEF RecordChoice, Audit
  <2>2. /\ click' \in [Click -> ClickRow] /\ click'[k].pc = "done"
        /\ click'[k].card = c
        /\ \A l \in Click : l # k => click'[l] = click[l]
    BY <1>2, <1>3, <2>1 DEF ClickRow, ClickSteps
  <2>3. /\ actions' \in [1..MaxCards -> [Outcomes -> Nat]]
        /\ \A i \in 1..MaxCards : i # c => actions'[i] = actions[i]
        /\ \A p \in Outcomes : actions'[c][p] =
             IF p = click[k].choice THEN actions[c][p] + 1 ELSE actions[c][p]
    BY <1>2, <1>3, <2>1
  <2>4. /\ actions[c]["approved"] = 0 /\ actions[c]["rejected"] = 0
        /\ actions[c]["approved"] \in Nat /\ actions[c]["rejected"] \in Nat
    BY <1>2, <1>3, <1>4 DEF Recorded, Outcomes, Choices
  <2>5. Recorded(c)' = 1 /\ actions'[c][click[k].choice] = 1
    BY <1>2, <1>3, <2>3, <2>4 DEF Recorded, Outcomes, Choices
  <2>6. \A l \in Click : ~Deciding(l, c)'
    BY <1>4, <2>2 DEF Deciding
  <2>7. CardAccount(c)'
    BY <1>1, <1>2, <1>4, <2>1, <2>5, <2>6 DEF CardAccount
  <2> QED
    BY <1>1, <1>2, <1>3, <2>1, <2>2, <2>3, <2>7, ClickStep
<1> QED
  BY <1>5, <1>6

\* A click that fails leaves its work half done: what it has not written is
\* missing, and that is what the mishap stands for.
LEMMA ClickFailsInbox ==
  ASSUME InboxInv, mishaps \in Nat, NEW k \in Click, ClickFails(k)
  PROVE  InboxInv' /\ Evolved
<1>1. /\ UNCHANGED <<cards, decided, actions>> /\ mishaps' # 0
      /\ click' = [click EXCEPT ![k].pc = "done"] /\ click[k].pc # "idle"
  BY DEF ClickFails, Mishap
<1>2. /\ click' \in [Click -> ClickRow] /\ click'[k].pc = "done"
      /\ click'[k].card = click[k].card
      /\ \A l \in Click : l # k => click'[l] = click[l]
  BY <1>1 DEF InboxInv, InboxTypes, ClickRow, ClickSteps
<1>3. InboxTypes'
  BY <1>1, <1>2 DEF InboxInv, InboxTypes
<1>4. ASSUME NEW i \in 1..Len(cards) PROVE CardAccount(i)'
  <2>1. \A l \in Click : Deciding(l, i)' => Deciding(l, i) /\ click'[l] = click[l]
    BY <1>2 DEF Deciding
  <2>2. CardAccount(i) /\ Recorded(i)' = Recorded(i)
    BY <1>1 DEF InboxInv, Recorded
  <2> QED
    BY <1>1, <2>1, <2>2, AccountKept
<1> QED
  BY <1>1, <1>3, <1>4, CardTyped DEF InboxInv, Recorded, Evolved

\* A link expires.
LEMMA ExpireInbox ==
  ASSUME InboxInv, mishaps \in Nat, LinkExpires
  PROVE  InboxInv' /\ Evolved
<1>1. UNCHANGED <<click, decided, actions>> /\ mishaps' # 0 /\ Len(cards) \in Nat
  BY CardTyped DEF LinkExpires, Mishap, InboxInv
<1>2. PICK c \in 1..Len(cards) : cards' = [cards EXCEPT ![c].overdue = TRUE]
  BY DEF LinkExpires
<1> DEFINE card == [cards[c] EXCEPT !.overdue = TRUE]
<1>3. /\ card \in Card /\ card.post = cards[c].post /\ card.consumed = cards[c].consumed
      /\ card.status = cards[c].status
  BY CardTyped DEF Card, InboxInv
<1>4. cards' = [cards EXCEPT ![c] = card]
  BY <1>2
<1> HIDE DEF card
<1>5. /\ cards' \in Seq(Card) /\ Len(cards') = Len(cards) /\ cards'[c] = card
      /\ \A i \in 1..Len(cards) : i # c => cards'[i] = cards[i]
  BY <1>3, <1>4, CardWritten DEF InboxInv
<1>6. InboxTypes'
  BY <1>1, <1>5 DEF InboxInv, InboxTypes
<1>7. \A i \in 1..Len(cards) :
        /\ cards'[i].post = cards[i].post /\ cards'[i].consumed = cards[i].consumed
        /\ cards'[i].status = cards[i].status
  BY <1>3, <1>5
<1>8. ASSUME NEW i \in 1..Len(cards) PROVE CardAccount(i)'
  <2>1. \A l \in Click : Deciding(l, i)' => Deciding(l, i) /\ click'[l] = click[l]
    BY <1>1 DEF Deciding
  <2>2. CardAccount(i) /\ Recorded(i)' = Recorded(i)
    BY <1>1 DEF InboxInv, Recorded
  <2> QED
    BY <1>1, <1>7, <2>1, <2>2, AccountKept
<1> QED
  BY <1>1, <1>5, <1>6, <1>7, <1>8 DEF InboxInv, Recorded, Evolved

\* A new card: nobody has clicked on it, nothing is on record of it.
LEMMA EscalateInbox ==
  ASSUME InboxInv, NEW c \in Caller, gate[c].post \in Post, Escalate(c)
  PROVE  InboxInv' /\ Evolved
<1> DEFINE card == [post |-> gate[c].post, status |-> "pending",
                    consumed |-> FALSE, overdue |-> FALSE]
<1>1. /\ cards' = Append(cards, card) /\ Len(cards) < MaxCards
      /\ UNCHANGED <<click, decided, actions, mishaps>>
  BY DEF Escalate
<1>2. card \in Card /\ card.status \notin Choices /\ ~card.consumed
  BY DEF Card, CardStatus, Choices
<1> HIDE DEF card
<1>3. /\ cards' \in Seq(Card) /\ Len(cards') = Len(cards) + 1 /\ Len(cards) \in Nat
      /\ \A i \in 1..Len(cards) : cards'[i] = cards[i]
      /\ cards'[Len(cards) + 1] = card
  BY <1>1, <1>2, AppendProperties DEF InboxInv, InboxTypes
<1>4. InboxTypes'
  BY <1>1, <1>3, GateAssumption DEF InboxInv, InboxTypes
<1>5. ASSUME NEW i \in 1..Len(cards) PROVE CardAccount(i)'
  <2>1. \A l \in Click : Deciding(l, i)' => Deciding(l, i) /\ click'[l] = click[l]
    BY <1>1 DEF Deciding
  <2>2. CardAccount(i) /\ Recorded(i)' = Recorded(i) /\ cards'[i] = cards[i]
    BY <1>1, <1>3 DEF InboxInv, Recorded
  <2> QED
    BY <1>1, <2>1, <2>2, AccountKept DEF Deciding
<1>6. PICK n \in Nat : n = Len(cards) + 1 /\ n \in (Len(cards) + 1)..MaxCards
  BY <1>1, <1>3, GateAssumption
<1>7. CardAccount(n)'
  <2>1. decided'[n] = 0 /\ Recorded(n)' = 0
    BY <1>1, <1>6 DEF InboxInv, Recorded
  <2>2. \A l \in Click : ~Deciding(l, n)'
    BY <1>1, <1>3, <1>6 DEF InboxInv, InboxTypes, Deciding
  <2>3. cards'[n].status \notin Choices /\ ~cards'[n].consumed
    BY <1>2, <1>3, <1>6
  <2> QED
    BY <2>1, <2>2, <2>3 DEF CardAccount
<1>8. Len(cards') = n /\ \A i \in 1..n : i \in 1..Len(cards) \/ i = n
  BY <1>3, <1>6
<1>9. \A i \in 1..Len(cards') : CardAccount(i)'
  BY <1>5, <1>7, <1>8
<1>10. \A i \in (Len(cards') + 1)..MaxCards : decided'[i] = 0 /\ Recorded(i)' = 0
  BY <1>1, <1>3 DEF InboxInv, Recorded
<1> QED
  BY <1>3, <1>4, <1>9, <1>10 DEF InboxInv, Evolved

-----------------------------------------------------------------------------
(* What a step of the loop is to each part                                   *)

\* Mishaps are only counted up.
NoHiddenMishap == mishaps' \in Nat /\ (mishaps' = 0 => mishaps = 0)

LEMMA MishapStep ==
  ASSUME mishaps \in Nat, [Next]_vars
  PROVE  NoHiddenMishap
<1> USE DEF NoHiddenMishap, Mishap
<1>1. CASE \E p \in Post : Handle(p)
  BY <1>1 DEF Handle, Ask, GateCheck, StoreApproval, AskAgain
<1>2. ASSUME NEW s \in Sweep, RunSweep(s) \/ SweepDies(s)
      PROVE  NoHiddenMishap
  BY <1>2 DEF RunSweep, FindAwaiting, ReadStatus, EndSweep, AskForToken, GateCheck, NoToken,
     Publish, Arrive, PublishRaises, WriteBack, SweepDies, gatekeeperVars
<1>3. CASE \E c \in Caller : ServeCaller(c)
  BY <1>3 DEF ServeCaller, ServeGateCheck, Refuse, ApplyPolicy, LookUpApproval, Escalate,
     MintToken, GateFails
<1>4. CASE \E k \in Click : Approve(k)
  BY <1>4 DEF Approve, ServeClick, FollowLink, RefuseReplay, MarkExpired, RecordExpired,
     ConsumeLink, InsertDecision, RecordChoice, ClickFails
<1>5. CASE \E q \in Request : ServeRequest(q)
  BY <1>5 DEF ServeRequest, ServePublish, VerifyToken, CheckSwitch, CheckHash, BurnToken,
     CheckQueueCap, CreateDraft, RecordPublish
<1>6. CASE LinkExpires \/ Drain \/ ToggleSwitch \/ UNCHANGED vars
  BY <1>6 DEF LinkExpires, Drain, BufferPosts, ToggleSwitch, vars, gatekeeperVars
<1> QED
  BY <1>1, <1>2, <1>3, <1>4, <1>5, <1>6 DEF Next

LEMMA InboxSteps ==
  ASSUME [Next]_vars
  PROVE  \/ \E c \in Caller : Escalate(c)
         \/ \E k \in Click : ServeClick(k)
         \/ LinkExpires
         \/ UNCHANGED inboxVars
<1>1. CASE \E p \in Post : Handle(p)
  BY <1>1 DEF Handle, Ask, GateCheck, StoreApproval, AskAgain
<1>2. CASE \E s \in Sweep : RunSweep(s) \/ SweepDies(s)
  BY <1>2 DEF RunSweep, FindAwaiting, ReadStatus, EndSweep, AskForToken, GateCheck, NoToken,
     Publish, PublishRaises, WriteBack, SweepDies, gatekeeperVars
<1>3. CASE \E c \in Caller : ServeCaller(c)
  BY <1>3 DEF ServeCaller, ServeGateCheck, Refuse, ApplyPolicy, LookUpApproval, MintToken,
     GateFails
<1>4. CASE \E k \in Click : Approve(k)
  BY <1>4 DEF Approve
<1>5. CASE \E q \in Request : ServeRequest(q)
  BY <1>5 DEF ServeRequest
<1>6. CASE LinkExpires \/ Drain \/ ToggleSwitch \/ UNCHANGED vars
  BY <1>6 DEF Drain, ToggleSwitch, vars, gatekeeperVars
<1> QED
  BY <1>1, <1>2, <1>3, <1>4, <1>5, <1>6 DEF Next

LEMMA GateMoves ==
  ASSUME SweepTypes, [Next]_vars
  PROVE  \/ \E c \in Caller, p \in Post : GateCheck(c, p)
         \/ \E c \in Caller : ServeGateCheck(c)
         \/ \E c \in Caller : gate' = [gate EXCEPT ![c].pc = "idle"] /\ UNCHANGED tokens
         \/ UNCHANGED gateVars
<1>1. Post \subseteq Caller /\ Sweep \subseteq Caller
  BY LoopAssumption
<1>2. CASE \E p \in Post : Handle(p)
  BY <1>1, <1>2 DEF Handle, Ask, StoreApproval, AskAgain
<1>3. ASSUME NEW s \in Sweep, AskForToken(s)
      PROVE  GateCheck(s, sweep[s].post) /\ sweep[s].post \in Post
  BY <1>3 DEF AskForToken, SweepTypes, SweepRow
<1>4. CASE \E s \in Sweep : RunSweep(s) \/ SweepDies(s)
  BY <1>1, <1>3, <1>4 DEF RunSweep, FindAwaiting, ReadStatus, EndSweep, NoToken,
     Publish, PublishRaises, WriteBack, SweepDies, gatekeeperVars
<1>5. CASE \E c \in Caller : ServeCaller(c)
  BY <1>5 DEF ServeCaller
<1>6. CASE \E k \in Click : Approve(k)
  BY <1>6 DEF Approve, ServeClick, FollowLink, RefuseReplay, MarkExpired, RecordExpired,
     ConsumeLink, InsertDecision, RecordChoice, ClickFails
<1>7. CASE \E q \in Request : ServeRequest(q)
  BY <1>7 DEF ServeRequest
<1>8. CASE LinkExpires \/ Drain \/ ToggleSwitch \/ UNCHANGED vars
  BY <1>8 DEF LinkExpires, Drain, ToggleSwitch, vars, gatekeeperVars
<1> QED
  BY <1>2, <1>4, <1>5, <1>6, <1>7, <1>8 DEF Next

LEMMA PublisherMoves ==
  ASSUME [Next]_vars
  PROVE  \/ \E s \in Sweep : Publish(s)
         \/ \E q \in Request : ServePublish(q)
         \/ BufferPosts
         \/ UNCHANGED publisherVars
<1>1. CASE \E p \in Post : Handle(p)
  BY <1>1 DEF Handle, Ask, StoreApproval, AskAgain
<1>2. CASE \E s \in Sweep : RunSweep(s) \/ SweepDies(s)
  BY <1>2 DEF RunSweep, FindAwaiting, ReadStatus, EndSweep, AskForToken, NoToken,
     PublishRaises, WriteBack, SweepDies
<1>3. CASE \E c \in Caller : ServeCaller(c)
  BY <1>3 DEF ServeCaller
<1>4. CASE \E k \in Click : Approve(k)
  BY <1>4 DEF Approve
<1>5. CASE \E q \in Request : ServeRequest(q)
  BY <1>5 DEF ServeRequest
<1>6. CASE (LinkExpires /\ UNCHANGED publisherVars) \/ Drain
           \/ (ToggleSwitch /\ UNCHANGED publisherVars) \/ UNCHANGED vars
  BY <1>6 DEF Drain, vars
<1> QED
  BY <1>1, <1>2, <1>3, <1>4, <1>5, <1>6 DEF Next

-----------------------------------------------------------------------------
(* The parts' invariants, step by step                                       *)

LEMMA InboxKept ==
  ASSUME InboxInv, UNCHANGED inboxVars, NoHiddenMishap
  PROVE  InboxInv' /\ Evolved
<1>1. UNCHANGED <<cards, click, decided, actions>> /\ Len(cards) \in Nat
  BY CardTyped DEF inboxVars, InboxInv
<1>2. InboxTypes'
  BY <1>1 DEF InboxInv, InboxTypes
<1>3. ASSUME NEW i \in 1..Len(cards) PROVE CardAccount(i)'
  <2>1. CardAccount(i) /\ Recorded(i)' = Recorded(i) /\ \A l \in Click : Deciding(l, i)' <=> Deciding(l, i)
    BY <1>1 DEF InboxInv, Recorded, Deciding
  <2> QED
    BY <1>1, <2>1, AccountKept DEF NoHiddenMishap
<1> QED
  BY <1>1, <1>2, <1>3 DEF InboxInv, Recorded, Evolved

LEMMA InboxStep ==
  ASSUME mishaps \in Nat, InboxInv, GateTypes, [Next]_vars
  PROVE  InboxInv' /\ Evolved
<1>1. ASSUME NEW c \in Caller, Escalate(c) PROVE InboxInv' /\ Evolved
  <2>1. gate[c].post \in Post
    BY DEF GateTypes, GateRow
  <2> QED
    BY <1>1, <2>1, EscalateInbox
<1>2. ASSUME NEW k \in Click, ServeClick(k) PROVE InboxInv' /\ Evolved
  BY <1>2, FollowInbox, NeutralInbox, ConsumeInbox, DecideInbox, ClickFailsInbox DEF ServeClick
<1>3. CASE LinkExpires
  BY <1>3, ExpireInbox
<1>4. CASE UNCHANGED inboxVars
  BY <1>4, InboxKept, MishapStep
<1> QED
  BY <1>1, <1>2, <1>3, <1>4, InboxSteps

\* A gate check of one caller: the others stay, tokens are only added.
LEMMA GateTyped ==
  ASSUME GateTypes, NEW c \in Caller, gate' \in [Caller -> GateRow],
         \A d \in Caller : d # c => gate'[d] = gate[d],
         tokens' \in Seq(Post), Len(tokens') <= MaxTokens, Len(tokens) <= Len(tokens'),
         gate'[c].pc = "answered" /\ gate'[c].answer = "token" => gate'[c].jti \in 1..Len(tokens')
  PROVE  GateTypes'
<1>1. Len(tokens) \in Nat /\ Len(tokens') \in Nat
  BY LenProperties DEF GateTypes
<1> QED
  BY <1>1 DEF GateTypes

LEMMA GateStep ==
  ASSUME GateTypes, SweepTypes, [Next]_vars
  PROVE  GateTypes'
<1> USE DEF GateRow, GateSteps
<1>0. /\ gate \in [Caller -> GateRow] /\ tokens \in Seq(Post) /\ Len(tokens) <= MaxTokens
      /\ Len(tokens) \in Nat /\ MaxTokens \in Nat
  BY LenProperties, GateAssumption DEF GateTypes
<1>1. ASSUME NEW c \in Caller, NEW p \in Post, GateCheck(c, p) PROVE GateTypes'
  <2>1. "none" \in Answers
    BY DEF Answers
  <2> QED
    BY <1>0, <1>1, <2>1, GateTyped DEF GateCheck
<1>2. ASSUME NEW c \in Caller, Refuse(c) \/ Escalate(c) \/ GateFails(c) PROVE GateTypes'
  <2>1. PICK a \in {"rejected", "escalated", "error"} : Answer(c, a)
    BY <1>2 DEF Refuse, Escalate, GateFails
  <2>2. a \in Answers /\ a # "token" /\ UNCHANGED tokens
    BY <1>2 DEF Answers, Refuse, Escalate, GateFails
  <2>3. /\ gate' \in [Caller -> GateRow] /\ gate'[c].answer = a
        /\ \A d \in Caller : d # c => gate'[d] = gate[d]
    BY <1>0, <2>1, <2>2 DEF Answer
  <2> QED
    BY SMTT(30), <1>0, <2>2, <2>3, GateTyped
<1>3. ASSUME NEW c \in Caller, ApplyPolicy(c) \/ LookUpApproval(c)
      PROVE GateTypes'
  <2>1. PICK to \in {"lookup", "mint", "escalate"} : gate' = [gate EXCEPT ![c].pc = to]
    BY <1>3 DEF ApplyPolicy, LookUpApproval
  <2>2. UNCHANGED tokens
    BY <1>3 DEF ApplyPolicy, LookUpApproval
  <2> QED
    BY <1>0, <2>1, <2>2, GateTyped
<1>4. ASSUME NEW c \in Caller, MintToken(c) PROVE GateTypes'
  <2>1. gate[c].post \in Post /\ "token" \in Answers
    BY <1>0 DEF Answers
  <2>n. PICK n \in Nat : n = Len(tokens) + 1
    BY <1>0
  <2>2. /\ tokens' \in Seq(Post) /\ Len(tokens') = n
        /\ gate' = [gate EXCEPT ![c].pc = "answered", ![c].answer = "token", ![c].jti = n]
        /\ n <= MaxTokens
    BY <1>0, <1>4, <2>1, <2>n, AppendProperties DEF MintToken
  <2>3. gate' \in [Caller -> GateRow] /\ gate'[c].jti = n
    BY ZenonT(40), <1>0, <2>1, <2>2
  <2>4. \A d \in Caller : d # c => gate'[d] = gate[d]
    BY <1>0, <2>2
  <2> QED
    BY <1>0, <2>n, <2>2, <2>3, <2>4, GateTyped
<1>5. ASSUME NEW c \in Caller, gate' = [gate EXCEPT ![c].pc = "idle"], UNCHANGED tokens
      PROVE GateTypes'
  BY <1>0, <1>5, GateTyped
<1>6. CASE UNCHANGED gateVars
  BY <1>6 DEF gateVars, GateTypes
<1> QED
  BY <1>1, <1>2, <1>3, <1>4, <1>5, <1>6, GateMoves DEF ServeGateCheck

\* A publish call carries a token the gatekeeper has minted.
Sends(s, q, t) ==
  /\ Arrive(q, t, sweep[s].post) /\ sweep[s].post \in Asset
  /\ \E n \in 1..Len(tokens) : t.asset = tokens[n]
  /\ \A r \in Sweep : At(r, "await") => sweep[r].call # q
  /\ sweep' = [sweep EXCEPT ![s].pc = "await", ![s].call = q]
  /\ UNCHANGED <<tokens, inboxVars, row>>

LEMMA PublishArrives ==
  ASSUME GateTypes, SweepTypes, NEW s \in Sweep, Publish(s)
  PROVE  \E q \in Request, t \in Token : Sends(s, q, t)
<1> DEFINE n == gate[s].jti
           t == [jti |-> n, asset |-> tokens[n]]
<1>1. s \in Caller
  BY LoopAssumption
<1>2. n \in 1..Len(tokens) /\ tokens \in Seq(Post) /\ Len(tokens) <= MaxTokens
  BY <1>1 DEF Publish, GateTypes
<1>3. n \in 1..MaxTokens /\ tokens[n] \in Post
  BY <1>2, ElementOfSeq, LenProperties, GateAssumption
<1>4. t \in Token /\ t.asset = tokens[n]
  BY <1>3, LoopAssumption
<1>5. sweep[s].post \in Asset
  BY LoopAssumption DEF SweepTypes, SweepRow
<1> HIDE DEF n, t
<1>6. PICK q \in Request : /\ Arrive(q, t, sweep[s].post)
                           /\ \A r \in Sweep : At(r, "await") => sweep[r].call # q
                           /\ sweep' = [sweep EXCEPT ![s].pc = "await", ![s].call = q]
  BY DEF Publish, n, t
<1>7. UNCHANGED <<tokens, inboxVars, row>>
  BY DEF Publish
<1> QED
  BY <1>2, <1>4, <1>5, <1>6, <1>7 DEF Sends

LEMMA PublisherStep ==
  ASSUME IInv, GateTypes, SweepTypes, [Next]_vars
  PROVE  IInv'
<1>1. ASSUME NEW s \in Sweep, Publish(s) PROVE IInv'
  BY <1>1, PublishArrives, ArriveKeeps DEF Sends
<1>2. ASSUME NEW q \in Request, ServePublish(q) PROVE IInv'
  BY <1>2, VerifyKeeps, SwitchKeeps, HashKeeps, BurnKeeps, CountKeeps, DraftKeeps,
     RecordKeeps DEF ServePublish
<1>3. mishaps' \in Nat
  BY MishapStep DEF IInv, PublisherTypeOK, NoHiddenMishap
<1>4. CASE BufferPosts
  <2>1. PublisherTypeOK'
    BY <1>4 DEF IInv, PublisherTypeOK, BufferPosts
  <2> QED
    BY <1>4, <2>1 DEF BufferPosts, IInv, HashChecked, Hashed, OwnsItsToken, Owns,
       DraftsBurned, OneDraftPerToken
<1>5. CASE UNCHANGED publisherVars
  BY <1>3, <1>5 DEF publisherVars, IInv, PublisherTypeOK, HashChecked, Hashed, OwnsItsToken,
     Owns, DraftsBurned, OneDraftPerToken
<1> QED
  BY <1>1, <1>2, <1>4, <1>5, PublisherMoves

\* A sweep that moves, except to wait for an answer of the publisher.
LEMMA SweepMoves ==
  ASSUME SweepTypes, [Next]_vars
  PROVE  \/ \E s \in Sweep :
              /\ sweep' \in [Sweep -> SweepRow]
              /\ sweep'[s].pc # "await"
              /\ \A r \in Sweep : r # s => sweep'[r] = sweep[r]
         \/ \E s \in Sweep : Publish(s)
         \/ UNCHANGED sweep
<1> USE DEF SweepRow
<1>0. sweep \in [Sweep -> SweepRow]
  BY DEF SweepTypes
<1>1. CASE \E p \in Post : Handle(p)
  BY <1>1 DEF Handle, Ask, StoreApproval, AskAgain, loopVars
<1>2. ASSUME NEW s \in Sweep, FindAwaiting(s)
      PROVE  /\ sweep' \in [Sweep -> SweepRow] /\ sweep'[s].pc # "await"
             /\ \A r \in Sweep : r # s => sweep'[r] = sweep[r]
  <2>1. PICK waiting \in SUBSET Post :
          sweep' = [sweep EXCEPT ![s].pc = "next", ![s].todo = waiting]
    BY <1>2 DEF FindAwaiting
  <2> QED
    BY <1>0, <2>1
<1>3. ASSUME NEW s \in Sweep, ReadStatus(s)
      PROVE  /\ sweep' \in [Sweep -> SweepRow] /\ sweep'[s].pc # "await"
             /\ \A r \in Sweep : r # s => sweep'[r] = sweep[r]
  <2>1. PICK p \in sweep[s].todo :
          \/ sweep' = [sweep EXCEPT ![s].pc = "mint", ![s].post = p]
          \/ sweep' = [sweep EXCEPT ![s].todo = @ \ {p}]
    BY <1>3 DEF ReadStatus
  <2>2. p \in Post /\ sweep[s].pc = "next" /\ sweep[s].todo \ {p} \in SUBSET Post
    BY <1>0, <1>3 DEF ReadStatus, At
  <2> QED
    BY <1>0, <2>1, <2>2
<1>4. ASSUME NEW s \in Sweep, EndSweep(s) \/ AskForToken(s)
      PROVE  /\ sweep' \in [Sweep -> SweepRow] /\ sweep'[s].pc # "await"
             /\ \A r \in Sweep : r # s => sweep'[r] = sweep[r]
  <2>1. PICK to \in {"idle", "token"} : sweep' = [sweep EXCEPT ![s].pc = to]
    BY <1>4 DEF EndSweep, AskForToken, MoveTo
  <2> QED
    BY <1>0, <2>1
<1>5. ASSUME NEW s \in Sweep, NoToken(s) \/ PublishRaises(s) \/ WriteBack(s) \/ SweepDies(s)
      PROVE  /\ sweep' \in [Sweep -> SweepRow] /\ sweep'[s].pc # "await"
             /\ \A r \in Sweep : r # s => sweep'[r] = sweep[r]
  <2>1. PICK to \in {"next", "idle"}, left \in SUBSET Post :
          sweep' = [sweep EXCEPT ![s].pc = to, ![s].todo = left]
    <3>1. sweep[s].todo \ {sweep[s].post} \in SUBSET Post /\ {} \in SUBSET Post
      BY <1>0
    <3> QED
      BY <1>5, <3>1 DEF NoToken, PublishRaises, WriteBack, SweepDies, Skip
  <2> QED
    BY <1>0, <2>1
<1>6. CASE \E s \in Sweep : RunSweep(s) \/ SweepDies(s)
  BY <1>2, <1>3, <1>4, <1>5, <1>6 DEF RunSweep
<1>7. CASE (\E c \in Caller : ServeCaller(c)) \/ (\E k \in Click : Approve(k))
           \/ (\E q \in Request : ServeRequest(q))
  BY <1>7 DEF ServeCaller, Approve, ServeRequest, loopVars
<1>8. CASE (LinkExpires /\ UNCHANGED loopVars) \/ Drain \/ (ToggleSwitch /\ UNCHANGED loopVars)
           \/ UNCHANGED vars
  BY <1>8 DEF Drain, vars, loopVars
<1> QED
  BY <1>1, <1>6, <1>7, <1>8 DEF Next

\* A row is written by the handler that asks, and by the sweep that has a 200.
LEMMA RowMoves ==
  ASSUME [Next]_vars
  PROVE  \/ \E p \in Post : row' = [row EXCEPT ![p] = "awaiting"]
         \/ \E s \in Sweep : WriteBack(s)
         \/ UNCHANGED row
<1>1. CASE \E p \in Post : Handle(p)
  BY <1>1 DEF Handle, Ask, StoreApproval, AskAgain, loopVars
<1>2. CASE \E s \in Sweep : RunSweep(s) \/ SweepDies(s)
  BY <1>2 DEF RunSweep, FindAwaiting, ReadStatus, EndSweep, AskForToken, NoToken,
     Publish, PublishRaises, SweepDies
<1>3. CASE (\E c \in Caller : ServeCaller(c)) \/ (\E k \in Click : Approve(k))
           \/ (\E q \in Request : ServeRequest(q))
  BY <1>3 DEF ServeCaller, Approve, ServeRequest, loopVars
<1>4. CASE (LinkExpires /\ UNCHANGED loopVars) \/ Drain \/ (ToggleSwitch /\ UNCHANGED loopVars)
           \/ UNCHANGED vars
  BY <1>4 DEF Drain, vars, loopVars
<1> QED
  BY <1>1, <1>2, <1>3, <1>4 DEF Next

LEMMA SweepStep ==
  ASSUME GateTypes, SweepTypes, [Next]_vars
  PROVE  SweepTypes'
<1>1. row' \in [Post -> {"unasked", "awaiting", "published"}]
  BY RowMoves DEF SweepTypes, WriteBack
<1>2. sweep' \in [Sweep -> SweepRow] /\ \A s \in Sweep : At(s, "await")' => sweep'[s].call \in Request
  <2>1. ASSUME NEW s \in Sweep, Publish(s)
        PROVE  /\ sweep' \in [Sweep -> SweepRow]
               /\ \A r \in Sweep : At(r, "await")' => sweep'[r].call \in Request
    <3>1. PICK q \in Request : sweep' = [sweep EXCEPT ![s].pc = "await", ![s].call = q]
      BY <2>1, PublishArrives DEF Sends
    <3> QED
      BY ZenonT(40), <3>1 DEF SweepTypes, SweepRow, Calls, At
  <2> QED
    BY <2>1, SweepMoves DEF SweepTypes, At
<1> QED
  BY <1>1, <1>2 DEF SweepTypes

\* What serving a request does to it and to the drafts.
DraftOf(q) == [jti |-> req[q].token.jti, asset |-> req[q].sent]
Drafted(q) == req[q].pc = "create" /\ drafts' = Append(drafts, DraftOf(q))

LEMMA Served ==
  ASSUME PublisherTypeOK, NEW q \in Request, ServePublish(q)
  PROVE  /\ \A p \in Request : /\ p # q => req'[p] = req[p]
                               /\ req'[p].token = req[p].token
                               /\ req'[p].sent = req[p].sent
         /\ req[q].pc # "free"
         /\ drafts' = drafts \/ Drafted(q)
         /\ req'[q].pc = "record" => req[q].sent \in DryAsset \/ Drafted(q)
         /\ req'[q].reason = "published" => req[q].reason = "published" \/ req[q].pc = "record"
<1> DEFINE Goal ==
      /\ \A p \in Request : /\ p # q => req'[p] = req[p]
                            /\ req'[p].token = req[p].token
                            /\ req'[p].sent = req[p].sent
      /\ req[q].pc # "free"
      /\ req'[q].pc = "record" => req[q].sent \in DryAsset \/ Drafted(q)
      /\ req'[q].reason = "published" => req[q].reason = "published" \/ req[q].pc = "record"
<1>1. ASSUME NEW from \in RequestSteps \ {"free"}, NEW to \in RequestSteps, Step(q, from, to),
             to = "record" => req[q].sent \in DryAsset \/ Drafted(q)
      PROVE  Goal
  BY <1>1 DEF Step, PublisherTypeOK
<1>2. ASSUME NEW from \in RequestSteps \ {"free"}, NEW why \in Reasons \ {"published"},
             Reject(q, from, why)
      PROVE  Goal
  BY <1>2 DEF Reject, PublisherTypeOK
<1> USE DEF RequestSteps, Reasons
<1>3. CASE VerifyToken(q) \/ CheckSwitch(q) \/ CheckHash(q) \/ CheckQueueCap(q)
  <2>1. drafts' = drafts
    BY <1>3 DEF VerifyToken, CheckSwitch, CheckHash, CheckQueueCap
  <2>2. Goal
    <3> HIDE DEF Goal
    <3> QED
      BY <1>1, <1>2, <1>3 DEF VerifyToken, CheckSwitch, CheckHash, CheckQueueCap
  <2> QED
    BY <2>1, <2>2
<1>4. CASE BurnToken(q)
  <2>1. drafts' = drafts
    BY <1>4 DEF BurnToken
  <2>2. Goal
    <3> HIDE DEF Goal
    <3> QED
      BY <1>1, <1>2, <1>4 DEF BurnToken, AfterBurn
  <2> QED
    BY <2>1, <2>2
<1>5. CASE CreateDraft(q)
  <2>1. PICK to \in {"record", "failed"} : Step(q, "create", to)
    BY <1>5 DEF CreateDraft
  <2>2. req[q].pc = "create" /\ req'[q].pc = to
    BY <2>1 DEF Step, PublisherTypeOK
  <2>3. Drafted(q) \/ (to = "failed" /\ drafts' = drafts)
    BY <1>5, <2>2 DEF CreateDraft, Drafted, DraftOf
  <2>4. Goal
    <3> HIDE DEF Goal
    <3> QED
      BY <1>1, <2>1, <2>3
  <2> QED
    BY <2>3, <2>4
<1>6. CASE RecordPublish(q)
  <2>1. drafts' = drafts
    BY <1>6 DEF RecordPublish
  <2>2. CASE Step(q, "record", "failed")
    BY <1>1, <2>1, <2>2
  <2>3. CASE /\ req[q].pc = "record"
             /\ req' = [req EXCEPT ![q].pc = "answered", ![q].rows = @ + 1,
                                   ![q].reason = "published"]
    BY <2>1, <2>3 DEF PublisherTypeOK
  <2> QED
    BY <1>6, <2>2, <2>3 DEF RecordPublish
<1> QED
  BY <1>3, <1>4, <1>5, <1>6 DEF ServePublish

\* Drafts are only added; the new one, if any, is the one of a request.
LEMMA DraftAdded ==
  ASSUME PublisherTypeOK, NEW q \in Request, Drafted(q)
  PROVE  /\ Len(drafts) \in Nat /\ Len(drafts') = Len(drafts) + 1
         /\ \A n \in 1..Len(drafts) : drafts'[n] = drafts[n]
         /\ drafts'[Len(drafts) + 1].asset = req[q].sent
<1>1. DraftOf(q) \in [jti : Jti, asset : Asset] /\ DraftOf(q).asset = req[q].sent
  BY DEF DraftOf, PublisherTypeOK, Jti
<1> QED
  BY <1>1, AppendProperties DEF Drafted, PublisherTypeOK

LEMMA DraftsGrow ==
  ASSUME PublisherTypeOK, [Next]_vars
  PROVE  /\ Len(drafts) \in Nat /\ Len(drafts) <= Len(drafts')
         /\ \A n \in 1..Len(drafts) : drafts'[n] = drafts[n]
         /\ Sent \subseteq Sent'
<1>1. Len(drafts) \in Nat
  BY LenProperties DEF PublisherTypeOK
<1>2. drafts' = drafts \/ \E q \in Request : Drafted(q)
  BY PublisherMoves, Served DEF Publish, Arrive, BufferPosts, publisherVars
<1>3. /\ Len(drafts) <= Len(drafts') /\ Len(drafts') \in Nat
      /\ \A n \in 1..Len(drafts) : drafts'[n] = drafts[n]
  BY <1>1, <1>2, DraftAdded
<1>4. \A p : Copies(p) # {} => Copies(p)' # {}
  BY <1>1, <1>3 DEF Copies
<1> QED
  BY <1>1, <1>3, <1>4 DEF Sent

-----------------------------------------------------------------------------
(* What is cleared stays cleared                                             *)

LEMMA ApprovalsStay ==
  ASSUME InboxInv, InboxInv', Evolved
  PROVE  Cleared \subseteq Cleared'
<1>1. Len(cards) \in Nat /\ Len(cards') \in Nat
  BY LenProperties DEF InboxInv, InboxTypes
<1>2. \A p : HasApproval(p) => HasApproval(p)'
  BY <1>1 DEF HasApproval, CardsOf, Evolved, Choices
<1> QED
  BY <1>2 DEF Cleared

LEMMA ApprovalStep ==
  ASSUME IInv, InboxInv, InboxInv', Evolved, GateTypes, SweepTypes, ApprovalInv, [Next]_vars
  PROVE  ApprovalInv'
<1>0. /\ gate \in [Caller -> GateRow] /\ tokens \in Seq(Post) /\ Len(tokens) \in Nat
      /\ Cleared \subseteq Cleared'
      /\ PublisherTypeOK
  BY ApprovalsStay, LenProperties DEF GateTypes, IInv
<1>1. \A c \in Caller : gate'[c].pc = "mint" => gate'[c].post \in Cleared'
  <2>1. ASSUME NEW c \in Caller, NEW p \in Post, GateCheck(c, p)
        PROVE  \A d \in Caller : gate'[d].pc = "mint" => d # c /\ gate'[d] = gate[d]
    BY <1>0, <2>1 DEF GateCheck
  <2>2. ASSUME NEW c \in Caller, Refuse(c) \/ Escalate(c) \/ GateFails(c) \/ MintToken(c)
        PROVE  \A d \in Caller : gate'[d].pc = "mint" => d # c /\ gate'[d] = gate[d]
    <3>1. CASE \E a : Answer(c, a)
      BY <1>0, <3>1 DEF Answer
    <3>2. CASE MintToken(c)
      BY <1>0, <3>2 DEF MintToken
    <3> QED
      BY <2>2, <3>1, <3>2 DEF Refuse, Escalate, GateFails
  <2>3. ASSUME NEW c \in Caller, gate' = [gate EXCEPT ![c].pc = "idle"]
        PROVE  \A d \in Caller : gate'[d].pc = "mint" => d # c /\ gate'[d] = gate[d]
    BY <1>0, <2>3
  <2>4. ASSUME NEW c \in Caller, ApplyPolicy(c) \/ LookUpApproval(c)
        PROVE  \A d \in Caller : gate'[d].pc = "mint" =>
                 /\ gate'[d].post = gate[d].post
                 /\ gate[d].pc = "mint" \/ gate[d].post \in Cleared
    <3>1. PICK to \in {"lookup", "mint", "escalate"} : gate' = [gate EXCEPT ![c].pc = to]
      BY <2>4 DEF ApplyPolicy, LookUpApproval
    <3>2. to = "mint" => gate[c].post \in Cleared
      <4>1. gate[c].post \in Post /\ gate'[c].pc = to
        BY <1>0, <3>1 DEF GateRow
      <4>2. CASE ApplyPolicy(c)
        BY <1>0, <4>1, <4>2 DEF ApplyPolicy, Cleared
      <4>3. CASE LookUpApproval(c)
        BY <1>0, <4>1, <4>3 DEF LookUpApproval, Cleared
      <4> QED
        BY <2>4, <4>2, <4>3
    <3> QED
      BY <1>0, <3>1, <3>2
  <2>5. \A d \in Caller : gate'[d].pc = "mint" =>
          /\ gate'[d].post = gate[d].post
          /\ gate[d].pc = "mint" \/ gate[d].post \in Cleared
    BY <2>1, <2>2, <2>3, <2>4, GateMoves DEF ServeGateCheck, gateVars
  <2>6. \A d \in Caller : gate'[d].pc = "mint" => gate[d].post \in Cleared
    BY <2>5 DEF ApprovalInv
  <2> QED
    BY <1>0, <2>5, <2>6
<1>2. \A n \in 1..Len(tokens') : tokens'[n] \in Cleared'
  <2>1. ASSUME NEW c \in Caller, MintToken(c), NEW n \in 1..Len(tokens')
        PROVE  tokens'[n] \in Cleared
    <3>1. gate[c].post \in Post /\ gate[c].post \in Cleared
      BY <1>0, <2>1 DEF ApprovalInv, MintToken, GateRow
    <3>2. /\ Len(tokens') = Len(tokens) + 1 /\ tokens'[Len(tokens) + 1] = gate[c].post
          /\ \A m \in 1..Len(tokens) : tokens'[m] = tokens[m]
      BY <1>0, <2>1, <3>1, AppendProperties DEF MintToken
    <3>3. n \in 1..Len(tokens) \/ n = Len(tokens) + 1
      BY <1>0, <2>1, <3>2
    <3> QED
      BY <3>1, <3>2, <3>3 DEF ApprovalInv
  <2>2. tokens' = tokens \/ \E c \in Caller : MintToken(c)
    BY GateMoves DEF GateCheck, ServeGateCheck, Refuse, ApplyPolicy, LookUpApproval, Escalate,
       GateFails, gateVars
  <2>3. \A n \in 1..Len(tokens') : tokens'[n] \in Cleared
    BY <2>1, <2>2 DEF ApprovalInv
  <2> QED
    BY <1>0, <2>3
<1>3. \A q \in Request : req'[q].pc # "free" => req'[q].token.asset \in Cleared'
  <2>1. ASSUME NEW s \in Sweep, Publish(s), NEW p \in Request, req'[p].pc # "free"
        PROVE  req'[p].token.asset \in Cleared
    <3>1. PICK q \in Request, t \in Token : Sends(s, q, t)
      BY <2>1, PublishArrives
    <3>2. /\ req'[q].token = t /\ \A r \in Request : r # q => req'[r] = req[r]
          /\ \E n \in 1..Len(tokens) : t.asset = tokens[n]
      BY <1>0, <3>1 DEF Sends, Arrive, PublisherTypeOK
    <3> QED
      BY <2>1, <3>2 DEF ApprovalInv
  <2>2. ASSUME NEW q \in Request, ServePublish(q), NEW p \in Request, req'[p].pc # "free"
        PROVE  req'[p].token.asset \in Cleared
    BY <1>0, <2>2, Served DEF ApprovalInv
  <2>3. \A q \in Request : req'[q].pc # "free" => req'[q].token.asset \in Cleared
    BY <2>1, <2>2, PublisherMoves DEF ApprovalInv, BufferPosts, publisherVars
  <2> QED
    BY <1>0, <2>3
<1>4. \A n \in 1..Len(drafts') : drafts'[n].asset \in Cleared'
  <2>1. ASSUME NEW q \in Request, Drafted(q), NEW n \in 1..Len(drafts')
        PROVE  drafts'[n].asset \in Cleared
    <3>1. req[q].sent \in Cleared
      BY <2>1 DEF Drafted, ApprovalInv, IInv, HashChecked, Hashed
    <3>2. n \in 1..Len(drafts) \/ n = Len(drafts) + 1
      BY <1>0, <2>1, DraftAdded
    <3> QED
      BY <1>0, <2>1, <3>1, <3>2, DraftAdded DEF ApprovalInv
  <2>2. drafts' = drafts \/ \E q \in Request : Drafted(q)
    BY <1>0, PublisherMoves, Served DEF Publish, Arrive, BufferPosts, publisherVars
  <2>3. \A n \in 1..Len(drafts') : drafts'[n].asset \in Cleared
    BY <2>1, <2>2 DEF ApprovalInv
  <2> QED
    BY <1>0, <2>3
<1> QED
  BY <1>1, <1>2, <1>3, <1>4 DEF ApprovalInv

-----------------------------------------------------------------------------
(* What is written back has gone out                                         *)

\* A request that is to be recorded, or that was: it is about a draft, or dry.
LEMMA RecordedStep ==
  ASSUME IInv, GateTypes, SweepTypes, WriteBackInv, [Next]_vars, NEW p \in Request,
         req'[p].pc = "record" \/ req'[p].reason = "published"
  PROVE  req'[p].sent \in Sent'
<1>0. PublisherTypeOK /\ Sent \subseteq Sent'
  BY DraftsGrow DEF IInv
<1>1. ASSUME NEW s \in Sweep, Publish(s)
      PROVE  req'[p] = req[p]
  <2>1. PICK q \in Request, t \in Token : Sends(s, q, t)
    BY <1>1, PublishArrives
  <2> QED
    BY <1>0, <2>1 DEF Sends, Arrive, PublisherTypeOK
<1>2. ASSUME NEW q \in Request, ServePublish(q), p # q
      PROVE  req'[p] = req[p]
  BY <1>0, <1>2, Served
<1>3. CASE req'[p] = req[p]
  BY <1>0, <1>3 DEF WriteBackInv
<1>4. CASE ServePublish(p)
  <2>1. PICK a \in Post : a = req[p].sent /\ req'[p].sent = a
    BY <1>0, <1>4, Served, LoopAssumption DEF PublisherTypeOK
  <2>2. CASE req[p].pc = "record" \/ req[p].reason = "published"
    BY <1>0, <2>1, <2>2 DEF WriteBackInv
  <2>3. CASE a \in DryAsset
    BY <2>1, <2>3 DEF Sent
  <2>4. CASE Drafted(p)
    <3>1. /\ Len(drafts') = Len(drafts) + 1 /\ Len(drafts) \in Nat
          /\ drafts'[Len(drafts) + 1].asset = a
      BY <1>0, <2>1, <2>4, DraftAdded
    <3>2. Copies(a)' # {}
      BY <3>1 DEF Copies
    <3> QED
      BY <2>1, <3>2 DEF Sent
  <2> QED
    BY <1>0, <1>4, <2>1, <2>2, <2>3, <2>4, Served
<1> QED
  BY <1>1, <1>2, <1>3, <1>4, PublisherMoves DEF BufferPosts, publisherVars

\* A sweep that waits: the request it waits for is its own, about its post.
LEMMA WaitingStep ==
  ASSUME IInv, GateTypes, SweepTypes, WriteBackInv, [Next]_vars, NEW s \in Sweep,
         At(s, "await")'
  PROVE  /\ req'[sweep'[s].call].sent = sweep'[s].post
         /\ \A t \in Sweep : At(t, "await")' /\ sweep'[t].call = sweep'[s].call => t = s
<1>0. PublisherTypeOK /\ sweep \in [Sweep -> SweepRow]
  BY DEF IInv, SweepTypes
<1>1. ASSUME NEW r \in Sweep, Publish(r)
      PROVE  /\ req'[sweep'[s].call].sent = sweep'[s].post
             /\ \A t \in Sweep : At(t, "await")' /\ sweep'[t].call = sweep'[s].call => t = s
  <2>1. PICK q \in Request, t \in Token : Sends(r, q, t)
    BY <1>1, PublishArrives
  <2>2. /\ req'[q].sent = sweep[r].post /\ \A p \in Request : p # q => req'[p] = req[p]
    BY <1>0, <2>1 DEF Sends, Arrive, PublisherTypeOK
  <2>3. /\ sweep'[r].pc = "await" /\ sweep'[r].call = q /\ sweep'[r].post = sweep[r].post
        /\ \A x \in Sweep : x # r => sweep'[x] = sweep[x]
    BY <1>0, <2>1 DEF Sends, SweepRow
  <2>4. \A x \in Sweep : x # r /\ At(x, "await")' => At(x, "await") /\ sweep[x].call # q
    BY <2>1, <2>3 DEF Sends, At
  <2>5. CASE s = r
    BY <2>2, <2>3, <2>4, <2>5
  <2>6. CASE s # r
    <3>1. sweep[s].call \in Request /\ sweep[s].call # q /\ At(s, "await")
      BY <2>4, <2>6 DEF SweepTypes
    <3>2. req'[sweep'[s].call].sent = sweep'[s].post
      BY <2>2, <2>3, <2>6, <3>1 DEF WriteBackInv
    <3> QED
      BY <2>3, <2>4, <2>6, <3>1, <3>2 DEF WriteBackInv
  <2> QED
    BY <2>5, <2>6
<1>2. CASE ~\E r \in Sweep : Publish(r)
  <2>1. \A x \in Sweep : At(x, "await")' => At(x, "await") /\ sweep'[x] = sweep[x]
    BY <1>2, SweepMoves DEF At
  <2>2. \A p \in Request : req'[p].sent = req[p].sent
    BY <1>0, <1>2, PublisherMoves, Served DEF BufferPosts, publisherVars
  <2>3. sweep[s].call \in Request
    BY <2>1 DEF SweepTypes
  <2> QED
    BY <2>1, <2>2, <2>3 DEF WriteBackInv
<1> QED
  BY <1>1, <1>2

LEMMA WriteBackStep ==
  ASSUME IInv, GateTypes, SweepTypes, WriteBackInv, [Next]_vars
  PROVE  WriteBackInv'
<1>1. \A q \in Request :
        req'[q].pc = "record" \/ req'[q].reason = "published" => req'[q].sent \in Sent'
  BY RecordedStep
<1>2. \A s \in Sweep : At(s, "await")' =>
        /\ req'[sweep'[s].call].sent = sweep'[s].post
        /\ \A t \in Sweep : At(t, "await")' /\ sweep'[t].call = sweep'[s].call => t = s
  BY WaitingStep
<1>3. \A p \in Post : row'[p] = "published" => p \in Sent'
  <2>0. Sent \subseteq Sent' /\ row \in [Post -> {"unasked", "awaiting", "published"}]
    BY DraftsGrow DEF IInv, SweepTypes
  <2>1. ASSUME NEW s \in Sweep, WriteBack(s)
        PROVE  \A p \in Post : row'[p] = "published" => p \in Sent
    <3>1. /\ row' = [row EXCEPT ![sweep[s].post] = "published"]
          /\ At(s, "await") /\ req[sweep[s].call].reason = "published"
      BY <2>1 DEF WriteBack
    <3>2. sweep[s].call \in Request /\ req[sweep[s].call].sent = sweep[s].post
      BY <3>1 DEF SweepTypes, WriteBackInv
    <3>3. sweep[s].post \in Sent
      BY <3>1, <3>2 DEF WriteBackInv
    <3> QED
      BY <2>0, <3>1, <3>3 DEF WriteBackInv
  <2>2. \A p \in Post : row'[p] = "published" => p \in Sent
    BY <2>0, <2>1, RowMoves DEF WriteBackInv
  <2> QED
    BY <2>0, <2>2
<1> QED
  BY <1>1, <1>2, <1>3 DEF WriteBackInv

-----------------------------------------------------------------------------
(* The invariant of the loop, and what follows from it                       *)

LoopInv ==
  IInv /\ InboxInv /\ GateTypes /\ SweepTypes /\ ApprovalInv /\ WriteBackInv

LEMMA LoopInit == Init => LoopInv
<1> SUFFICES ASSUME Init PROVE LoopInv
  OBVIOUS
<1>1. (CHOOSE p \in Post : TRUE) \in Post /\ Post # {}
  <2>1. PICK t \in Token : t.asset \in Post
    BY PublisherAssumption, LoopAssumption
  <2> QED
    BY <2>1
<1>2. IInv
  BY IInit DEF Init, GatekeeperInit
<1>3. InboxInv
  <2> USE DEF Init, GatekeeperInit
  <2>1. cards = <<>> /\ cards \in Seq(Card) /\ Len(cards) = 0
    OBVIOUS
  <2>2. /\ click \in [Click -> ClickRow] /\ \A k \in Click : click[k].pc = "idle"
        /\ decided \in [1..MaxCards -> Nat] /\ actions \in [1..MaxCards -> [Outcomes -> Nat]]
    BY DEF ClickRow, ClickSteps, Choices
  <2>3. InboxTypes
    BY <2>1, <2>2, GateAssumption DEF InboxTypes
  <2>4. \A i \in 1..MaxCards : decided[i] = 0 /\ Recorded(i) = 0
    BY DEF Recorded, Outcomes, Choices
  <2> QED
    BY <2>1, <2>3, <2>4 DEF InboxInv
<1>4. GateTypes
  <2>1. gate \in [Caller -> GateRow]
    BY <1>1 DEF Init, GatekeeperInit, GateRow, GateSteps, Answers
  <2>2. tokens = <<>> /\ \A c \in Caller : gate[c].pc = "idle"
    BY DEF Init, GatekeeperInit
  <2> QED
    BY <2>1, <2>2, GateAssumption DEF GateTypes
<1>5. SweepTypes
  <2>1. (CHOOSE q \in Request : TRUE) \in Calls
    BY DEF Calls
  <2> QED
    BY <1>1, <2>1 DEF Init, SweepTypes, SweepRow, At
<1>6. ApprovalInv
  BY DEF Init, GatekeeperInit, PublisherInit, ApprovalInv
<1>7. WriteBackInv
  BY DEF Init, PublisherInit, WriteBackInv, At
<1> QED
  BY <1>2, <1>3, <1>4, <1>5, <1>6, <1>7 DEF LoopInv

LEMMA LoopStep == LoopInv /\ [Next]_vars => LoopInv' /\ Evolved
<1> SUFFICES ASSUME LoopInv, [Next]_vars PROVE LoopInv' /\ Evolved
  OBVIOUS
<1>1. /\ IInv /\ InboxInv /\ GateTypes /\ SweepTypes /\ ApprovalInv /\ WriteBackInv
      /\ mishaps \in Nat
  BY DEF LoopInv, IInv, PublisherTypeOK
<1>2. InboxInv' /\ Evolved
  BY <1>1, InboxStep
<1>3. IInv' /\ GateTypes' /\ SweepTypes' /\ WriteBackInv'
  BY <1>1, PublisherStep, GateStep, SweepStep, WriteBackStep
<1>4. ApprovalInv'
  BY <1>1, <1>2, ApprovalStep
<1> QED
  BY <1>2, <1>3, <1>4 DEF LoopInv

LEMMA LoopSafe ==
  LoopInv => DraftNeedsApproval /\ WrittenBackIsDrafted /\ DecisionAudited
<1> SUFFICES ASSUME LoopInv
             PROVE  DraftNeedsApproval /\ WrittenBackIsDrafted /\ DecisionAudited
  OBVIOUS
<1>1. DraftNeedsApproval
  BY DEF DraftNeedsApproval, LoopInv, ApprovalInv, Cleared, Copies
<1>2. WrittenBackIsDrafted
  BY DEF WrittenBackIsDrafted, LoopInv, WriteBackInv, Sent
<1>3. DecisionAudited
  <2> SUFFICES ASSUME NEW i \in 1..Len(cards)
               PROVE  /\ decided[i] <= 1 /\ Recorded(i) <= 1
                      /\ mishaps = 0 /\ AtRest /\ cards[i].status \in Choices
                           => decided[i] = 1 /\ actions[i][cards[i].status] = 1
    BY DEF DecisionAudited, Recorded
  <2>1. CardAccount(i)
    BY DEF LoopInv, InboxInv
  <2>2. AtRest => \A k \in Click : ~Deciding(k, i)
    BY DEF AtRest, Deciding
  <2> QED
    BY <2>1, <2>2 DEF CardAccount
<1> QED
  BY <1>1, <1>2, <1>3

LEMMA LoopAlways == Spec => []LoopInv
<1>1. LoopInv /\ [Next]_vars => LoopInv'
  BY LoopStep
<1> QED
  BY LoopInit, <1>1, PTL DEF Spec

\* schedule_publish.py, publish.py: whatever the sweeps, the clicks and the
\* mishaps, a post that needs a human's approval is drafted only with it.
THEOREM DraftsAreApproved == Spec => []DraftNeedsApproval
<1>1. LoopInv => DraftNeedsApproval
  BY LoopSafe
<1> QED
  BY LoopAlways, <1>1, PTL

\* publish.py: publish_attempt_id is written only of a post that has gone out,
\* so the row that is not swept again has lost nothing.
THEOREM WriteBackIsSound == Spec => []WrittenBackIsDrafted
<1>1. LoopInv => WrittenBackIsDrafted
  BY LoopSafe
<1> QED
  BY LoopAlways, <1>1, PTL

\* jti_ledger.py, with the sweeps of any number of replicas as its callers: the
\* tokens they are given make one draft each.
THEOREM LoopDraftsOnce == Spec => []OneDraftPerToken
<1>1. LoopInv => OneDraftPerToken
  BY DEF LoopInv, IInv
<1> QED
  BY LoopAlways, <1>1, PTL

\* approval_action.py, "two concurrent clicks cannot both win": for any number
\* of clicks, one decision and one audit row of it at most, and both of them
\* when nothing fails.
THEOREM DecisionsAudited == Spec => []DecisionAudited
<1>1. LoopInv => DecisionAudited
  BY LoopSafe
<1> QED
  BY LoopAlways, <1>1, PTL

\* consume_link and mark_expired: no step revises what a human has decided.
THEOREM DecisionsStand == Spec => DecisionStands
<1>1. LoopInv /\ [Next]_vars
        => [\A i \in 1..Len(cards) :
              cards[i].status \in Choices => cards'[i].status = cards[i].status]_gatekeeperVars
  BY LoopStep DEF Evolved
<1> QED
  BY LoopAlways, <1>1, PTL DEF Spec, DecisionStands

\* routers/kill_switch.py, under the gate checks and publish calls that read the
\* table while it is toggled: from the empty table on, there are never more rows
\* than operators.
THEOREM LoopRowsAreFew ==
  ASSUME FewRowsAtStart
  PROVE  Spec => []RowPerOperator
<1>1. Init => RowsInv
  BY RowsInit DEF Init
<1>2. RowsInv /\ [Next]_vars => RowsInv'
  <2> SUFFICES ASSUME RowsInv, [Next]_vars PROVE RowsInv'
    OBVIOUS
  <2>1. CASE \E p \in Post : Handle(p)
    BY <2>1, RowsStep DEF Handle, Ask, StoreApproval, AskAgain
  <2>2. CASE \E s \in Sweep : RunSweep(s) \/ SweepDies(s)
    BY <2>2, RowsStep DEF RunSweep, FindAwaiting, ReadStatus, EndSweep, AskForToken,
       NoToken, Publish, PublishRaises, WriteBack, SweepDies, gatekeeperVars
  <2>3. CASE (\E c \in Caller : ServeCaller(c)) \/ (\E k \in Click : Approve(k))
             \/ (\E q \in Request : ServeRequest(q))
    BY <2>3, RowsStep DEF ServeCaller, Approve, ServeRequest
  <2>4. CASE (LinkExpires /\ UNCHANGED switchVars) \/ Drain \/ ToggleSwitch \/ UNCHANGED vars
    BY <2>4, RowsStep DEF Drain, ToggleSwitch, vars, gatekeeperVars
  <2> QED
    BY <2>1, <2>2, <2>3, <2>4 DEF Next
<1>3. RowsInv => RowPerOperator
  BY RowsBounded
<1> QED
  BY <1>1, <1>2, <1>3, PTL DEF Spec

-----------------------------------------------------------------------------
(* One sweep at a time, and no mishap that makes a step of the loop be done  *)
(* again: then the loop keeps the promise of Release                         *)

OneSweep == \A s, t \in Sweep : s = t

\* A crash starts a handler or a sweep again; and of an answer that is lost, or
\* that says "failed" of a draft that is made, the caller learns nothing.
Repeating == {"crash", "answer_lost", "timeout", "draft_fails", "record_fails"}
NothingIsRepeated == Mishaps \cap Repeating = {}

\* The asking handler of a post: its gate check is about the post and raises its
\* only card, unless it fails before that.
Asked(p) ==
  /\ gate[p].pc # "idle" => row[p] = "unasked" /\ gate[p].post = p
  /\ row[p] = "unasked" /\ (gate[p].pc # "answered" \/ gate[p].answer = "error")
       => CardsOf(p) = {}

\* A sweep: what it has still to do awaits publication, the post it is at has been
\* approved, and its gate check is about that post, which it does not escalate.
Swept(s) ==
  /\ \A p \in sweep[s].todo : row[p] = "awaiting"
  /\ sweep[s].pc \in {"mint", "token", "await"} =>
       sweep[s].post \in sweep[s].todo /\ HasApproval(sweep[s].post)
  /\ gate[s].pc # "idle" => At(s, "token") /\ gate[s].post = sweep[s].post
  /\ gate[s].pc # "escalate"

\* A request is at work only while a sweep awaits it.
Awaited(q) ==
  /\ ~Over(q) => \E s \in Sweep : At(s, "await") /\ sweep[s].call = q
  /\ req[q].reason = "published" => req[q].pc = "answered"

\* A post that is out is out once, and written back or about to be.
Reporting(s) ==
  At(s, "await") /\ (req[sweep[s].call].pc = "record" \/ req[sweep[s].call].reason = "published")
OutOnce(p) ==
  /\ \A m, n \in Copies(p) : m = n
  /\ Copies(p) # {} =>
       row[p] = "published" \/ \E s \in Sweep : Reporting(s) /\ sweep[s].post = p

OneCardEach == \A i, j \in 1..Len(cards) : cards[i].post = cards[j].post => i = j

ReleaseInv ==
  /\ OneCardEach
  /\ \A p \in Post : Asked(p) /\ OutOnce(p)
  /\ \A s \in Sweep : Swept(s)
  /\ \A q \in Request : Awaited(q)

LEMMA ReleaseInit == Init => ReleaseInv
<1> SUFFICES ASSUME Init PROVE ReleaseInv
  OBVIOUS
<1> USE DEF Init, GatekeeperInit, PublisherInit
<1>1. cards = <<>> /\ drafts = <<>> /\ Len(cards) = 0 /\ Len(drafts) = 0
  OBVIOUS
<1>2. Post \subseteq Caller /\ Sweep \subseteq Caller
  BY LoopAssumption
<1>3. \A p \in Post : CardsOf(p) = {} /\ Copies(p) = {} /\ gate[p].pc = "idle"
  BY <1>1, <1>2 DEF CardsOf, Copies
<1>4. \A s \in Sweep : gate[s].pc = "idle" /\ sweep[s].pc = "idle" /\ sweep[s].todo = {}
  BY <1>2
<1>5. \A q \in Request : req[q].pc = "free" /\ req[q].reason = "none"
  OBVIOUS
<1> HIDE DEF Init, GatekeeperInit, PublisherInit
<1>6. OneCardEach
  BY <1>1 DEF OneCardEach
<1>7. \A p \in Post : Asked(p) /\ OutOnce(p)
  BY <1>3 DEF Asked, OutOnce
<1>8. \A s \in Sweep : Swept(s)
  BY <1>4 DEF Swept
<1>9. \A q \in Request : Awaited(q)
  BY <1>5 DEF Awaited, Over
<1> QED
  BY <1>6, <1>7, <1>8, <1>9 DEF ReleaseInv

-----------------------------------------------------------------------------
(* The cards of a post                                                       *)

LEMMA ApprovalStays ==
  ASSUME InboxInv, InboxInv', Evolved, NEW p, HasApproval(p)
  PROVE  HasApproval(p)'
<1>1. Len(cards) \in Nat /\ Len(cards') \in Nat
  BY LenProperties DEF InboxInv, InboxTypes
<1> QED
  BY <1>1 DEF HasApproval, CardsOf, Evolved, Choices

\* An approval card is raised by the handler of its post, which has none yet.
LEMMA CardRaised ==
  ASSUME GateTypes, ReleaseInv, NEW c \in Caller, Escalate(c)
  PROVE  c \in Post /\ gate[c].post = c /\ row[c] = "unasked" /\ CardsOf(c) = {}
<1>1. gate[c].pc = "escalate"
  BY DEF Escalate
<1>2. c \in Post
  BY <1>1, LoopAssumption DEF ReleaseInv, Swept
<1> QED
  BY <1>1, <1>2 DEF ReleaseInv, Asked

LEMMA CardMoves ==
  ASSUME mishaps \in Nat, InboxInv, GateTypes, ReleaseInv, [Next]_vars
  PROVE  /\ Len(cards) \in Nat
         /\ \A i \in 1..Len(cards) : cards'[i].post = cards[i].post
         /\ \/ Len(cards') = Len(cards)
            \/ \E c \in Post : /\ Escalate(c) /\ Len(cards') = Len(cards) + 1
                               /\ cards'[Len(cards) + 1].post = c
                               /\ cards'[Len(cards) + 1].status = "pending"
                               /\ \A i \in 1..Len(cards) : cards'[i] = cards[i]
                               /\ row[c] = "unasked" /\ CardsOf(c) = {}
<1>1. Len(cards) \in Nat /\ cards \in Seq(Card)
  BY CardTyped DEF InboxInv, InboxTypes
<1>2. \A i \in 1..Len(cards) : cards'[i].post = cards[i].post
  BY InboxStep DEF Evolved
<1>3. ASSUME NEW c \in Caller, Escalate(c)
      PROVE  \E d \in Post : /\ Escalate(d) /\ Len(cards') = Len(cards) + 1
                             /\ cards'[Len(cards) + 1].post = d
                             /\ cards'[Len(cards) + 1].status = "pending"
                             /\ \A i \in 1..Len(cards) : cards'[i] = cards[i]
                             /\ row[d] = "unasked" /\ CardsOf(d) = {}
  <2>1. c \in Post /\ gate[c].post = c /\ row[c] = "unasked" /\ CardsOf(c) = {}
    BY <1>3, CardRaised
  <2> DEFINE card == [post |-> gate[c].post, status |-> "pending",
                      consumed |-> FALSE, overdue |-> FALSE]
  <2>2. card \in Card /\ cards' = Append(cards, card)
    BY <1>3, <2>1 DEF Card, CardStatus, Escalate
  <2>3. card.post = c /\ card.status = "pending"
    BY <2>1
  <2> HIDE DEF card
  <2>4. /\ Len(cards') = Len(cards) + 1 /\ cards'[Len(cards) + 1] = card
        /\ \A i \in 1..Len(cards) : cards'[i] = cards[i]
    BY <1>1, <2>2, AppendProperties
  <2> QED
    BY <1>3, <2>1, <2>3, <2>4
<1>4. ASSUME NEW k \in Click, ServeClick(k) PROVE Len(cards') = Len(cards)
  BY <1>1, <1>4, ExceptSeq DEF ServeClick, FollowLink, RefuseReplay, MarkExpired, RecordExpired,
     ConsumeLink, InsertDecision, RecordChoice, ClickFails
<1>5. CASE LinkExpires
  BY <1>1, <1>5 DEF LinkExpires
<1> QED
  BY <1>1, <1>2, <1>3, <1>4, <1>5, InboxSteps DEF inboxVars

\* The cards of a post stay, but for its one and only, which is added.
LEMMA CardsStay ==
  ASSUME mishaps \in Nat, InboxInv, GateTypes, ReleaseInv, [Next]_vars, NEW p \in Post
  PROVE  CardsOf(p)' = CardsOf(p) \/ (Escalate(p) /\ row[p] = "unasked")
<1>1. CASE Len(cards') = Len(cards)
  BY <1>1, CardMoves DEF CardsOf
<1>2. ASSUME NEW c \in Post, Escalate(c), row[c] = "unasked", Len(cards') = Len(cards) + 1,
             cards'[Len(cards) + 1].post = c, c # p
      PROVE  CardsOf(p)' = CardsOf(p)
  <2>1. \A i : i \in 1..Len(cards') <=> i \in 1..Len(cards) \/ i = Len(cards) + 1
    BY <1>2, CardMoves
  <2> QED
    BY <1>2, <2>1, CardMoves DEF CardsOf
<1> QED
  BY <1>1, <1>2, CardMoves

LEMMA OneCardStep ==
  ASSUME mishaps \in Nat, InboxInv, GateTypes, ReleaseInv, [Next]_vars
  PROVE  OneCardEach'
<1>1. CASE Len(cards') = Len(cards)
  BY <1>1, CardMoves DEF OneCardEach, ReleaseInv
<1>2. ASSUME NEW c \in Post, Len(cards') = Len(cards) + 1, CardsOf(c) = {},
             cards'[Len(cards) + 1].post = c
      PROVE  OneCardEach'
  <2>1. \A i : i \in 1..Len(cards') <=> i \in 1..Len(cards) \/ i = Len(cards) + 1
    BY <1>2, CardMoves
  <2>2. \A i \in 1..Len(cards) : cards'[i].post # c
    BY <1>2, CardMoves DEF CardsOf
  <2> QED
    BY <1>2, <2>1, <2>2, CardMoves DEF OneCardEach, ReleaseInv
<1> QED
  BY <1>1, <1>2, CardMoves

-----------------------------------------------------------------------------
(* The handlers that ask                                                     *)

LEMMA NoRepetition ==
  ASSUME NothingIsRepeated
  PROVE  \A kind \in Repeating : ~Mishap(kind)
BY DEF NothingIsRepeated, Mishap

\* A gate check is still about its post, and is not answered a second time.
LEMMA GateServed ==
  ASSUME NothingIsRepeated, GateTypes, NEW c \in Caller, ServeGateCheck(c)
  PROVE  /\ \A d \in Caller : d # c => gate'[d] = gate[d]
         /\ gate[c].pc \notin {"idle", "answered"} /\ gate'[c].post = gate[c].post
         /\ gate'[c].pc = "escalate" => ~HasApproval(gate[c].post)
         /\ Escalate(c) => gate'[c].pc = "answered" /\ gate'[c].answer = "escalated"
<1>0. gate \in [Caller -> GateRow] /\ ~Mishap("answer_lost")
  BY NoRepetition DEF GateTypes, Repeating
<1> USE DEF GateRow
<1>1. CASE Refuse(c)
  BY <1>0, <1>1 DEF Refuse, Answer, Escalate
<1>2. CASE ApplyPolicy(c)
  BY <1>0, <1>2 DEF ApplyPolicy, Escalate
<1>3. CASE LookUpApproval(c)
  BY <1>0, <1>3 DEF LookUpApproval, Escalate
<1>4. CASE Escalate(c)
  BY <1>0, <1>4 DEF Answer, Escalate
<1>5. CASE MintToken(c)
  BY <1>0, <1>5 DEF MintToken, Escalate
<1>6. CASE GateFails(c)
  BY <1>0, <1>6 DEF GateFails, Answer, Escalate
<1> QED
  BY <1>1, <1>2, <1>3, <1>4, <1>5, <1>6 DEF ServeGateCheck

LEMMA HandlerMoves ==
  ASSUME NothingIsRepeated, GateTypes, SweepTypes, [Next]_vars, NEW p \in Post
  PROVE  \/ Ask(p) \/ StoreApproval(p) \/ AskAgain(p)
         \/ ServeGateCheck(p) /\ UNCHANGED row
         \/ /\ gate'[p] = gate[p]
            /\ row'[p] = row[p] \/ \E s \in Sweep : WriteBack(s) /\ sweep[s].post = p
<1>0. /\ p \in Caller /\ p \notin Sweep /\ gate \in [Caller -> GateRow]
      /\ row \in [Post -> {"unasked", "awaiting", "published"}]
      /\ Post \subseteq Caller /\ Sweep \subseteq Caller
  BY LoopAssumption DEF GateTypes, SweepTypes
<1>1. ASSUME NEW d \in Post, Handle(d), d # p
      PROVE  gate'[p] = gate[p] /\ row'[p] = row[p]
  BY <1>0, <1>1 DEF Handle, Ask, GateCheck, StoreApproval, AskAgain, loopVars
<1>2. ASSUME NEW s \in Sweep, RunSweep(s) \/ SweepDies(s)
      PROVE  /\ gate'[p] = gate[p]
             /\ row'[p] = row[p] \/ (WriteBack(s) /\ sweep[s].post = p)
  <2>1. s # p
    BY <1>0
  <2>2. gate'[p] = gate[p]
    BY <1>0, <1>2, <2>1 DEF RunSweep, FindAwaiting, ReadStatus, EndSweep, AskForToken, GateCheck,
       NoToken, Publish, PublishRaises, WriteBack, SweepDies, gatekeeperVars, gateVars
  <2>3. UNCHANGED row \/ WriteBack(s)
    BY <1>2 DEF RunSweep, FindAwaiting, ReadStatus, EndSweep, AskForToken,
       NoToken, Publish, PublishRaises, SweepDies
  <2>4. ASSUME WriteBack(s) PROVE row' = [row EXCEPT ![sweep[s].post] = "published"]
    BY <2>4 DEF WriteBack
  <2> QED
    BY <1>0, <2>2, <2>3, <2>4
<1>3. ASSUME NEW c \in Caller, ServeCaller(c), c # p
      PROVE  gate'[p] = gate[p] /\ row'[p] = row[p]
  BY <1>0, <1>3, GateServed DEF ServeCaller, loopVars
<1>4. CASE (\E k \in Click : Approve(k)) \/ (\E q \in Request : ServeRequest(q))
  <2>1. UNCHANGED <<gate, row>>
    BY <1>4 DEF Approve, ServeClick, FollowLink, RefuseReplay, MarkExpired, RecordExpired,
       ConsumeLink, InsertDecision, RecordChoice, ClickFails, ServeRequest, gateVars, loopVars
  <2> QED
    BY <2>1
<1>5. CASE (LinkExpires /\ UNCHANGED loopVars) \/ Drain \/ (ToggleSwitch /\ UNCHANGED loopVars)
           \/ UNCHANGED vars
  <2>1. UNCHANGED <<gate, row>>
    BY <1>5 DEF LinkExpires, Drain, ToggleSwitch, gateVars, loopVars, vars, gatekeeperVars
  <2> QED
    BY <2>1
<1>6. ServeCaller(p) => ServeGateCheck(p) /\ UNCHANGED row
  BY DEF ServeCaller, loopVars
<1> QED
  BY <1>1, <1>2, <1>3, <1>4, <1>5, <1>6 DEF Next, Handle

LEMMA AskedStep ==
  ASSUME NothingIsRepeated, mishaps \in Nat, InboxInv, GateTypes, SweepTypes, ReleaseInv,
         [Next]_vars, NEW p \in Post
  PROVE  Asked(p)'
<1>0. /\ Asked(p) /\ p \in Caller /\ gate \in [Caller -> GateRow]
      /\ row \in [Post -> {"unasked", "awaiting", "published"}]
      /\ CardsOf(p)' = CardsOf(p) \/ (Escalate(p) /\ row[p] = "unasked")
  BY LoopAssumption, CardsStay DEF ReleaseInv, GateTypes, SweepTypes
<1> USE DEF GateRow
<1>1. CASE Ask(p)
  <2>1. gate[p].pc = "idle" /\ gate'[p].post = p /\ row'[p] = "unasked" /\ row[p] = "unasked"
    BY <1>0, <1>1 DEF Ask, GateCheck, loopVars
  <2>2. CardsOf(p)' = {}
    BY <1>0, <2>1 DEF Asked, Escalate
  <2> QED
    BY <2>1, <2>2 DEF Asked
<1>2. CASE StoreApproval(p)
  <2>1. gate'[p].pc = "idle" /\ row'[p] = "awaiting"
    BY <1>0, <1>2 DEF StoreApproval
  <2> QED
    BY <2>1 DEF Asked
<1>3. CASE AskAgain(p)
  <2>1. /\ gate[p].pc = "answered" /\ gate[p].answer = "error" /\ row[p] = "unasked"
        /\ gate'[p].pc = "idle"
    BY <1>0, <1>3, NoRepetition DEF AskAgain, Repeating
  <2>2. CardsOf(p)' = {}
    BY <1>0, <2>1 DEF Asked, Escalate
  <2> QED
    BY <2>1, <2>2 DEF Asked
<1>4. CASE ServeGateCheck(p) /\ UNCHANGED row
  <2>1. /\ gate[p].pc \notin {"idle", "answered"} /\ gate'[p].post = gate[p].post
        /\ Escalate(p) => gate'[p].pc = "answered" /\ gate'[p].answer = "escalated"
    BY <1>0, <1>4, GateServed
  <2> QED
    BY <1>0, <1>4, <2>1 DEF Asked
<1>5. ASSUME gate'[p] = gate[p], row'[p] = row[p] PROVE Asked(p)'
  <2>1. ~Escalate(p)
    BY <1>0, <1>5 DEF Escalate, Answer
  <2> QED
    BY <1>0, <1>5, <2>1 DEF Asked
<1>6. ASSUME NEW s \in Sweep, WriteBack(s), sweep[s].post = p, gate'[p] = gate[p] PROVE Asked(p)'
  <2>1. row'[p] = "published"
    BY <1>0, <1>6 DEF WriteBack
  <2>2. row[p] = "awaiting"
    BY <1>6 DEF WriteBack, ReleaseInv, Swept, At
  <2> QED
    BY <1>0, <1>6, <2>1, <2>2 DEF Asked
<1> QED
  BY <1>1, <1>2, <1>3, <1>4, <1>5, <1>6, HandlerMoves

-----------------------------------------------------------------------------
(* The sweep                                                                 *)

\* The newest card of a post is its only one.
LEMMA StatusRead ==
  ASSUME OneCardEach, NEW p, LatestStatus(p) = "approved"
  PROVE  HasApproval(p)
<1>1. CardsOf(p) # {} /\ cards[Newest(CardsOf(p))].status = "approved"
  BY DEF LatestStatus
<1>2. PICK i : i \in CardsOf(p)
  BY <1>1
<1>3. \A j \in CardsOf(p) : j = i
  BY <1>2 DEF CardsOf, OneCardEach
<1>4. i <= i
  BY <1>2 DEF CardsOf
<1>5. Newest(CardsOf(p)) \in CardsOf(p)
  BY <1>2, <1>3, <1>4 DEF Newest
<1> QED
  BY <1>1, <1>5 DEF HasApproval

LEMMA SweepSteps ==
  ASSUME NothingIsRepeated, OneSweep, GateTypes, [Next]_vars, NEW s \in Sweep
  PROVE  \/ RunSweep(s)
         \/ ServeGateCheck(s) /\ UNCHANGED <<row, sweep>>
         \/ /\ UNCHANGED sweep /\ gate'[s] = gate[s]
            /\ UNCHANGED row \/ \E p \in Post : StoreApproval(p)
<1>0. /\ s \in Caller /\ s \notin Post /\ gate \in [Caller -> GateRow]
      /\ \A r \in Sweep : r = s
  BY LoopAssumption DEF GateTypes, OneSweep
<1>1. ASSUME NEW p \in Post, Handle(p)
      PROVE  /\ UNCHANGED sweep /\ gate'[s] = gate[s]
             /\ UNCHANGED row \/ StoreApproval(p)
  <2>1. s # p
    BY <1>0
  <2> QED
    BY <1>0, <1>1, <2>1 DEF Handle, Ask, GateCheck, StoreApproval, AskAgain, loopVars
<1>2. ASSUME NEW r \in Sweep, RunSweep(r) \/ SweepDies(r) PROVE RunSweep(s)
  <2>1. ~SweepDies(r)
    BY NoRepetition DEF SweepDies, Repeating
  <2> QED
    BY <1>0, <1>2, <2>1
<1>3. ASSUME NEW c \in Caller, ServeCaller(c)
      PROVE  /\ UNCHANGED <<row, sweep>>
             /\ ServeGateCheck(s) \/ gate'[s] = gate[s]
  BY <1>0, <1>3, GateServed DEF ServeCaller, loopVars
<1>4. CASE (\E k \in Click : Approve(k)) \/ (\E q \in Request : ServeRequest(q))
  BY <1>4 DEF Approve, ServeClick, FollowLink, RefuseReplay, MarkExpired, RecordExpired,
     ConsumeLink, InsertDecision, RecordChoice, ClickFails, ServeRequest, gateVars, loopVars
<1>5. CASE (LinkExpires /\ UNCHANGED loopVars) \/ Drain \/ (ToggleSwitch /\ UNCHANGED loopVars)
           \/ UNCHANGED vars
  BY <1>5 DEF LinkExpires, Drain, ToggleSwitch, gateVars, loopVars, vars, gatekeeperVars
<1> QED
  BY <1>1, <1>2, <1>3, <1>4, <1>5 DEF Next

LEMMA SweptStep ==
  ASSUME NothingIsRepeated, OneSweep, InboxInv, InboxInv', Evolved, GateTypes, SweepTypes,
         ReleaseInv, [Next]_vars, NEW s \in Sweep
  PROVE  Swept(s)'
<1>0. /\ Swept(s) /\ s \in Caller /\ gate \in [Caller -> GateRow]
      /\ row \in [Post -> {"unasked", "awaiting", "published"}]
      /\ sweep \in [Sweep -> SweepRow] /\ sweep[s].todo \subseteq Post
      /\ \A p : HasApproval(p) => HasApproval(p)'
  BY LoopAssumption, ApprovalStays DEF ReleaseInv, GateTypes, SweepTypes, SweepRow
<1>1. ASSUME UNCHANGED <<sweep, row>>, gate'[s] = gate[s] PROVE Swept(s)'
  BY <1>0, <1>1 DEF Swept, At
<1>2. ASSUME NEW p \in Post, StoreApproval(p), UNCHANGED sweep, gate'[s] = gate[s]
      PROVE  Swept(s)'
  <2>1. \A x \in Post : row[x] = "awaiting" => row'[x] = "awaiting"
    BY <1>0, <1>2 DEF StoreApproval
  <2> QED
    BY <1>0, <1>2, <2>1 DEF Swept, At
<1>3. CASE ServeGateCheck(s) /\ UNCHANGED <<row, sweep>>
  <2>1. /\ gate[s].pc # "idle" /\ gate'[s].post = gate[s].post
        /\ gate'[s].pc = "escalate" => ~HasApproval(gate[s].post)
    BY <1>0, <1>3, GateServed
  <2>2. At(s, "token") /\ gate[s].post = sweep[s].post /\ HasApproval(sweep[s].post)
    BY <1>0, <2>1 DEF Swept, At
  <2> QED
    BY <1>0, <1>3, <2>1, <2>2 DEF Swept, At
<1>4. CASE FindAwaiting(s)
  <2> DEFINE waiting == {p \in Post : row[p] = "awaiting"}
  <2>1. sweep' = [sweep EXCEPT ![s].pc = "next", ![s].todo = waiting] /\ At(s, "idle")
        /\ UNCHANGED <<row, gate>>
    BY <1>4 DEF FindAwaiting, gatekeeperVars, gateVars
  <2>2. \A p \in waiting : row[p] = "awaiting"
    OBVIOUS
  <2> HIDE DEF waiting
  <2>3. sweep'[s].pc = "next" /\ sweep'[s].todo = waiting
    BY <1>0, <2>1 DEF SweepRow
  <2>4. gate[s].pc = "idle"
    BY <1>0, <2>1 DEF Swept, At
  <2> QED
    BY <2>1, <2>2, <2>3, <2>4 DEF Swept
<1>5. CASE ReadStatus(s)
  <2>1. PICK p \in sweep[s].todo :
          \/ /\ LatestStatus(p) = "approved"
             /\ sweep' = [sweep EXCEPT ![s].pc = "mint", ![s].post = p]
          \/ sweep' = [sweep EXCEPT ![s].todo = @ \ {p}]
    BY <1>5 DEF ReadStatus
  <2>2. At(s, "next") /\ UNCHANGED <<row, gate>> /\ gate[s].pc = "idle"
    BY <1>0, <1>5 DEF ReadStatus, gatekeeperVars, gateVars, Swept, At
  <2>3. \/ /\ sweep'[s].pc = "mint" /\ sweep'[s].post = p /\ sweep'[s].todo = sweep[s].todo
           /\ HasApproval(p)
        \/ sweep'[s].pc = "next" /\ sweep'[s].todo \subseteq sweep[s].todo
    BY <1>0, <2>1, <2>2, StatusRead DEF SweepRow, ReleaseInv, At
  <2> QED
    BY <1>0, <2>2, <2>3 DEF Swept
<1>6. CASE EndSweep(s)
  <2>1. /\ UNCHANGED <<row, gate>> /\ At(s, "next")
        /\ sweep'[s].pc = "idle" /\ sweep'[s].todo = sweep[s].todo
    BY <1>0, <1>6 DEF EndSweep, MoveTo, SweepRow, gatekeeperVars, gateVars
  <2> QED
    BY <1>0, <2>1 DEF Swept, At
<1>7. CASE AskForToken(s)
  <2>1. /\ UNCHANGED row /\ At(s, "mint") /\ sweep'[s].pc = "token"
        /\ sweep'[s].todo = sweep[s].todo /\ sweep'[s].post = sweep[s].post
        /\ gate'[s].post = sweep[s].post /\ gate'[s].pc = "policy"
    BY <1>0, <1>7 DEF AskForToken, GateCheck, MoveTo, SweepRow
  <2> QED
    BY <1>0, <2>1 DEF Swept, At
<1>8. CASE Publish(s)
  <2>1. PICK q \in Request : sweep' = [sweep EXCEPT ![s].pc = "await", ![s].call = q]
    BY <1>8 DEF Publish
  <2>2. /\ UNCHANGED row /\ At(s, "token") /\ gate'[s].pc = "idle"
        /\ sweep'[s].todo = sweep[s].todo /\ sweep'[s].post = sweep[s].post
    BY <1>0, <1>8, <2>1 DEF Publish, SweepRow, GateRow
  <2> QED
    BY <1>0, <2>2 DEF Swept, At
<1>9. ASSUME NoToken(s) \/ PublishRaises(s) \/ WriteBack(s) PROVE Swept(s)'
  <2>1. /\ sweep'[s].pc = "next" /\ sweep'[s].todo = sweep[s].todo \ {sweep[s].post}
    BY <1>0, <1>9 DEF NoToken, PublishRaises, WriteBack, Skip, SweepRow
  <2>2. gate'[s].pc = "idle"
    <3>1. CASE NoToken(s)
      BY <1>0, <3>1 DEF NoToken, GateRow
    <3>2. CASE PublishRaises(s) \/ WriteBack(s)
      BY <1>0, <3>2 DEF PublishRaises, WriteBack, gatekeeperVars, gateVars, Swept, At
    <3> QED
      BY <1>9, <3>1, <3>2
  <2>3. \A p \in Post : p # sweep[s].post => row'[p] = row[p]
    BY <1>0, <1>9 DEF NoToken, PublishRaises, WriteBack
  <2> QED
    BY <1>0, <2>1, <2>2, <2>3 DEF Swept
<1> QED
  BY <1>1, <1>2, <1>3, <1>4, <1>5, <1>6, <1>7, <1>8, <1>9, SweepSteps DEF RunSweep

-----------------------------------------------------------------------------
(* The publisher, serving a sweep that waits                                 *)

\* A served request is at work; its draft and its row end as they should.
LEMMA WorkServed ==
  ASSUME NothingIsRepeated, PublisherTypeOK, NEW q \in Request, ServePublish(q)
  PROVE  /\ ~Over(q)
         /\ Drafted(q) => req'[q].pc = "record"
         /\ req[q].pc = "record" => req'[q].reason = "published"
         /\ req'[q].reason = "published" => req[q].reason = "published" \/ req'[q].pc = "answered"
<1>0. /\ \A kind \in Repeating : ~Mishap(kind)
      /\ req \in [Request -> [pc : RequestSteps, token : Token, sent : Asset,
                              rows : Nat, reason : Reasons]]
  BY NoRepetition DEF PublisherTypeOK
<1> DEFINE Goal == /\ ~Over(q)
                   /\ Drafted(q) => req'[q].pc = "record"
                   /\ req[q].pc = "record" => req'[q].reason = "published"
                   /\ req'[q].reason = "published"
                        => req[q].reason = "published" \/ req'[q].pc = "answered"
<1>1. ASSUME NEW from \in {"verify", "switch", "hash", "burn", "count"}, NEW to \in RequestSteps,
             Step(q, from, to)
      PROVE  Goal
  BY <1>0, <1>1 DEF Step, Over, Drafted
<1>2. ASSUME NEW from \in {"verify", "switch", "hash", "burn", "count"}, NEW why, Reject(q, from, why)
      PROVE  Goal
  BY <1>0, <1>2 DEF Reject, Over, Drafted
<1>3. CASE CreateDraft(q)
  <2>1. Step(q, "create", "record")
    BY <1>0, <1>3 DEF CreateDraft, Repeating
  <2> QED
    BY <1>0, <2>1 DEF Step, Over, Drafted
<1>4. CASE RecordPublish(q)
  <2>1. /\ req[q].pc = "record"
        /\ req' = [req EXCEPT ![q].pc = "answered", ![q].rows = @ + 1, ![q].reason = "published"]
    BY <1>0, <1>4 DEF RecordPublish, Repeating
  <2> QED
    BY <1>0, <2>1 DEF Over, Drafted
<1> HIDE DEF Goal
<1>5. ASSUME VerifyToken(q) \/ CheckSwitch(q) \/ CheckHash(q) \/ BurnToken(q) \/ CheckQueueCap(q)
      PROVE  Goal
  BY <1>1, <1>2, <1>5 DEF VerifyToken, CheckSwitch, CheckHash, BurnToken, CheckQueueCap,
     AfterBurn, RequestSteps
<1> QED
  BY <1>3, <1>4, <1>5 DEF ServePublish, Goal

\* A sweep waits until its request is over.
LEMMA WaitEnds ==
  ASSUME NothingIsRepeated, OneSweep, SweepTypes, ReleaseInv, [Next]_vars,
         NEW s \in Sweep, At(s, "await")
  PROVE  \/ sweep'[s] = sweep[s]
         \/ Over(sweep[s].call) /\ req[sweep[s].call].reason # "published" /\ UNCHANGED <<req, row>>
         \/ /\ Over(sweep[s].call) /\ req[sweep[s].call].reason = "published"
            /\ UNCHANGED req /\ row' = [row EXCEPT ![sweep[s].post] = "published"]
<1>1. CASE PublishRaises(s)
  BY <1>1, NoRepetition DEF PublishRaises, Repeating, publisherVars
<1>2. CASE WriteBack(s)
  BY <1>2 DEF WriteBack, publisherVars
<1>3. ~(FindAwaiting(s) \/ ReadStatus(s) \/ EndSweep(s) \/ AskForToken(s) \/ NoToken(s) \/ Publish(s))
  BY DEF FindAwaiting, ReadStatus, EndSweep, AskForToken, NoToken, Publish, At
<1>4. ASSUME NEW r \in Sweep, RunSweep(r) \/ SweepDies(r) PROVE PublishRaises(s) \/ WriteBack(s)
  <2>1. r = s /\ ~SweepDies(r)
    BY NoRepetition DEF OneSweep, SweepDies, Repeating
  <2> QED
    BY <1>3, <1>4, <2>1 DEF RunSweep
<1>5. CASE \E p \in Post : Handle(p)
  BY <1>5 DEF Handle, Ask, StoreApproval, AskAgain, loopVars
<1>6. CASE (\E c \in Caller : ServeCaller(c)) \/ (\E k \in Click : Approve(k))
           \/ (\E q \in Request : ServeRequest(q))
  BY <1>6 DEF ServeCaller, Approve, ServeRequest, loopVars
<1>7. CASE (LinkExpires /\ UNCHANGED loopVars) \/ Drain \/ (ToggleSwitch /\ UNCHANGED loopVars)
           \/ UNCHANGED vars
  BY <1>7 DEF Drain, vars, loopVars
<1> QED
  BY <1>1, <1>2, <1>4, <1>5, <1>6, <1>7 DEF Next

LEMMA AwaitedStep ==
  ASSUME NothingIsRepeated, OneSweep, PublisherTypeOK, GateTypes, SweepTypes, ReleaseInv,
         [Next]_vars, NEW q \in Request
  PROVE  Awaited(q)'
<1>0. /\ Awaited(q) /\ sweep \in [Sweep -> SweepRow]
      /\ \A s \in Sweep : \A t \in Sweep : s = t
  BY DEF ReleaseInv, SweepTypes, OneSweep
<1>1. ASSUME NEW s \in Sweep, Publish(s) PROVE Awaited(q)'
  <2>1. PICK r \in Request, t \in Token : Sends(s, r, t)
    BY <1>1, PublishArrives
  <2>2. At(s, "token") /\ sweep'[s].pc = "await" /\ sweep'[s].call = r
    BY <1>0, <1>1, <2>1 DEF Publish, Sends, SweepRow
  <2>3. CASE q = r
    BY <2>1, <2>2, <2>3 DEF Awaited, At, Sends, Arrive, PublisherTypeOK
  <2>4. CASE q # r
    <3>1. req'[q] = req[q]
      BY <2>1, <2>4 DEF Sends, Arrive, PublisherTypeOK
    <3>2. Over(q)
      BY <1>0, <2>2 DEF Awaited, At
    <3> QED
      BY <1>0, <3>1, <3>2 DEF Awaited, Over
  <2> QED
    BY <2>3, <2>4
<1>2. CASE ~\E s \in Sweep : Publish(s)
  <2>1. req'[q] = req[q] \/ ServePublish(q)
    BY <1>2, PublisherMoves, Served DEF BufferPosts, publisherVars
  <2>2. ~Over(q)' => ~Over(q)
    BY <2>1, WorkServed DEF Over
  <2>3. ASSUME ~Over(q)' PROVE \E s \in Sweep : At(s, "await")' /\ sweep'[s].call = q
    <3>1. PICK s \in Sweep : At(s, "await") /\ sweep[s].call = q
      BY <1>0, <2>2, <2>3 DEF Awaited
    <3>2. sweep'[s] = sweep[s]
      BY <2>2, <2>3, <3>1, WaitEnds
    <3> QED
      BY <3>1, <3>2 DEF At
  <2>4. req'[q].reason = "published" => req'[q].pc = "answered"
    BY <1>0, <2>1, WorkServed DEF Awaited, Over
  <2> QED
    BY <2>3, <2>4 DEF Awaited
<1> QED
  BY <1>1, <1>2

-----------------------------------------------------------------------------
(* What is out is out once                                                   *)

LEMMA DraftMoves ==
  ASSUME PublisherTypeOK, [Next]_vars
  PROVE  drafts' = drafts \/ \E q \in Request : ServePublish(q) /\ Drafted(q)
BY PublisherMoves, Served DEF Publish, Arrive, BufferPosts, publisherVars

\* What goes out is approved, is not out yet, and will be written back.
LEMMA DraftOut ==
  ASSUME NothingIsRepeated, OneSweep, LoopInv, ReleaseInv, [Next]_vars,
         NEW q \in Request, ServePublish(q), Drafted(q),
         NEW p, p = req[q].sent
  PROVE  /\ p \in Post /\ HasApproval(p)
         /\ Len(drafts) \in Nat /\ Copies(p) = {} /\ Copies(p)' = {Len(drafts) + 1}
         /\ \A x : x # p => Copies(x)' = Copies(x)
         /\ \E s \in Sweep : Reporting(s)' /\ sweep'[s].post = p
<1>0. PublisherTypeOK /\ SweepTypes /\ GateTypes
  BY DEF LoopInv, IInv
<1>1. ~Over(q) /\ req'[q].pc = "record" /\ req[q].pc = "create"
  BY <1>0, WorkServed DEF Drafted
<1>2. PICK s \in Sweep : At(s, "await") /\ sweep[s].call = q
  BY <1>1 DEF ReleaseInv, Awaited
<1>3. sweep[s].post = p /\ p \in sweep[s].todo /\ HasApproval(p) /\ row[p] = "awaiting"
  BY <1>2 DEF LoopInv, WriteBackInv, ReleaseInv, Swept, At
<1>4. p \in Post
  BY <1>0, <1>3 DEF SweepTypes, SweepRow
<1>5. Copies(p) = {}
  <2>1. ~\E t \in Sweep : Reporting(t)
    BY <1>1, <1>2 DEF OneSweep, Reporting, ReleaseInv, Awaited
  <2> QED
    BY <1>3, <1>4, <2>1 DEF ReleaseInv, OutOnce
<1>6. /\ Len(drafts) \in Nat /\ Len(drafts') = Len(drafts) + 1
      /\ \A n \in 1..Len(drafts) : drafts'[n] = drafts[n]
      /\ drafts'[Len(drafts) + 1].asset = p
  BY <1>0, DraftAdded
<1>7. \A n : n \in 1..Len(drafts') <=> n \in 1..Len(drafts) \/ n = Len(drafts) + 1
  BY <1>6
<1>8. Copies(p)' = {Len(drafts) + 1} /\ \A x : x # p => Copies(x)' = Copies(x)
  BY <1>5, <1>6, <1>7 DEF Copies
<1>9. sweep'[s] = sweep[s]
  BY <1>0, <1>1, <1>2, WaitEnds
<1> QED
  BY <1>1, <1>2, <1>3, <1>4, <1>5, <1>6, <1>8, <1>9 DEF Reporting, At

\* A sweep that has the 200 of a post, or will have it, writes it back.
LEMMA ReportStays ==
  ASSUME NothingIsRepeated, OneSweep, LoopInv, ReleaseInv, [Next]_vars, NEW p \in Post,
         row[p] = "published" \/ \E s \in Sweep : Reporting(s) /\ sweep[s].post = p
  PROVE  row'[p] = "published" \/ \E s \in Sweep : Reporting(s)' /\ sweep'[s].post = p
<1>0. /\ PublisherTypeOK /\ SweepTypes /\ GateTypes
      /\ row \in [Post -> {"unasked", "awaiting", "published"}]
  BY DEF LoopInv, IInv, SweepTypes
<1>1. CASE row[p] = "published"
  BY <1>0, <1>1, HandlerMoves DEF Ask, StoreApproval, AskAgain, WriteBack, loopVars
<1>2. ASSUME NEW s \in Sweep, Reporting(s), sweep[s].post = p
      PROVE  row'[p] = "published" \/ (Reporting(s)' /\ sweep'[s].post = p)
  <2> DEFINE q == sweep[s].call
  <2>1. At(s, "await") /\ q \in Request
    BY <1>0, <1>2 DEF Reporting, SweepTypes
  <2>2. /\ Awaited(q)
        /\ req[q].reason = "published" \/ (req[q].pc = "record" /\ ~Over(q))
    BY <1>2, <2>1 DEF Reporting, ReleaseInv, Over
  <2> HIDE DEF q
  <2>3. CASE sweep'[s] = sweep[s]
    <3>1. ~\E t \in Sweep : Publish(t)
      BY <2>1 DEF OneSweep, Publish, At
    <3>2. req'[q] = req[q] \/ ServePublish(q)
      BY <1>0, <2>1, <3>1, PublisherMoves, Served DEF BufferPosts, publisherVars
    <3>3. req'[q].pc = "record" \/ req'[q].reason = "published"
      BY <1>0, <2>1, <2>2, <3>2, WorkServed DEF Awaited, Over
    <3> QED
      BY <1>2, <2>1, <2>3, <3>3 DEF Reporting, At, q
  <2>4. CASE row' = [row EXCEPT ![sweep[s].post] = "published"]
    BY <1>0, <1>2, <2>4
  <2> QED
    BY <1>0, <2>1, <2>2, <2>3, <2>4, WaitEnds DEF q
<1> QED
  BY <1>1, <1>2

LEMMA OutOnceStep ==
  ASSUME NothingIsRepeated, OneSweep, LoopInv, ReleaseInv, [Next]_vars, NEW p \in Post
  PROVE  OutOnce(p)'
<1>0. PublisherTypeOK /\ OutOnce(p)
  BY DEF LoopInv, IInv, ReleaseInv
<1>1. ASSUME Copies(p)' = Copies(p) PROVE OutOnce(p)'
  BY <1>0, <1>1, ReportStays DEF OutOnce
<1>2. CASE drafts' = drafts
  BY <1>1, <1>2 DEF Copies
<1>3. ASSUME NEW q \in Request, ServePublish(q), Drafted(q) PROVE OutOnce(p)'
  <2>1. CASE p = req[q].sent
    <3>1. PICK n : Copies(p)' = {n}
      BY <1>3, <2>1, DraftOut
    <3>2. \E s \in Sweep : Reporting(s)' /\ sweep'[s].post = p
      BY <1>3, <2>1, DraftOut
    <3> QED
      BY <3>1, <3>2 DEF OutOnce
  <2>2. CASE p # req[q].sent
    <3>1. PICK a : a = req[q].sent
      OBVIOUS
    <3>2. Copies(p)' = Copies(p)
      BY <1>3, <2>2, <3>1, DraftOut
    <3> QED
      BY <1>1, <3>2
  <2> QED
    BY <2>1, <2>2
<1> QED
  BY <1>0, <1>2, <1>3, DraftMoves

LEMMA ReleaseStep ==
  ASSUME NothingIsRepeated, OneSweep, LoopInv, ReleaseInv, [Next]_vars
  PROVE  ReleaseInv'
<1>1. /\ mishaps \in Nat /\ PublisherTypeOK /\ InboxInv /\ GateTypes /\ SweepTypes
      /\ InboxInv' /\ Evolved
  BY LoopStep DEF LoopInv, IInv, PublisherTypeOK
<1>2. OneCardEach'
  BY <1>1, OneCardStep
<1>3. \A p \in Post : Asked(p)'
  BY <1>1, AskedStep
<1>4. \A p \in Post : OutOnce(p)'
  BY OutOnceStep
<1>5. \A s \in Sweep : Swept(s)'
  BY <1>1, SweptStep
<1>6. \A q \in Request : Awaited(q)'
  BY <1>1, AwaitedStep
<1> QED
  BY <1>2, <1>3, <1>4, <1>5, <1>6 DEF ReleaseInv

-----------------------------------------------------------------------------
(* The steps of Release                                                      *)

LEMMA TablesMoveApart ==
  ASSUME [Next]_vars
  PROVE  UNCHANGED drafts \/ UNCHANGED inboxVars
<1>1. CASE (\E p \in Post : Handle(p)) \/ (\E c \in Caller : ServeCaller(c))
           \/ (\E k \in Click : Approve(k))
  BY <1>1 DEF Handle, Ask, StoreApproval, AskAgain, ServeCaller, Approve, publisherVars
<1>2. CASE \E s \in Sweep : RunSweep(s) \/ SweepDies(s)
  BY <1>2 DEF RunSweep, FindAwaiting, ReadStatus, EndSweep, AskForToken, GateCheck, NoToken,
     Publish, PublishRaises, WriteBack, SweepDies, gatekeeperVars
<1>3. CASE (\E q \in Request : ServeRequest(q)) \/ Drain
  BY <1>3 DEF ServeRequest, Drain
<1>4. CASE (LinkExpires /\ UNCHANGED publisherVars)
           \/ (ToggleSwitch /\ UNCHANGED publisherVars) \/ UNCHANGED vars
  BY <1>4 DEF vars, publisherVars
<1> QED
  BY <1>1, <1>2, <1>3, <1>4 DEF Next

\* A post has a new verdict only if one of its cards is decided.
LEMMA VerdictKept ==
  ASSUME InboxInv, InboxInv', Evolved, NEW p,
         \A i \in 1..Len(cards') :
           cards'[i].post = p /\ cards'[i].status \in Choices
             => i \in 1..Len(cards) /\ cards[i].status \in Choices
  PROVE  Verdict(p)' = Verdict(p)
<1>1. Len(cards) \in Nat /\ Len(cards') \in Nat
  BY LenProperties DEF InboxInv, InboxTypes
<1>2. ASSUME NEW o \in Choices
      PROVE  (\E i \in CardsOf(p)' : cards'[i].status = o) <=> (\E i \in CardsOf(p) : cards[i].status = o)
  BY <1>1, <1>2 DEF CardsOf, Evolved
<1>3. "approved" \in Choices /\ "rejected" \in Choices
  BY DEF Choices
<1>4. /\ HasApproval(p)' <=> HasApproval(p)
      /\ (\E i \in CardsOf(p)' : cards'[i].status = "rejected")
           <=> (\E i \in CardsOf(p) : cards[i].status = "rejected")
  BY <1>2, <1>3 DEF HasApproval
<1> QED
  BY <1>4 DEF Verdict

\* The click that wins decides a post that was open, and no other.
LEMMA VerdictGiven ==
  ASSUME InboxInv, InboxInv', Evolved, OneCardEach, NEW k \in Click, ConsumeLink(k),
         ~cards[click[k].card].consumed
  PROVE  \E p \in Post : /\ Verdict(p) = "open" /\ Verdict(p)' \in {"approved", "refused"}
                         /\ \A x : x # p => Verdict(x)' = Verdict(x)
<1>1. PICK c \in 1..Len(cards) : /\ c = click[k].card /\ cards[c] \in Card /\ CardAccount(c)
                                 /\ click[k].choice \in Choices /\ Len(cards) \in Nat
  BY ClickTyped, CardTyped DEF ConsumeLink, InboxInv
<1> DEFINE card == [cards[c] EXCEPT !.status = click[k].choice, !.consumed = TRUE]
<1>2. cards' = [cards EXCEPT ![c] = card]
  BY <1>1 DEF ConsumeLink
<1>3. card \in Card /\ card.post = cards[c].post /\ card.status = click[k].choice
  BY <1>1 DEF Card, CardStatus
<1> HIDE DEF card
<1>4. /\ Len(cards') = Len(cards) /\ cards'[c] = card
      /\ \A i \in 1..Len(cards) : i # c => cards'[i] = cards[i]
  BY <1>2, <1>3, CardWritten DEF InboxInv
<1>5. PICK p \in Post : p = cards[c].post
  BY <1>1 DEF Card
<1>6. ASSUME NEW x, x # p PROVE Verdict(x)' = Verdict(x)
  <2>1. \A i \in 1..Len(cards') :
          cards'[i].post = x /\ cards'[i].status \in Choices
            => i \in 1..Len(cards) /\ cards[i].status \in Choices
    BY <1>3, <1>4, <1>5, <1>6
  <2> QED
    BY <2>1, VerdictKept
<1>7. CardsOf(p) = {c} /\ CardsOf(p)' = {c}
  <2>1. CardsOf(p) = {c}
    BY <1>1, <1>5 DEF CardsOf, OneCardEach
  <2>2. CardsOf(p)' = CardsOf(p)
    BY <1>3, <1>4, <1>5 DEF CardsOf
  <2> QED
    BY <2>1, <2>2
<1>8. cards[c].status \notin {"approved", "rejected"}
  BY <1>1 DEF CardAccount, Choices
<1>9. Verdict(p) = "open"
  BY <1>7, <1>8 DEF Verdict, HasApproval
<1>10. cards'[c].status \in {"approved", "rejected"}
  BY <1>1, <1>3, <1>4 DEF Choices
<1>11. Verdict(p)' \in {"approved", "refused"}
  BY <1>7, <1>10 DEF Verdict, HasApproval
<1> QED
  BY <1>6, <1>9, <1>11

LEMMA VerdictMoves ==
  ASSUME LoopInv, ReleaseInv, [Next]_vars
  PROVE  \/ \A x \in Post : Verdict(x)' = Verdict(x)
         \/ \E p \in Post : /\ Verdict(p) = "open" /\ Verdict(p)' \in {"approved", "refused"}
                            /\ \A x \in Post : x # p => Verdict(x)' = Verdict(x)
<1>0. /\ mishaps \in Nat /\ InboxInv /\ GateTypes /\ InboxInv' /\ Evolved /\ OneCardEach
      /\ Len(cards) \in Nat /\ cards \in Seq(Card) /\ click \in [Click -> ClickRow]
  BY LoopStep, CardTyped DEF LoopInv, IInv, PublisherTypeOK, ReleaseInv, InboxInv, InboxTypes
<1>1. ASSUME \A i \in 1..Len(cards') : cards'[i].status \in Choices
               => i \in 1..Len(cards) /\ cards[i].status \in Choices
      PROVE  \A x \in Post : Verdict(x)' = Verdict(x)
  BY <1>0, <1>1, VerdictKept
<1>2. CASE cards' = cards
  BY <1>1, <1>2
<1>3. ASSUME NEW c \in Caller, Escalate(c) PROVE \A x \in Post : Verdict(x)' = Verdict(x)
  <2>1. Len(cards') # Len(cards)
    BY <1>0, <1>3 DEF Escalate
  <2>2. /\ Len(cards') = Len(cards) + 1 /\ cards'[Len(cards) + 1].status = "pending"
        /\ \A i \in 1..Len(cards) : cards'[i] = cards[i]
    BY <1>0, <2>1, CardMoves
  <2>3. \A i \in 1..Len(cards') : i \in 1..Len(cards) \/ i = Len(cards) + 1
    BY <1>0, <2>2
  <2>4. "pending" \notin Choices
    BY DEF Choices
  <2> QED
    BY <1>1, <2>2, <2>3, <2>4
<1>4. ASSUME NEW k \in Click, MarkExpired(k) PROVE \A x \in Post : Verdict(x)' = Verdict(x)
  <2>1. cards' = [cards EXCEPT ![click[k].card].status = IF @ = "pending" THEN "expired" ELSE @]
    BY <1>4 DEF MarkExpired
  <2>2. Len(cards') = Len(cards) /\ \A i \in 1..Len(cards) :
          cards'[i].status = cards[i].status \/ cards'[i].status = "expired"
    BY <1>0, <2>1
  <2>3. "expired" \notin Choices
    BY DEF Choices
  <2> QED
    BY <1>1, <2>2, <2>3
<1>5. CASE LinkExpires
  <2>1. PICK c \in 1..Len(cards) : cards' = [cards EXCEPT ![c].overdue = TRUE]
    BY <1>5 DEF LinkExpires
  <2>2. Len(cards') = Len(cards) /\ \A i \in 1..Len(cards) : cards'[i].status = cards[i].status
    BY <1>0, <2>1
  <2> QED
    BY <1>1, <2>2
<1>6. ASSUME NEW k \in Click, ServeClick(k)
      PROVE  \/ cards' = cards \/ MarkExpired(k)
             \/ ConsumeLink(k) /\ ~cards[click[k].card].consumed
  BY <1>6 DEF ServeClick, FollowLink, RefuseReplay, RecordExpired, ConsumeLink, InsertDecision,
     RecordChoice, ClickFails
<1>7. ASSUME NEW k \in Click, ConsumeLink(k), ~cards[click[k].card].consumed
      PROVE  \E p \in Post : /\ Verdict(p) = "open" /\ Verdict(p)' \in {"approved", "refused"}
                             /\ \A x \in Post : x # p => Verdict(x)' = Verdict(x)
  BY <1>0, <1>7, VerdictGiven
<1> QED
  BY <1>2, <1>3, <1>4, <1>5, <1>6, <1>7, InboxSteps DEF inboxVars

LEMMA CopiesMove ==
  ASSUME NothingIsRepeated, OneSweep, LoopInv, ReleaseInv, [Next]_vars
  PROVE  \/ \A x \in Post : Cardinality(Copies(x))' = Cardinality(Copies(x))
         \/ \E p \in Post : /\ Verdict(p) = "approved" /\ Cardinality(Copies(p)) = 0
                            /\ Cardinality(Copies(p))' = 1
                            /\ \A x \in Post : x # p => Cardinality(Copies(x))' = Cardinality(Copies(x))
<1>1. CASE drafts' = drafts
  BY <1>1 DEF Copies
<1>2. ASSUME NEW q \in Request, ServePublish(q), Drafted(q)
      PROVE  \E p \in Post : /\ Verdict(p) = "approved" /\ Cardinality(Copies(p)) = 0
                             /\ Cardinality(Copies(p))' = 1
                             /\ \A x \in Post : x # p => Cardinality(Copies(x))' = Cardinality(Copies(x))
  <2>1. PICK p : p = req[q].sent
    OBVIOUS
  <2>2. /\ p \in Post /\ HasApproval(p) /\ Copies(p) = {} /\ Copies(p)' = {Len(drafts) + 1}
        /\ \A x : x # p => Copies(x)' = Copies(x)
    BY <1>2, <2>1, DraftOut
  <2>3. Cardinality(Copies(p)) = 0 /\ Cardinality(Copies(p))' = 1
    BY <2>2, FS_EmptySet, FS_Singleton
  <2>4. \A x \in Post : x # p => Cardinality(Copies(x))' = Cardinality(Copies(x))
    BY <2>2
  <2> QED
    BY <2>2, <2>3, <2>4 DEF Verdict
<1>3. PublisherTypeOK
  BY DEF LoopInv, IInv
<1> QED
  BY <1>1, <1>2, <1>3, DraftMoves

LEMMA PromiseInit == Init => Promise!Init
<1> SUFFICES ASSUME Init PROVE Promise!Init
  OBVIOUS
<1>1. cards = <<>> /\ drafts = <<>> /\ Len(cards) = 0 /\ Len(drafts) = 0
  BY DEF Init, GatekeeperInit, PublisherInit
<1>2. \A p \in Post : CardsOf(p) = {} /\ Copies(p) = {}
  BY <1>1 DEF CardsOf, Copies
<1>3. \A p \in Post : Verdict(p) = "open" /\ Cardinality(Copies(p)) = 0
  BY <1>2, FS_EmptySet DEF Verdict, HasApproval
<1> QED
  BY <1>3 DEF Promise!Init

LEMMA PromiseStep ==
  ASSUME NothingIsRepeated, OneSweep, LoopInv, ReleaseInv, [Next]_vars
  PROVE  [Promise!Next]_(Promise!vars)
<1> DEFINE V == [p \in Post |-> Verdict(p)]
           C == [p \in Post |-> Cardinality(Copies(p))]
<1>1. CASE UNCHANGED drafts
  <2>1. C' = C
    BY <1>1 DEF Copies
  <2>2. CASE \A x \in Post : Verdict(x)' = Verdict(x)
    <3>1. V' = V
      BY <2>2
    <3> QED
      BY <2>1, <3>1 DEF Promise!vars
  <2>3. ASSUME NEW p \in Post, Verdict(p) = "open", Verdict(p)' \in {"approved", "refused"},
               \A x \in Post : x # p => Verdict(x)' = Verdict(x)
        PROVE  Promise!Decide(p)
    <3>1. PICK v \in {"approved", "refused"} : v = Verdict(p)'
      BY <2>3
    <3>2. V' = [V EXCEPT ![p] = v] /\ V[p] = "open"
      BY <2>3, <3>1
    <3> QED
      BY <2>1, <3>2 DEF Promise!Decide
  <2> QED
    BY <2>2, <2>3, VerdictMoves DEF Promise!Next
<1>2. CASE UNCHANGED inboxVars
  <2>1. V' = V
    BY <1>2 DEF inboxVars, Verdict, HasApproval, CardsOf
  <2>2. CASE \A x \in Post : Cardinality(Copies(x))' = Cardinality(Copies(x))
    <3>1. C' = C
      BY <2>2
    <3> QED
      BY <2>1, <3>1 DEF Promise!vars
  <2>3. ASSUME NEW p \in Post, Verdict(p) = "approved", Cardinality(Copies(p)) = 0,
               Cardinality(Copies(p))' = 1,
               \A x \in Post : x # p => Cardinality(Copies(x))' = Cardinality(Copies(x))
        PROVE  Promise!GoOut(p)
    <3>1. C' = [C EXCEPT ![p] = 1] /\ C[p] = 0 /\ V[p] = "approved"
      BY <2>3
    <3> QED
      BY <2>1, <3>1 DEF Promise!GoOut
  <2> QED
    BY <2>2, <2>3, CopiesMove DEF Promise!Next
<1> QED
  BY <1>1, <1>2, TablesMoveApart

\* schedule_publish.py, publish.py, jti_ledger.py: as long as one sweep runs at a
\* time and no mishap makes a step be repeated, whatever else fails, a post is
\* decided once and goes out only then, and only once: the publish path
\* implements the steps of Release.
THEOREM ReleasedAsPromised ==
  ASSUME NothingIsRepeated, OneSweep
  PROVE  Spec => Promise!Spec
<1>1. LoopInv /\ ReleaseInv /\ [Next]_vars => ReleaseInv'
  BY ReleaseStep
<1>2. LoopInv /\ ReleaseInv /\ [Next]_vars => [Promise!Next]_(Promise!vars)
  BY PromiseStep
<1>3. Init => ReleaseInv
  BY ReleaseInit
<1> QED
  BY LoopAlways, PromiseInit, <1>1, <1>2, <1>3, PTL DEF Spec, Promise!Spec
=============================================================================
