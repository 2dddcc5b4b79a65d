----------------------- MODULE SourceLifecycle_proofs -----------------------
(***************************************************************************)
(* Theorems about SourceLifecycle and the options inbox it extends, for    *)
(* every set of drafts, clicks and sources, every budget and every bound.  *)
(***************************************************************************)
EXTENDS SourceLifecycle, FiniteSetTheorems, SequenceTheorems, WellFoundedInduction, TLAPS

-----------------------------------------------------------------------------
(* Counting *)

\* Every set of natural numbers has a least element.
LEMMA Least ==
  ASSUME NEW T \in SUBSET Nat, T # {}
  PROVE  \E k \in T : \A j \in T : k <= j
<1>1. IsWellFoundedOn(OpToRel(<, Nat), Nat)
  BY NatLessThanWellFounded
<1>2. PICK k \in T : \A j \in T : ~(<<j, k>> \in OpToRel(<, Nat))
  BY <1>1, WFMin
<1>3. \A j \in T : ~(j < k)
  BY <1>2 DEF OpToRel
<1> QED
  BY <1>3

\* A set of positions has a last one.
LEMMA Last ==
  ASSUME NEW n \in Nat, NEW T \in SUBSET (1..n), T # {}
  PROVE  \E k \in T : \A j \in T : j <= k
<1> DEFINE D == {n - j : j \in T}
<1>1. D \in SUBSET Nat /\ D # {}
  <2>1. ASSUME NEW j \in T PROVE n - j \in Nat
    <3>1. j \in 1..n
      OBVIOUS
    <3> QED
      BY <3>1
  <2> QED
    BY <2>1
<1>2. PICK e \in D : \A d \in D : e <= d
  BY <1>1, Least
<1>3. PICK k \in T : e = n - k
  BY <1>2
<1>4. ASSUME NEW j \in T PROVE j <= k
  <2>1. n - j \in D
    OBVIOUS
  <2>2. n - k <= n - j
    BY <1>2, <1>3, <2>1
  <2> QED
    BY <2>2
<1> QED
  BY <1>4

LEMMA PositionsAreFinite ==
  ASSUME NEW n \in Nat, NEW T \in SUBSET (1..n)
  PROVE  IsFiniteSet(T) /\ Cardinality(T) \in Nat
<1>1. IsFiniteSet(1..n)
  BY FS_Interval
<1>2. IsFiniteSet(T)
  BY <1>1, FS_Subset
<1> QED
  BY <1>2, FS_CardinalityType

\* A set of checks, a pair of row and listing, has a last one.
LEMMA LastCheck ==
  ASSUME NEW n \in Nat, NEW m \in Nat, NEW T \in SUBSET ((1..n) \X (1..m)), T # {}
  PROVE  \E c \in T : \A d \in T : ~Behind(d, c)
<1> DEFINE rows == {d[1] : d \in T}
<1>1. \A d \in T : d[1] \in 1..n /\ d[2] \in 1..m /\ d = <<d[1], d[2]>>
  OBVIOUS
<1>2. rows \in SUBSET (1..n) /\ rows # {}
  BY <1>1
<1>3. PICK row \in rows : \A j \in rows : j <= row
  <2> HIDE DEF rows
  <2> QED
    BY <1>2, Last
<1> DEFINE cols == {d[2] : d \in {e \in T : e[1] = row}}
<1>4. cols \in SUBSET (1..m) /\ cols # {}
  BY <1>1, <1>3
<1>5. PICK col \in cols : \A j \in cols : j <= col
  <2> HIDE DEF cols
  <2> QED
    BY <1>4, Last
<1>6. PICK c \in T : c[1] = row /\ c[2] = col
  BY <1>5
<1>7. ASSUME NEW d \in T PROVE ~Behind(d, c)
  <2>1. d[1] \in rows /\ d[1] \in Nat /\ d[2] \in Nat /\ row \in Nat /\ col \in Nat
    BY <1>1, <1>2, <1>4
  <2>2. d[1] <= row
    BY <1>3, <2>1
  <2>3. d[1] = row => d[2] <= col
    BY <1>5
  <2> QED
    BY <1>6, <2>1, <2>2, <2>3 DEF Behind
<1> QED
  BY <1>7

\* Finitely many rows have finitely many checks.
LEMMA ChecksAreFinite ==
  ASSUME NEW n \in Nat, NEW m \in Nat, NEW T \in SUBSET ((1..n) \X (1..m))
  PROVE  IsFiniteSet(T) /\ Cardinality(T) \in Nat
<1>1. IsFiniteSet((1..n) \X (1..m))
  <2>1. IsFiniteSet(1..n) /\ IsFiniteSet(1..m)
    BY FS_Interval
  <2> QED
    BY <2>1, FS_Product
<1>2. IsFiniteSet(T)
  BY <1>1, FS_Subset
<1> QED
  BY <1>2, FS_CardinalityType

\* The end of a list of checks: when there are enough, it has as many of them
\* as asked for.
LEMMA LastAreEnough ==
  ASSUME NEW n \in Nat, NEW m \in Nat, NEW Y \in SUBSET ((1..n) \X (1..m)),
         NEW F \in Nat, Cardinality(Y) >= F
  PROVE  Cardinality({c \in Y : Cardinality({d \in Y : Behind(d, c)}) < F}) >= F
<1> DEFINE behind(c) == {d \in Y : Behind(d, c)}
           S == {c \in Y : Cardinality(behind(c)) < F}
<1>1. /\ IsFiniteSet(Y) /\ Cardinality(Y) \in Nat
      /\ IsFiniteSet(S) /\ Cardinality(S) \in Nat
      /\ \A c : IsFiniteSet(behind(c)) /\ Cardinality(behind(c)) \in Nat
  BY ChecksAreFinite
<1>2. \A c : c \in S <=> c \in Y /\ Cardinality(behind(c)) < F
  OBVIOUS
<1>3. \A c, d : d \in behind(c) <=> d \in Y /\ Behind(d, c)
  OBVIOUS
<1> HIDE DEF S, behind
<1>4. SUFFICES ASSUME Cardinality(S) < F PROVE FALSE
  BY <1>1 DEF S, behind
<1>5. Y \ S # {} /\ Y \ S \in SUBSET ((1..n) \X (1..m))
  <2>1. S # Y
    BY <1>1, <1>4
  <2> QED
    BY <1>2, <2>1
<1>6. PICK c \in Y \ S : \A d \in Y \ S : ~Behind(d, c)
  BY <1>5, LastCheck
<1>7. behind(c) \subseteq S
  BY <1>3, <1>6
<1>8. Cardinality(behind(c)) <= Cardinality(S)
  BY <1>1, <1>7, FS_Subset
<1>9. c \in S
  BY <1>1, <1>2, <1>4, <1>6, <1>8
<1> QED
  BY <1>6, <1>9

-----------------------------------------------------------------------------
(* Type correctness *)

Option == Letters \cup Candidates
CardKinds == {"content.reply", "source.retire", "source.promote", "source.allowlist"}
Card == [kind : CardKinds, about : Draft \cup LiveUrls \cup Candidates \cup Class,
         offers : SUBSET (Option \cup Letters), born : Nat, made : Nat]
Row == [type : SignalTypes, of : SUBSET Listings, day : Nat]
ComposeSteps == {"waiting", "skipped", "blocked", "carded", "composed"}
RetireSteps == {"idle", "next", "asked", "carded", "marked"}

InboxTypes ==
  /\ cards \in Seq(Card)
  /\ inFlight \subseteq Card /\ IsFiniteSet(inFlight)
  /\ built \in Nat /\ \A c \in inFlight : c.made < built
  /\ posted \subseteq 1..Len(cards)
  /\ compose \in [Draft -> ComposeSteps]
  /\ digest \in [pc : {"idle", "listed"}, rows : SUBSET (1..Len(cards))]
  /\ click \in [Click -> [pc : {"idle", "checked", "done"}, card : Nat,
                          choice : Letters \cup {RejectAll}]]
  /\ day \in Nat /\ limit \in Limits /\ mishaps \in Nat

SourceTypes ==
  /\ signals \in Seq(Row)
  /\ retire \in [pc : RetireSteps, todo : SUBSET Listings, at : Nat]
  /\ retire.pc \in {"asked", "carded"} => retire.at \in Listings
  /\ review \subseteq Candidates

TypeInv == InboxTypes /\ SourceTypes

LEMMA LiveUrl == ASSUME NEW n \in Listings PROVE Live[n] \in LiveUrls
BY DEF LiveUrls

LEMMA AListing == Listings \subseteq Nat
BY DEF Listings

\* A card is built: it is in flight, with the latest created_at.
LEMMA CardBuilt ==
  ASSUME InboxTypes, NEW kind \in CardKinds,
         NEW about \in Draft \cup LiveUrls \cup Candidates \cup Class,
         NEW offers \in SUBSET Option, BuildCard(kind, about, offers)
  PROVE  \E c \in Card :
           /\ c.kind = kind /\ c.about = about /\ c \notin inFlight
           /\ inFlight' = inFlight \cup {c} /\ IsFiniteSet(inFlight')
           /\ built' \in Nat /\ \A e \in inFlight' : e.made < built'
           /\ UNCHANGED <<cards, decisions, posted, digest, click>>
<1> DEFINE c == [kind |-> kind, about |-> about, offers |-> offers, born |-> day, made |-> built]
<1>1. c \in Card /\ c.kind = kind /\ c.about = about /\ c.made = built
  BY DEF InboxTypes, Card
<1>2. /\ inFlight' = inFlight \cup {c} /\ built' = built + 1
      /\ UNCHANGED <<cards, decisions, posted, digest, click>>
  BY DEF BuildCard
<1> HIDE DEF c
<1>3. built \in Nat /\ IsFiniteSet(inFlight) /\ \A e \in inFlight : e.made < built
  BY DEF InboxTypes
<1>4. c \notin inFlight
  BY <1>1, <1>3
<1>5. IsFiniteSet(inFlight')
  BY <1>2, <1>3, FS_AddElement
<1>6. \A e \in inFlight' : e.made < built'
  <2>1. \A e \in inFlight : e.made \in Nat
    BY DEF InboxTypes, Card
  <2> QED
    BY <1>1, <1>2, <1>3, <2>1
<1> QED
  BY <1>1, <1>2, <1>3, <1>4, <1>5, <1>6

\* A card reaches the table: the others stay where they are.
LEMMA CardInserted ==
  ASSUME InboxTypes, NEW c \in inFlight, InsertCard(c)
  PROVE  /\ cards' \in Seq(Card) /\ Len(cards) \in Nat /\ Len(cards') = Len(cards) + 1
         /\ \A i \in 1..Len(cards) : i \in 1..Len(cards') /\ cards'[i] = cards[i]
         /\ cards'[Len(cards')] = c /\ c \in Card
         /\ inFlight' = inFlight \ {c} /\ IsFiniteSet(inFlight')
         /\ UNCHANGED <<built, decisions, posted, digest, click, compose, day, limit, mishaps>>
<1>1. c \in Card /\ cards \in Seq(Card) /\ IsFiniteSet(inFlight)
  BY DEF InboxTypes
<1>2. cards' = Append(cards, c) /\ inFlight' = inFlight \ {c}
  BY DEF InsertCard
<1>3. IsFiniteSet(inFlight')
  BY <1>1, <1>2, FS_Subset
<1> QED
  BY <1>1, <1>2, <1>3 DEF InsertCard

\* A handler that raises gives up the card that it has on its way, or leaves it.
LEMMA CardAbandoned ==
  ASSUME InboxTypes, NEW abouts, Abandon(abouts)
  PROVE  /\ inFlight' \subseteq inFlight /\ IsFiniteSet(inFlight')
         /\ \A c \in inFlight : c.about \notin abouts => c \in inFlight'
         /\ UNCHANGED <<cards, built, decisions, posted, digest, click>>
<1>1. /\ inFlight' \subseteq inFlight
      /\ \A c \in inFlight : c.about \notin abouts => c \in inFlight'
      /\ UNCHANGED <<cards, built, decisions, posted, digest, click>>
  BY DEF Abandon
<1>2. IsFiniteSet(inFlight')
  BY <1>1, FS_Subset DEF InboxTypes
<1> QED
  BY <1>1, <1>2

\* A signal is posted: the others move down by one.
LEMMA SignalPosted ==
  ASSUME TypeInv, NEW type \in SignalTypes, NEW of \in SUBSET Listings,
         Signal(type, of)
  PROVE  /\ signals' \in Seq(Row) /\ Len(signals) \in Nat /\ Len(signals') = Len(signals) + 1
         /\ signals'[1] = [type |-> type, of |-> of, day |-> day]
         /\ \A n \in 1..Len(signals) : n + 1 \in 1..Len(signals') /\ signals'[n + 1] = signals[n]
         /\ \A n \in 1..Len(signals') : n = 1 \/ n - 1 \in 1..Len(signals)
<1> DEFINE s == [type |-> type, of |-> of, day |-> day]
<1>1. s \in Row
  BY DEF TypeInv, InboxTypes, Row
<1>2. signals' = <<s>> \o signals
  BY DEF Signal
<1>3. signals \in Seq(Row)
  BY DEF TypeInv, SourceTypes
<1> HIDE DEF s
<1>4. /\ signals' \in Seq(Row) /\ Len(signals) \in Nat /\ Len(signals') = Len(signals) + 1
      /\ signals'[1] = s
      /\ \A n \in 1..Len(signals) : n + 1 \in 1..Len(signals') /\ signals'[n + 1] = signals[n]
      /\ \A n \in 1..Len(signals') : n = 1 \/ n - 1 \in 1..Len(signals)
  BY <1>1, <1>2, <1>3
<1> QED
  BY <1>4 DEF s

LEMMA TypeInit == Init => TypeInv
BY SourceAssumption, FS_EmptySet
DEF Init, InboxInit, NoPass, TypeInv, InboxTypes, SourceTypes, ComposeSteps, RetireSteps

\* The inbox's own steps.
LEMMA InboxTypeStep ==
  ASSUME TypeInv, InboxStep, UNCHANGED sourceVars
  PROVE  TypeInv'
<1>1. SourceTypes'
  BY DEF TypeInv, SourceTypes, sourceVars
<1>2. ASSUME NEW d \in Draft, ComposeOptions(d) PROVE InboxTypes'
  <2>1. CASE NothingToCompose(d) \/ FinishCompose(d)
    BY <2>1
    DEF NothingToCompose, FinishCompose, TypeInv, InboxTypes, ComposeSteps, cardVars,
        tableVars
  <2>2. CASE ComposeRaises(d)
    <3>1. /\ inFlight' \subseteq inFlight /\ IsFiniteSet(inFlight')
          /\ UNCHANGED <<cards, built, decisions, posted, digest, click>>
      BY <2>2, CardAbandoned DEF ComposeRaises, TypeInv
    <3> QED
      BY <2>2, <3>1
      DEF ComposeRaises, GoesWrong, Mishap, TypeInv, InboxTypes, ComposeSteps
  <2>3. CASE Compose(d)
    <3>1. PICK survivors \in SUBSET Letters :
            IF Cardinality(survivors) < 2
            THEN compose' = [compose EXCEPT ![d] = "blocked"] /\ UNCHANGED cardVars
            ELSE /\ BuildCard("content.reply", d, survivors)
                 /\ compose' = [compose EXCEPT ![d] = "carded"]
      BY <2>3 DEF Compose
    <3>2. CASE UNCHANGED cardVars /\ compose' = [compose EXCEPT ![d] = "blocked"]
      BY <2>3, <3>2 DEF Compose, TypeInv, InboxTypes, ComposeSteps, cardVars, tableVars
    <3>3. CASE BuildCard("content.reply", d, survivors)
               /\ compose' = [compose EXCEPT ![d] = "carded"]
      <4>1. survivors \in SUBSET Option /\ "content.reply" \in CardKinds
        BY DEF Option, CardKinds
      <4>2. /\ inFlight' \subseteq Card /\ IsFiniteSet(inFlight')
            /\ built' \in Nat /\ \A e \in inFlight' : e.made < built'
            /\ UNCHANGED <<cards, decisions, posted, digest, click>>
        BY <3>3, <4>1, CardBuilt DEF TypeInv, InboxTypes
      <4> QED
        BY <2>3, <3>3, <4>2 DEF Compose, TypeInv, InboxTypes, ComposeSteps
    <3> QED
      BY <3>1, <3>2, <3>3
  <2> QED
    BY <1>2, <2>1, <2>2, <2>3 DEF ComposeOptions
<1>3. CASE ListPending
  BY <1>1, <1>3 DEF ListPending, TypeInv, InboxTypes, tableVars
<1>4. CASE RouteDigest
  <2>1. Sent \subseteq 1..Len(cards)
    BY DEF Sent, InDigest, TypeInv, InboxTypes
  <2>2. posted' \subseteq 1..Len(cards) /\ mishaps' \in Nat
    <3>1. \/ posted' = posted \cup Sent /\ mishaps' = mishaps
          \/ posted' = posted /\ mishaps' = mishaps + 1
      BY <1>4 DEF RouteDigest, GoesWrong, Mishap
    <3>2. posted \subseteq 1..Len(cards) /\ mishaps \in Nat
      BY DEF TypeInv, InboxTypes
    <3>3. posted' \subseteq 1..Len(cards)
      BY <2>1, <3>1, <3>2, Zenon
    <3> QED
      BY <3>1, <3>2, <3>3
  <2>3. InboxTypes'
    BY <1>4, <2>2 DEF RouteDigest, TypeInv, InboxTypes, tableVars
  <2> QED
    BY <1>1, <2>3 DEF TypeInv
<1>5. ASSUME NEW k \in Click, FollowLink(k) PROVE InboxTypes'
  <2>1. PICK i \in posted, choice \in Letters \cup {RejectAll} :
          click' = [click EXCEPT ![k] = [pc |-> "checked", card |-> i, choice |-> choice]]
    BY <1>5 DEF FollowLink
  <2>2. i \in Nat
    BY DEF TypeInv, InboxTypes
  <2> QED
    BY <1>5, <2>1, <2>2 DEF FollowLink, TypeInv, InboxTypes, tableVars
<1>6. ASSUME NEW k \in Click, RecordDecision(k) PROVE InboxTypes'
  BY <1>6 DEF RecordDecision, TypeInv, InboxTypes, tableVars
<1>7. CASE DayPasses
  BY <1>1, <1>7 DEF DayPasses, TypeInv, InboxTypes, cardVars, tableVars
<1>8. ASSUME NEW c \in inFlight, InsertCard(c) PROVE InboxTypes'
  <2>1. InboxTypes
    BY DEF TypeInv
  <2>2. /\ cards' \in Seq(Card) /\ Len(cards) \in Nat /\ Len(cards') = Len(cards) + 1
        /\ inFlight' = inFlight \ {c} /\ IsFiniteSet(inFlight')
        /\ UNCHANGED <<built, decisions, posted, digest, click, compose, day, limit, mishaps>>
    BY <1>8, <2>1, CardInserted
  <2> QED
    BY <2>1, <2>2 DEF InboxTypes
<1> QED
  BY <1>1, <1>2, <1>3, <1>4, <1>5, <1>6, <1>7, <1>8 DEF InboxStep, TypeInv

LEMMA SignalTyped ==
  ASSUME TypeInv, NEW type \in SignalTypes, NEW of \in SUBSET Listings,
         Signal(type, of)
  PROVE  signals' \in Seq(Row)
BY SignalPosted

\* A card of one of the source functions.
LEMMA SourceCardTyped ==
  ASSUME TypeInv, UNCHANGED <<compose, day, limit, mishaps>>,
         \/ UNCHANGED cardVars
         \/ \E kind \in CardKinds, about \in LiveUrls \cup Candidates \cup Class,
               offers \in SUBSET Option : BuildCard(kind, about, offers)
  PROVE  InboxTypes'
<1>1. CASE UNCHANGED cardVars
  BY <1>1 DEF TypeInv, InboxTypes, cardVars, tableVars
<1>2. ASSUME NEW kind \in CardKinds, NEW about \in LiveUrls \cup Candidates \cup Class,
             NEW offers \in SUBSET Option, BuildCard(kind, about, offers)
      PROVE  InboxTypes'
  <2>1. /\ inFlight' \subseteq Card /\ IsFiniteSet(inFlight')
        /\ built' \in Nat /\ \A e \in inFlight' : e.made < built'
        /\ UNCHANGED <<cards, decisions, posted, digest, click>>
    BY <1>2, CardBuilt DEF TypeInv, InboxTypes
  <2> QED
    BY <2>1 DEF TypeInv, InboxTypes
<1> QED
  BY <1>1, <1>2

\* A source function that raises.
LEMMA SourceRaiseTyped ==
  ASSUME TypeInv, UNCHANGED <<compose, day, limit>>, mishaps' = mishaps + 1,
         NEW abouts, Abandon(abouts)
  PROVE  InboxTypes'
<1>1. /\ inFlight' \subseteq inFlight /\ IsFiniteSet(inFlight')
      /\ UNCHANGED <<cards, built, decisions, posted, digest, click>>
  BY CardAbandoned DEF TypeInv
<1> QED
  BY <1>1 DEF TypeInv, InboxTypes

\* The steps of the retire pass and of the other source functions.
LEMMA RetireTypeStep ==
  ASSUME TypeInv, RetireStep \/ RetireRaises
  PROVE  TypeInv'
<1> USE DEF TypeInv, SourceTypes, RetireSteps
<1>1. CASE StartRetire \/ TooFewReplacements \/ EndPass
  <2>1. InboxTypes'
    BY <1>1
    DEF StartRetire, TooFewReplacements, EndPass, InboxTypes, inboxVars, cardVars, tableVars
  <2>2. CASE StartRetire
    <3>1. PICK T \in SUBSET Listings :
            retire' = retire \/ retire' = [pc |-> "next", todo |-> T, at |-> 0]
      BY <2>2 DEF StartRetire, NoPass
    <3>2. /\ retire' \in [pc : RetireSteps, todo : SUBSET Listings, at : Nat]
          /\ retire'.pc \in {"asked", "carded"} => retire'.at \in Listings
      <4> DEFINE P == Listings
      <4>1. T \in SUBSET P
        OBVIOUS
      <4> HIDE DEF P
      <4>2. CASE retire' = retire
        BY <4>2
      <4>3. CASE retire' = [pc |-> "next", todo |-> T, at |-> 0]
        <5>1. retire' \in [pc : RetireSteps, todo : SUBSET P, at : Nat]
          BY <4>1, <4>3
        <5> QED
          BY <4>3, <5>1 DEF P
      <4> QED
        BY <3>1, <4>2, <4>3
    <3> QED
      BY <2>1, <2>2, <3>2 DEF StartRetire
  <2>3. CASE TooFewReplacements
    BY <2>1, <2>3 DEF TooFewReplacements
  <2>4. CASE EndPass
    BY <2>1, <2>4 DEF EndPass, NoPass
  <2> QED
    BY <1>1, <2>2, <2>3, <2>4
<1>2. CASE Ask
  <2>1. InboxTypes'
    BY <1>2 DEF Ask, InboxTypes, inboxVars, cardVars, tableVars
  <2>2. PICK n \in retire.todo :
          retire' = [pc |-> "asked", todo |-> retire.todo \ {n}, at |-> n]
    BY <1>2 DEF Ask
  <2>3. signals' \in Seq(Row)
    BY <1>2, SignalTyped DEF Ask, SignalTypes
  <2>4. n \in Listings /\ n \in Nat /\ retire.todo \ {n} \in SUBSET Listings
    BY <2>2, AListing
  <2>5. /\ retire' \in [pc : RetireSteps, todo : SUBSET Listings, at : Nat]
        /\ retire'.at \in Listings
    BY <2>2, <2>4
  <2> QED
    BY <1>2, <2>1, <2>3, <2>5 DEF Ask
<1>3. CASE ProposeRetirement
  <2>1. PICK offers \in Offers(ClassOf[retire.at]) :
          BuildCard("source.retire", Live[retire.at], offers)
    BY <1>3 DEF ProposeRetirement
  <2>2. Live[retire.at] \in LiveUrls
    BY <1>3, LiveUrl DEF ProposeRetirement
  <2>3. offers \in SUBSET Option
    <3>1. retire.at \in Listings
      BY <1>3 DEF ProposeRetirement
    <3> QED
      BY <2>1, <3>1, SourceAssumption DEF Offers, Option
  <2>4. UNCHANGED <<compose, day, limit, mishaps>> /\ "source.retire" \in CardKinds
    BY <1>3 DEF ProposeRetirement, CardKinds
  <2>5. \E kind \in CardKinds, about \in LiveUrls \cup Candidates \cup Class,
           o \in SUBSET Option : BuildCard(kind, about, o)
    BY <2>1, <2>2, <2>3, <2>4
  <2>6. InboxTypes'
    BY <2>4, <2>5, SourceCardTyped
  <2> QED
    BY <1>3, <2>6 DEF ProposeRetirement
<1>4. CASE MarkRetired \/ MarkPass
  <2>1. InboxTypes'
    BY <1>4 DEF MarkRetired, MarkPass, InboxTypes, inboxVars, cardVars, tableVars
  <2>2. CASE MarkRetired
    <3>1. {retire.at} \in SUBSET Listings /\ "retired" \in SignalTypes
      BY <2>2 DEF MarkRetired, SignalTypes
    <3>2. signals' \in Seq(Row)
      BY <2>2, <3>1, SignalTyped DEF MarkRetired
    <3> QED
      BY <2>1, <2>2, <3>2 DEF MarkRetired
  <2>3. CASE MarkPass
    <3>1. signals' \in Seq(Row)
      BY <2>3, SignalTyped DEF MarkPass, SignalTypes
    <3> QED
      BY <2>1, <2>3, <3>1 DEF MarkPass
  <2> QED
    BY <1>4, <2>2, <2>3
<1>5. CASE RetireRaises
  <2>1. InboxTypes'
    <3>1. UNCHANGED <<compose, day, limit>> /\ mishaps' = mishaps + 1 /\ Abandon(LiveUrls)
      BY <1>5 DEF RetireRaises, GoesWrong, Mishap
    <3> QED
      BY <3>1, SourceRaiseTyped
  <2> QED
    BY <1>5, <2>1 DEF RetireRaises, NoPass
<1> QED
  BY <1>1, <1>2, <1>3, <1>4, <1>5 DEF RetireStep

LEMMA SourceTypeStep ==
  ASSUME TypeInv, SourceStep
  PROVE  TypeInv'
<1>1. CASE Yield \/ OtherSignal \/ MonthlyReview
  <2>1. UNCHANGED <<inboxVars, retire, review>>
    BY <1>1 DEF Yield, OtherSignal, MonthlyReview
  <2>2. \E type \in SignalTypes, of \in SUBSET Listings : Signal(type, of)
    <3>1. {} \in SUBSET Listings
          /\ {"yield", "other", "review_marker"} \subseteq SignalTypes
      BY DEF SignalTypes
    <3> QED
      BY <1>1, <3>1 DEF Yield, OtherSignal, MonthlyReview
  <2>3. signals' \in Seq(Row)
    BY <2>2, SignalTyped
  <2> QED
    BY <2>1, <2>3 DEF TypeInv, InboxTypes, SourceTypes, inboxVars, cardVars, tableVars
<1>2. CASE RetireStep \/ RetireRaises
  BY <1>2, RetireTypeStep
<1>3. ASSUME NEW c \in Class, Discover(c) PROVE TypeInv'
  <2>1. UNCHANGED <<compose, day, limit, mishaps, retire, review>>
    BY <1>3 DEF Discover
  <2>2. signals' \in Seq(Row)
    BY <1>3, SignalTyped DEF Discover, SignalTypes
  <2>3. UNCHANGED cardVars \/ \E offers \in Offers(c) : BuildCard("source.promote", c, offers)
    BY <1>3 DEF Discover
  <2>4. Offers(c) \subseteq SUBSET Option /\ "source.promote" \in CardKinds
    BY <1>3, SourceAssumption DEF Offers, Option, CardKinds
  <2>5. \/ UNCHANGED cardVars
        \/ \E kind \in CardKinds, about \in LiveUrls \cup Candidates \cup Class,
              offers \in SUBSET Option : BuildCard(kind, about, offers)
    BY <2>3, <2>4
  <2>6. InboxTypes'
    BY <2>1, <2>5, SourceCardTyped
  <2> QED
    BY <2>1, <2>2, <2>6 DEF TypeInv, SourceTypes
<1>4. ASSUME NEW c \in Class, StartReview(c) PROVE TypeInv'
  BY <1>4, SourceAssumption
  DEF StartReview, TypeInv, InboxTypes, SourceTypes, inboxVars, cardVars, tableVars, Candidates
<1>5. ASSUME NEW u \in review, ReviewCandidate(u) PROVE TypeInv'
  <2>1. UNCHANGED <<compose, day, limit, mishaps, retire>> /\ review' = review \ {u}
    BY <1>5 DEF ReviewCandidate
  <2>2. u \in Candidates
    BY DEF TypeInv, SourceTypes
  <2>3. signals' \in Seq(Row)
    <3>1. UNCHANGED signals \/ Signal("widened", {})
      BY <1>5 DEF ReviewCandidate
    <3>2. "widened" \in SignalTypes /\ {} \in SUBSET Listings
      BY DEF SignalTypes
    <3> QED
      BY <3>1, <3>2, SignalTyped DEF TypeInv, SourceTypes
  <2>4. UNCHANGED cardVars \/ BuildCard("source.allowlist", u, {"A", "B"})
    BY <1>5 DEF ReviewCandidate
  <2>5. {"A", "B"} \in SUBSET Option /\ "source.allowlist" \in CardKinds
    BY DEF Option, Letters, CardKinds
  <2>6. \/ UNCHANGED cardVars
        \/ \E kind \in CardKinds, about \in LiveUrls \cup Candidates \cup Class,
              offers \in SUBSET Option : BuildCard(kind, about, offers)
    BY <2>2, <2>4, <2>5
  <2>7. InboxTypes'
    BY <2>1, <2>6, SourceCardTyped
  <2> QED
    BY <2>1, <2>3, <2>7 DEF TypeInv, SourceTypes
<1>6. CASE ReviewRaises
  <2>1. /\ UNCHANGED <<compose, day, limit, signals, retire>> /\ mishaps' = mishaps + 1
        /\ Abandon(Candidates) /\ review' = {}
    BY <1>6 DEF ReviewRaises, GoesWrong, Mishap
  <2>2. InboxTypes'
    BY <2>1, SourceRaiseTyped
  <2> QED
    BY <2>1, <2>2 DEF TypeInv, SourceTypes
<1> QED
  BY <1>1, <1>2, <1>3, <1>4, <1>5, <1>6 DEF SourceStep

LEMMA TypeStep == TypeInv /\ [Next]_vars => TypeInv'
<1> SUFFICES ASSUME TypeInv, [Next]_vars PROVE TypeInv'
  OBVIOUS
<1>1. CASE UNCHANGED vars
  BY <1>1
  DEF TypeInv, InboxTypes, SourceTypes, vars, inboxVars, cardVars, tableVars, sourceVars
<1> QED
  BY <1>1, InboxTypeStep, SourceTypeStep DEF Next

-----------------------------------------------------------------------------
(* The cards *)

\* Who builds a card, and about what.
NewCard(kind, about, offers) ==
  /\ BuildCard(kind, about, offers)
  /\ \/ \E d \in Draft : /\ kind = "content.reply" /\ about = d
                         /\ compose[d] = "waiting"
                         /\ compose' = [compose EXCEPT ![d] = "carded"]
     \/ /\ about \notin Draft /\ UNCHANGED compose
        /\ kind = "source.retire" => retire.pc = "asked" /\ about = Live[retire.at]

\* Who gives one up.
GivenUp(abouts) ==
  /\ Abandon(abouts) /\ mishaps' = mishaps + 1 /\ UNCHANGED day
  /\ \/ \E d \in Draft : /\ abouts = {d} /\ UNCHANGED retire
                         /\ compose' = [compose EXCEPT ![d] = "waiting"]
     \/ abouts = LiveUrls /\ UNCHANGED compose /\ retire'.pc = "idle"
     \/ abouts = Candidates /\ UNCHANGED <<compose, retire>>

LEMMA CardsStep ==
  ASSUME TypeInv, [Next]_vars
  PROVE  \/ UNCHANGED tableVars
         \/ /\ UNCHANGED <<day, mishaps>>
            /\ \E kind \in CardKinds, about \in Draft \cup LiveUrls \cup Candidates \cup Class,
                  offers \in SUBSET Option : NewCard(kind, about, offers)
         \/ UNCHANGED retire /\ \E c \in inFlight : InsertCard(c)
         \/ \E abouts : GivenUp(abouts)
<1>1. CASE \E d \in Draft : Compose(d)
  <2>1. PICK d \in Draft, survivors \in SUBSET Letters :
          /\ compose[d] = "waiting" /\ UNCHANGED <<day, mishaps>>
          /\ \/ UNCHANGED tableVars
             \/ /\ BuildCard("content.reply", d, survivors)
                /\ compose' = [compose EXCEPT ![d] = "carded"]
    BY <1>1 DEF Compose, cardVars
  <2>2. CASE BuildCard("content.reply", d, survivors)
             /\ compose' = [compose EXCEPT ![d] = "carded"]
    <3>1. NewCard("content.reply", d, survivors)
      BY <2>1, <2>2 DEF NewCard
    <3>2. "content.reply" \in CardKinds /\ survivors \in SUBSET Option
      BY DEF CardKinds, Option
    <3> QED
      BY <2>1, <3>1, <3>2
  <2> QED
    BY <2>1, <2>2
<1>2. CASE ProposeRetirement
  <2>1. PICK offers \in Offers(ClassOf[retire.at]) :
          BuildCard("source.retire", Live[retire.at], offers)
    BY <1>2 DEF ProposeRetirement
  <2>2. retire.pc = "asked" /\ UNCHANGED <<compose, day, mishaps>>
    BY <1>2 DEF ProposeRetirement
  <2>3. Live[retire.at] \in LiveUrls /\ Live[retire.at] \notin Draft
    BY <2>2, LiveUrl, SourceAssumption DEF TypeInv, SourceTypes
  <2>4. offers \in SUBSET Option /\ "source.retire" \in CardKinds
    BY <2>1, <2>2, SourceAssumption DEF Offers, Option, CardKinds, TypeInv, SourceTypes
  <2>5. NewCard("source.retire", Live[retire.at], offers)
    BY <2>1, <2>2, <2>3 DEF NewCard
  <2> QED
    BY <2>2, <2>3, <2>4, <2>5
<1>3. ASSUME NEW c \in Class, Discover(c)
      PROVE  \/ UNCHANGED tableVars
             \/ /\ UNCHANGED <<day, mishaps>>
                /\ \E offers \in SUBSET Option : NewCard("source.promote", c, offers)
  <2>1. UNCHANGED tableVars \/ \E offers \in Offers(c) : BuildCard("source.promote", c, offers)
    BY <1>3 DEF Discover, cardVars
  <2>2. Offers(c) \subseteq SUBSET Option /\ c \notin Draft
    BY <1>3, SourceAssumption DEF Offers, Option
  <2>3. UNCHANGED <<compose, day, mishaps>>
    BY <1>3 DEF Discover
  <2> QED
    BY <2>1, <2>2, <2>3 DEF NewCard
<1>4. ASSUME NEW u \in review, ReviewCandidate(u)
      PROVE  \/ UNCHANGED tableVars
             \/ /\ UNCHANGED <<day, mishaps>>
                /\ u \in Candidates /\ NewCard("source.allowlist", u, {"A", "B"})
  <2>1. UNCHANGED tableVars \/ BuildCard("source.allowlist", u, {"A", "B"})
    BY <1>4 DEF ReviewCandidate, cardVars
  <2>2. u \in Candidates /\ u \notin Draft
    BY SourceAssumption DEF TypeInv, SourceTypes
  <2>3. UNCHANGED <<compose, day, mishaps>>
    BY <1>4 DEF ReviewCandidate
  <2> QED
    BY <2>1, <2>2, <2>3 DEF NewCard
<1>5. \/ UNCHANGED tableVars
      \/ (\E d \in Draft : Compose(d)) \/ ProposeRetirement
      \/ (\E c \in Class : Discover(c)) \/ (\E u \in review : ReviewCandidate(u))
      \/ UNCHANGED retire /\ \E c \in inFlight : InsertCard(c)
      \/ \E abouts : GivenUp(abouts)
  <2>1. ASSUME InboxStep, UNCHANGED sourceVars
        PROVE  \/ UNCHANGED tableVars \/ (\E d \in Draft : Compose(d))
               \/ UNCHANGED retire /\ \E c \in inFlight : InsertCard(c)
               \/ \E abouts : GivenUp(abouts)
    <3>1. ASSUME NEW d \in Draft, ComposeRaises(d) PROVE GivenUp({d})
      BY <2>1, <3>1 DEF ComposeRaises, GivenUp, GoesWrong, Mishap, sourceVars
    <3>2. \/ UNCHANGED tableVars \/ (\E d \in Draft : Compose(d) \/ ComposeRaises(d))
          \/ \E c \in inFlight : InsertCard(c)
      BY <2>1 DEF InboxStep, ComposeOptions, NothingToCompose, FinishCompose,
           ListPending, RouteDigest, FollowLink, RecordDecision, DayPasses, cardVars
    <3> QED
      BY <2>1, <3>1, <3>2 DEF sourceVars
  <2>2. RetireStep => UNCHANGED tableVars \/ ProposeRetirement
    BY DEF RetireStep, StartRetire, Ask, TooFewReplacements, MarkRetired,
           MarkPass, EndPass, inboxVars, cardVars
  <2>3. Yield \/ OtherSignal \/ MonthlyReview => UNCHANGED tableVars
    BY DEF Yield, OtherSignal, MonthlyReview, inboxVars, cardVars
  <2>4. (\E c \in Class : StartReview(c)) => UNCHANGED tableVars
    BY DEF StartReview, inboxVars, cardVars
  <2>5. UNCHANGED vars => UNCHANGED tableVars
    BY DEF vars, inboxVars, cardVars
  <2>6. RetireRaises => GivenUp(LiveUrls)
    BY DEF RetireRaises, GivenUp, GoesWrong, Mishap, NoPass
  <2>7. ReviewRaises => GivenUp(Candidates)
    BY DEF ReviewRaises, GivenUp, GoesWrong, Mishap
  <2> QED
    BY <2>1, <2>2, <2>3, <2>4, <2>5, <2>6, <2>7 DEF Next, SourceStep
<1>6. /\ {"source.promote", "source.allowlist"} \subseteq CardKinds
      /\ {"A", "B"} \in SUBSET Option
  BY DEF CardKinds, Option, Letters
<1> QED
  BY <1>1, <1>2, <1>3, <1>4, <1>5, <1>6

\* The table itself only grows by the INSERT of a card.
LEMMA RowsStep ==
  ASSUME TypeInv, [Next]_vars
  PROVE  \/ UNCHANGED cards
         \/ \E c \in inFlight : InsertCard(c)
<1>1. ASSUME NEW kind, NEW about, NEW offers, NewCard(kind, about, offers)
      PROVE  UNCHANGED cards
  BY <1>1 DEF NewCard, BuildCard
<1>2. ASSUME NEW abouts, GivenUp(abouts) PROVE UNCHANGED cards
  BY <1>2 DEF GivenUp, Abandon
<1>3. UNCHANGED tableVars => UNCHANGED cards
  BY DEF tableVars
<1> QED
  BY <1>1, <1>2, <1>3, CardsStep

LEMMA DayMoves ==
  ASSUME TypeInv, [Next]_vars
  PROVE  day \in Nat /\ day' \in Nat /\ day <= day'
<1>1. UNCHANGED day \/ DayPasses
  <2>1. InboxStep => UNCHANGED day \/ DayPasses
    BY DEF InboxStep, ComposeOptions, NothingToCompose, Compose, FinishCompose,
           ComposeRaises, ListPending, RouteDigest, FollowLink, RecordDecision, InsertCard
  <2>2. SourceStep => UNCHANGED day
    BY DEF SourceStep, Yield, OtherSignal, MonthlyReview, ReviewRaises, RetireStep,
           RetireRaises, StartRetire, Ask, TooFewReplacements, ProposeRetirement,
           MarkRetired, MarkPass, EndPass, Discover, StartReview, ReviewCandidate,
           inboxVars
  <2>3. UNCHANGED vars => UNCHANGED day
    BY DEF vars, inboxVars
  <2> QED
    BY <2>1, <2>2, <2>3 DEF Next
<1> QED
  BY <1>1 DEF DayPasses, TypeInv, InboxTypes

\* A card is never changed, and never gets younger.
LEMMA CardsStay ==
  ASSUME TypeInv, [Next]_vars
  PROVE  /\ Len(cards) \in Nat /\ Len(cards') \in Nat /\ Len(cards) <= Len(cards')
         /\ \A i \in 1..Len(cards) :
              /\ i \in 1..Len(cards') /\ cards'[i] = cards[i]
              /\ Realtime(i)' = Realtime(i)
              /\ Expired(i) => Expired(i)'
<1>1. cards \in Seq(Card) /\ Len(cards) \in Nat
  BY DEF TypeInv, InboxTypes
<1>2. /\ Len(cards') \in Nat /\ Len(cards) <= Len(cards')
      /\ \A i \in 1..Len(cards) : i \in 1..Len(cards') /\ cards'[i] = cards[i]
  <2>1. CASE UNCHANGED cards
    BY <1>1, <2>1
  <2>2. ASSUME NEW c \in inFlight, InsertCard(c)
        PROVE  /\ Len(cards') = Len(cards) + 1
               /\ \A i \in 1..Len(cards) : i \in 1..Len(cards') /\ cards'[i] = cards[i]
    BY <2>2, CardInserted DEF TypeInv
  <2> QED
    BY <1>1, <2>1, <2>2, RowsStep
<1>3. day \in Nat /\ day' \in Nat /\ day <= day'
  BY DayMoves
<1>4. ASSUME NEW i \in 1..Len(cards)
      PROVE  Realtime(i)' = Realtime(i) /\ (Expired(i) => Expired(i)')
  <2>1. cards'[i] = cards[i] /\ Realtime(i)' = Realtime(i)
    BY <1>2 DEF Realtime
  <2>2. cards[i].born \in Nat
    <3>1. cards[i] \in Card
      BY <1>1, ElementOfSeq
    <3> QED
      BY <3>1 DEF Card
  <2> QED
    BY <1>3, <2>1, <2>2, InboxAssumption DEF Expired
<1> QED
  BY <1>1, <1>2, <1>4

-----------------------------------------------------------------------------
(* Digests and decisions *)

\* What a request that has passed the checks is about to record.
ClickSound(k) ==
  click[k].pc = "checked" =>
    /\ click[k].card \in posted
    /\ click[k].choice \in cards[click[k].card].offers \cup {RejectAll}

\* What the digest handler has read is, up to the last row among it, all that
\* is not in Teams yet.
ListSound ==
  digest.pc = "listed" =>
    \A j \in digest.rows : \A i \in 1..(j - 1) :
      ~Realtime(i) /\ ~Expired(i) => i \in posted \cup digest.rows

InboxInv == (\A k \in Click : ClickSound(k)) /\ OneSoundDecision /\ ListSound /\ OverflowIsYounger

LEMMA InboxInvInit == Init => InboxInv
BY DEF Init, InboxInit, InboxInv, ClickSound, ListSound, OneSoundDecision, OverflowIsYounger

\* Decisions and clicks, by a step that touches neither.
LEMMA DecisionsKept ==
  ASSUME TypeInv, [Next]_vars, InboxInv, UNCHANGED <<decisions, click>>,
         posted \subseteq posted'
  PROVE  (\A k \in Click : ClickSound(k)') /\ OneSoundDecision'
<1>1. \A i \in posted : i \in 1..Len(cards) /\ cards'[i] = cards[i] /\ i \in posted'
  BY CardsStay DEF TypeInv, InboxTypes
<1>2. \A k \in Click : ClickSound(k)'
  BY <1>1 DEF InboxInv, ClickSound
<1>3. OneSoundDecision'
  BY <1>1 DEF InboxInv, OneSoundDecision
<1> QED
  BY <1>2, <1>3

\* The order of the cards in Teams, by a step that posts none.
LEMMA OrderKept ==
  ASSUME TypeInv, [Next]_vars, InboxInv, UNCHANGED posted
  PROVE  OverflowIsYounger' /\ (UNCHANGED digest => ListSound')
<1>1. /\ posted \subseteq 1..Len(cards) /\ digest.rows \subseteq 1..Len(cards)
      /\ Len(cards) \in Nat
  BY CardsStay DEF TypeInv, InboxTypes
<1>2. \A j \in 1..Len(cards) : \A i \in 1..(j - 1) : i \in 1..Len(cards)
  BY <1>1
<1>3. \A i \in 1..Len(cards) :
        ~Realtime(i)' /\ ~Expired(i)' => ~Realtime(i) /\ ~Expired(i)
  BY CardsStay
<1>4. OverflowIsYounger'
  <2>1. \A i \in 1..Len(cards) : cards'[i] = cards[i]
    BY CardsStay
  <2> QED
    BY <1>1, <1>2, <1>3, <2>1 DEF InboxInv, OverflowIsYounger
<1>5. UNCHANGED digest => ListSound'
  BY <1>1, <1>2, <1>3 DEF InboxInv, ListSound
<1> QED
  BY <1>4, <1>5

\* The budget is spent on the oldest.
LEMMA SentIsOldest ==
  ASSUME TypeInv, NEW j \in Sent, NEW i \in InDigest, cards[i].made < cards[j].made
  PROVE  i \in Sent
<1>1. /\ Len(cards) \in Nat /\ InDigest \subseteq 1..Len(cards)
      /\ j \in InDigest /\ Cardinality(Older(j)) < Budget
  BY DEF Sent, InDigest, TypeInv, InboxTypes
<1>2. \A m \in 1..Len(cards) : cards[m].made \in Nat
  <2>1. \A m \in 1..Len(cards) : cards[m] \in Card
    BY ElementOfSeq DEF TypeInv, InboxTypes
  <2> QED
    BY <2>1 DEF Card
<1>3. Older(i) \subseteq Older(j)
  <2>1. ASSUME NEW m \in Older(i) PROVE m \in Older(j)
    <3>1. m \in InDigest /\ cards[m].made < cards[i].made
      BY DEF Older
    <3>2. cards[m].made \in Nat /\ cards[i].made \in Nat /\ cards[j].made \in Nat
      BY <1>1, <1>2, <3>1
    <3> QED
      BY <3>1, <3>2 DEF Older
  <2> QED
    BY <2>1
<1>4. /\ IsFiniteSet(Older(j)) /\ Cardinality(Older(j)) \in Nat
      /\ IsFiniteSet(Older(i)) /\ Cardinality(Older(i)) \in Nat
  <2>1. Older(i) \in SUBSET (1..Len(cards)) /\ Older(j) \in SUBSET (1..Len(cards))
    BY <1>1 DEF Older
  <2> QED
    BY <1>1, <2>1, PositionsAreFinite
<1>5. Cardinality(Older(i)) <= Cardinality(Older(j))
  BY <1>3, <1>4, FS_Subset
<1>6. Cardinality(Older(i)) < Budget
  BY <1>1, <1>4, <1>5, InboxAssumption
<1> QED
  BY <1>6 DEF Sent

LEMMA InboxInvStep == TypeInv /\ InboxInv /\ [Next]_vars => InboxInv'
<1> SUFFICES ASSUME TypeInv, InboxInv, [Next]_vars PROVE InboxInv'
  OBVIOUS
<1>1. CASE UNCHANGED <<decisions, click, posted, digest>>
  BY <1>1, DecisionsKept, OrderKept DEF InboxInv
<1>2. CASE ListPending
  <2>1. /\ UNCHANGED <<cards, decisions, click, posted, day>>
        /\ digest' = [pc |-> "listed", rows |-> {i \in 1..Len(cards) : Pending(i)}]
    BY <1>2 DEF ListPending, tableVars
  <2>2. ASSUME NEW j \in digest'.rows, NEW i \in 1..(j - 1), ~Expired(i)'
        PROVE  i \in posted' \cup digest'.rows
    <3>1. j \in 1..Len(cards) /\ Len(cards) \in Nat
      BY <2>1 DEF TypeInv, InboxTypes
    <3>2. i \in 1..Len(cards) /\ ~Expired(i)
      BY <2>1, <2>2, <3>1 DEF Expired, Realtime
    <3>3. Decided(i) => i \in posted
      BY DEF Decided, InboxInv, OneSoundDecision
    <3> QED
      BY <2>1, <3>2, <3>3 DEF Pending
  <2>3. ListSound'
    BY <2>2 DEF ListSound
  <2> QED
    BY <2>1, <2>3, DecisionsKept, OrderKept DEF InboxInv
<1>3. CASE RouteDigest
  <2>1. /\ digest.pc = "listed" /\ digest'.pc = "idle" /\ UNCHANGED <<cards, decisions, click, day>>
        /\ posted' = posted \cup Sent \/ UNCHANGED posted
    BY <1>3 DEF RouteDigest, tableVars
  <2>2. ListSound'
    BY <2>1 DEF ListSound
  <2>3. \A i : Realtime(i)' = Realtime(i) /\ Expired(i)' = Expired(i)
    BY <2>1 DEF Realtime, Expired
  <2>4. ASSUME posted' = posted \cup Sent, NEW j \in posted', NEW i \in 1..(j - 1),
               cards[i].made < cards[j].made, ~Realtime(i), ~Expired(i)
        PROVE  i \in posted'
    <3>1. CASE j \in posted
      BY <2>4, <3>1 DEF InboxInv, OverflowIsYounger
    <3>2. CASE j \in Sent
      <4>1. j \in digest.rows /\ j \in Nat /\ i \in Nat /\ i < j
        BY <3>2 DEF Sent, InDigest, TypeInv, InboxTypes
      <4>2. i \in posted \/ i \in InDigest
        BY <2>1, <2>4, <4>1 DEF InboxInv, ListSound, InDigest
      <4> QED
        BY <2>4, <3>2, <4>1, <4>2, SentIsOldest
    <3> QED
      BY <2>4, <3>1, <3>2
  <2>5. OverflowIsYounger'
    <3>1. CASE UNCHANGED posted
      BY <3>1, OrderKept
    <3>2. CASE posted' = posted \cup Sent
      BY <2>1, <2>3, <2>4, <3>2 DEF OverflowIsYounger
    <3> QED
      BY <2>1, <3>1, <3>2
  <2> QED
    BY <2>1, <2>2, <2>5, DecisionsKept DEF InboxInv
<1>4. ASSUME NEW k \in Click, FollowLink(k) PROVE InboxInv'
  <2>1. PICK i \in posted, choice \in Letters \cup {RejectAll} :
          /\ choice \in cards[i].offers \cup {RejectAll}
          /\ click' = [click EXCEPT ![k] = [pc |-> "checked", card |-> i, choice |-> choice]]
    BY <1>4 DEF FollowLink
  <2>2. UNCHANGED <<cards, decisions, posted, digest, day>>
    BY <1>4 DEF FollowLink, tableVars
  <2>3. \A h \in Click : ClickSound(h)'
    BY <2>1, <2>2 DEF InboxInv, ClickSound, TypeInv, InboxTypes
  <2>4. OneSoundDecision'
    BY <2>2 DEF InboxInv, OneSoundDecision
  <2> QED
    BY <2>2, <2>3, <2>4, OrderKept DEF InboxInv
<1>5. ASSUME NEW k \in Click, RecordDecision(k) PROVE InboxInv'
  <2>1. /\ UNCHANGED <<cards, posted, digest, day>> /\ click[k].pc = "checked"
        /\ click' = [click EXCEPT ![k].pc = "done"]
        /\ decisions' = IF Decided(click[k].card) THEN decisions
             ELSE decisions \cup {[card |-> click[k].card, choice |-> click[k].choice]}
    BY <1>5 DEF RecordDecision, tableVars
  <2>2. \A h \in Click : ClickSound(h)'
    BY <2>1 DEF InboxInv, ClickSound, TypeInv, InboxTypes
  <2>3. OneSoundDecision'
    <3>1. CASE Decided(click[k].card)
      BY <2>1, <3>1 DEF InboxInv, OneSoundDecision
    <3>2. CASE ~Decided(click[k].card)
      <4>1. ClickSound(k)
        BY DEF InboxInv
      <4>2. \A d \in decisions : d.card # click[k].card
        BY <3>2 DEF Decided
      <4> QED
        BY <2>1, <3>2, <4>1, <4>2 DEF InboxInv, OneSoundDecision, ClickSound
    <3> QED
      BY <3>1, <3>2
  <2> QED
    BY <2>1, <2>2, <2>3, OrderKept DEF InboxInv
<1>6. \/ UNCHANGED <<decisions, click, posted, digest>>
      \/ ListPending \/ RouteDigest \/ \E k \in Click : FollowLink(k) \/ RecordDecision(k)
  <2>1. InboxStep => \/ UNCHANGED <<decisions, click, posted, digest>>
                     \/ ListPending \/ RouteDigest
                     \/ \E k \in Click : FollowLink(k) \/ RecordDecision(k)
    BY DEF InboxStep, ComposeOptions, NothingToCompose, Compose, FinishCompose,
           ComposeRaises, DayPasses, cardVars, BuildCard, InsertCard, Abandon
  <2>2. SourceStep => UNCHANGED <<decisions, click, posted, digest>>
    BY DEF SourceStep, Yield, OtherSignal, MonthlyReview, ReviewRaises, RetireStep,
           RetireRaises, StartRetire, Ask, TooFewReplacements, ProposeRetirement,
           MarkRetired, MarkPass, EndPass, Discover, StartReview, ReviewCandidate,
           inboxVars, cardVars, tableVars, BuildCard, Abandon
  <2>3. UNCHANGED vars => UNCHANGED <<decisions, click, posted, digest>>
    BY DEF vars, inboxVars, cardVars, tableVars
  <2> QED
    BY <2>1, <2>2, <2>3 DEF Next
<1> QED
  BY <1>1, <1>2, <1>3, <1>4, <1>5, <1>6

\* gatekeeper/app/option_decisions.py, record_decision: for any number of
\* requests at the same time, a card gets one decision, of an option that it
\* offers (or none of them), after its links have been in Teams.
THEOREM DecisionsAreSound == Spec => []OneSoundDecision
<1>1. InboxInv => OneSoundDecision
  BY DEF InboxInv
<1>2. Init => TypeInv /\ InboxInv
  BY TypeInit, InboxInvInit
<1>3. TypeInv /\ InboxInv /\ [Next]_vars => (TypeInv /\ InboxInv)'
  BY TypeStep, InboxInvStep
<1> QED
  BY <1>1, <1>2, <1>3, PTL DEF Spec

\* route_digest_handler and options_inbox/policy.py, route: for any budget, and
\* however INSERTs, digests, clicks and days interleave, age alone decides what
\* a digest leaves out: of two cards in the table, the older is never passed over.
THEOREM OverflowByAge == Spec => []OverflowIsYounger
<1>1. InboxInv => OverflowIsYounger
  BY DEF InboxInv
<1>2. Init => TypeInv /\ InboxInv
  BY TypeInit, InboxInvInit
<1>3. TypeInv /\ InboxInv /\ [Next]_vars => (TypeInv /\ InboxInv)'
  BY TypeStep, InboxInvStep
<1> QED
  BY <1>1, <1>2, <1>3, PTL DEF Spec

-----------------------------------------------------------------------------
(* Cards of a draft *)

Own(d) == {i \in 1..Len(cards) : cards[i].about = d}
Flying(d) == {c \in inFlight : c.about = d}
Made == {"carded", "composed"}

\* Rows and cards in flight of a draft whose task is at "step": every one but
\* that of its last attempt is due to a mishap.
Counted(rows, flying, step, m) ==
  /\ rows + flying <= m + (IF step \in Made THEN 1 ELSE 0)
  /\ step = "carded" => rows + flying > 0
  /\ step = "composed" => rows > 0

DraftInv ==
  \A d \in Draft :
    Counted(Cardinality(Own(d)), Cardinality(Flying(d)), compose[d], mishaps)

LEMMA OwnFinite ==
  ASSUME TypeInv, NEW d
  PROVE  /\ IsFiniteSet(Own(d)) /\ Cardinality(Own(d)) \in Nat
         /\ IsFiniteSet(Flying(d)) /\ Cardinality(Flying(d)) \in Nat
<1>1. Len(cards) \in Nat /\ Own(d) \in SUBSET (1..Len(cards))
  BY DEF TypeInv, InboxTypes, Own
<1>2. IsFiniteSet(inFlight) /\ Flying(d) \subseteq inFlight
  BY DEF TypeInv, InboxTypes, Flying
<1>3. IsFiniteSet(Flying(d))
  BY <1>2, FS_Subset
<1> QED
  BY <1>1, <1>3, PositionsAreFinite, FS_CardinalityType

LEMMA DraftInit == Init => DraftInv
<1> SUFFICES ASSUME Init PROVE DraftInv
  OBVIOUS
<1>1. \A d : Own(d) = {} /\ Flying(d) = {}
  BY DEF Init, InboxInit, Own, Flying
<1>2. Cardinality({}) = 0
  BY FS_EmptySet
<1>3. mishaps = 0 /\ \A d \in Draft : compose[d] = "waiting"
  BY DEF Init, InboxInit
<1>4. Counted(0, 0, "waiting", 0)
  BY DEF Counted, Made
<1> QED
  BY <1>1, <1>2, <1>3, <1>4 DEF DraftInv

\* Without a new card an attempt ends, or is lost by a mishap.
LEMMA ComposeMoves ==
  ASSUME TypeInv, [Next]_vars, UNCHANGED tableVars, NEW d \in Draft
  PROVE  /\ mishaps \in Nat /\ mishaps' \in {mishaps, mishaps + 1}
         /\ \/ compose'[d] = compose[d]
            \/ compose[d] = "waiting" /\ compose'[d] \in {"skipped", "blocked"}
            \/ compose[d] = "carded" /\ compose'[d] = "composed" /\ Flying(d) = {}
            \/ compose[d] = "carded" /\ compose'[d] = "waiting" /\ mishaps' = mishaps + 1
<1>1. ASSUME NEW e \in Draft, ComposeOptions(e)
      PROVE  /\ mishaps' \in {mishaps, mishaps + 1}
             /\ \/ compose'[d] = compose[d]
                \/ compose[d] = "waiting" /\ compose'[d] \in {"skipped", "blocked"}
                \/ compose[d] = "carded" /\ compose'[d] = "composed" /\ Flying(d) = {}
                \/ compose[d] = "carded" /\ compose'[d] = "waiting" /\ mishaps' = mishaps + 1
  <2>1. CASE NothingToCompose(e)
    BY <2>1 DEF NothingToCompose, TypeInv, InboxTypes
  <2>2. CASE FinishCompose(e)
    BY <2>2 DEF FinishCompose, OnItsWay, Flying, TypeInv, InboxTypes
  <2>3. CASE ComposeRaises(e)
    BY <2>3 DEF ComposeRaises, GoesWrong, Mishap, TypeInv, InboxTypes
  <2>4. CASE Compose(e)
    <3>1. PICK survivors \in SUBSET Letters :
            IF Cardinality(survivors) < 2
            THEN compose' = [compose EXCEPT ![e] = "blocked"] /\ UNCHANGED cardVars
            ELSE /\ BuildCard("content.reply", e, survivors)
                 /\ compose' = [compose EXCEPT ![e] = "carded"]
      BY <2>4 DEF Compose
    <3>2. ~BuildCard("content.reply", e, survivors)
      <4>1. built \in Nat /\ built' = built
        BY DEF TypeInv, InboxTypes, tableVars
      <4> QED
        BY <4>1 DEF BuildCard
    <3>3. compose' = [compose EXCEPT ![e] = "blocked"] /\ compose[e] = "waiting"
          /\ mishaps' = mishaps
      BY <2>4, <3>1, <3>2 DEF Compose
    <3> QED
      BY <3>3 DEF TypeInv, InboxTypes
  <2> QED
    BY <1>1, <2>1, <2>2, <2>3, <2>4 DEF ComposeOptions
<1>2. \/ UNCHANGED compose /\ mishaps' \in {mishaps, mishaps + 1}
      \/ \E e \in Draft : ComposeOptions(e)
  <2>1. InboxStep => \/ UNCHANGED compose /\ mishaps' \in {mishaps, mishaps + 1}
                     \/ \E e \in Draft : ComposeOptions(e)
    BY DEF InboxStep, ListPending, RouteDigest, FollowLink, RecordDecision, DayPasses,
           InsertCard, GoesWrong, Mishap
  <2>2. SourceStep => UNCHANGED compose /\ mishaps' \in {mishaps, mishaps + 1}
    BY DEF SourceStep, Yield, OtherSignal, MonthlyReview, ReviewRaises, RetireStep,
           RetireRaises, StartRetire, Ask, TooFewReplacements, ProposeRetirement,
           MarkRetired, MarkPass, EndPass, Discover, StartReview, ReviewCandidate,
           inboxVars, GoesWrong, Mishap
  <2>3. UNCHANGED vars => UNCHANGED compose /\ mishaps' \in {mishaps, mishaps + 1}
    BY DEF vars, inboxVars
  <2> QED
    BY <2>1, <2>2, <2>3 DEF Next
<1>3. mishaps \in Nat
  BY DEF TypeInv, InboxTypes
<1> QED
  BY <1>1, <1>2, <1>3

LEMMA DraftStep == TypeInv /\ DraftInv /\ [Next]_vars => DraftInv'
<1> SUFFICES ASSUME TypeInv, DraftInv, [Next]_vars, NEW d \in Draft
             PROVE  Counted(Cardinality(Own(d)'), Cardinality(Flying(d)'), compose'[d], mishaps')
  BY DEF DraftInv
<1> DEFINE a == Cardinality(Own(d))
           b == Cardinality(Flying(d))
<1>1. /\ Counted(a, b, compose[d], mishaps) /\ InboxTypes
      /\ IsFiniteSet(Own(d)) /\ a \in Nat /\ IsFiniteSet(Flying(d)) /\ b \in Nat
      /\ mishaps \in Nat
  BY OwnFinite DEF DraftInv, TypeInv, InboxTypes
<1>2. CASE UNCHANGED tableVars
  <2>1. Own(d)' = Own(d) /\ Flying(d)' = Flying(d)
    BY <1>2 DEF Own, Flying, tableVars
  <2>2. Flying(d) = {} => b = 0
    BY FS_EmptySet
  <2> HIDE DEF a, b
  <2>3. Counted(a, b, compose'[d], mishaps')
    BY <1>1, <1>2, <2>2, ComposeMoves DEF Counted, Made
  <2> QED
    BY <2>1, <2>3 DEF a, b
<1>3. ASSUME NEW kind \in CardKinds,
             NEW about \in Draft \cup LiveUrls \cup Candidates \cup Class,
             NEW offers \in SUBSET Option, NewCard(kind, about, offers),
             UNCHANGED <<day, mishaps>>
      PROVE  Counted(Cardinality(Own(d)'), Cardinality(Flying(d)'), compose'[d], mishaps')
  <2>1. PICK c \in Card : /\ c.about = about /\ c \notin inFlight
                          /\ inFlight' = inFlight \cup {c} /\ cards' = cards
    BY <1>1, <1>3, CardBuilt DEF NewCard
  <2>2. Own(d)' = Own(d)
    BY <2>1 DEF Own
  <2>3. CASE about = d
    <3>1. compose[d] = "waiting" /\ compose'[d] = "carded"
      BY <1>1, <1>3, <2>3 DEF NewCard, InboxTypes
    <3>2. Flying(d)' = Flying(d) \cup {c} /\ c \notin Flying(d)
      BY <2>1, <2>3 DEF Flying
    <3>3. Cardinality(Flying(d)') = b + 1
      BY <1>1, <3>2, FS_AddElement
    <3> HIDE DEF a, b
    <3>4. Counted(a, b + 1, "carded", mishaps)
      BY <1>1, <3>1 DEF Counted, Made
    <3> QED
      BY <1>3, <2>2, <3>1, <3>3, <3>4 DEF a
  <2>4. CASE about # d
    <3>1. Flying(d)' = Flying(d)
      BY <2>1, <2>4 DEF Flying
    <3>2. compose'[d] = compose[d]
      BY <1>1, <1>3, <2>4 DEF NewCard, InboxTypes
    <3> QED
      BY <1>1, <1>3, <2>2, <3>1, <3>2
  <2> QED
    BY <2>3, <2>4
<1>4. ASSUME NEW c \in inFlight, InsertCard(c)
      PROVE  Counted(Cardinality(Own(d)'), Cardinality(Flying(d)'), compose'[d], mishaps')
  <2>1. /\ Len(cards) \in Nat /\ Len(cards') = Len(cards) + 1
        /\ \A i \in 1..Len(cards) : cards'[i] = cards[i]
        /\ cards'[Len(cards) + 1] = c /\ inFlight' = inFlight \ {c}
        /\ UNCHANGED <<compose, mishaps>>
    <3>1. /\ Len(cards) \in Nat /\ Len(cards') = Len(cards) + 1
          /\ \A i \in 1..Len(cards) : cards'[i] = cards[i]
          /\ cards'[Len(cards')] = c /\ inFlight' = inFlight \ {c}
          /\ UNCHANGED <<compose, mishaps>>
      BY <1>1, <1>4, CardInserted
    <3> QED
      BY <3>1
  <2>2. \A i \in 1..(Len(cards) + 1) : i \in 1..Len(cards) \/ i = Len(cards) + 1
    BY <2>1
  <2>3. CASE c.about = d
    <3>1. Own(d)' = Own(d) \cup {Len(cards) + 1} /\ Len(cards) + 1 \notin Own(d)
      BY <2>1, <2>2, <2>3 DEF Own
    <3>2. Cardinality(Own(d)') = a + 1
      BY <1>1, <3>1, FS_AddElement
    <3>3. Flying(d)' = Flying(d) \ {c} /\ c \in Flying(d)
      BY <2>1, <2>3 DEF Flying
    <3>4. Cardinality(Flying(d)') = b - 1
      BY <1>1, <3>3, FS_RemoveElement
    <3> HIDE DEF a, b
    <3>5. Counted(a + 1, b - 1, compose[d], mishaps)
      BY <1>1 DEF Counted
    <3> QED
      BY <2>1, <3>2, <3>4, <3>5
  <2>4. CASE c.about # d
    <3>1. Own(d)' = Own(d) /\ Flying(d)' = Flying(d)
      BY <2>1, <2>2, <2>4 DEF Own, Flying
    <3> QED
      BY <1>1, <2>1, <3>1
  <2> QED
    BY <2>3, <2>4
<1>5. ASSUME NEW abouts, GivenUp(abouts)
      PROVE  Counted(Cardinality(Own(d)'), Cardinality(Flying(d)'), compose'[d], mishaps')
  <2>1. /\ inFlight' \subseteq inFlight /\ cards' = cards /\ mishaps' = mishaps + 1
        /\ \A c \in inFlight : c.about \notin abouts => c \in inFlight'
    BY <1>1, <1>5, CardAbandoned DEF GivenUp
  <2>2. Own(d)' = Own(d)
    BY <2>1 DEF Own
  <2>3. CASE compose'[d] = "waiting"
    <3>1. Flying(d)' \subseteq Flying(d)
      BY <2>1 DEF Flying
    <3>2. Cardinality(Flying(d)') \in Nat /\ Cardinality(Flying(d)') <= b
      BY <1>1, <3>1, FS_Subset, FS_CardinalityType
    <3> HIDE DEF a, b
    <3>3. \A f \in Nat : f <= b => Counted(a, f, "waiting", mishaps + 1)
      BY <1>1 DEF Counted, Made
    <3> QED
      BY <2>1, <2>2, <2>3, <3>2, <3>3 DEF a
  <2>4. CASE d \notin abouts /\ compose'[d] = compose[d]
    <3>1. Flying(d)' = Flying(d)
      BY <2>1, <2>4 DEF Flying
    <3> HIDE DEF a, b
    <3>2. Counted(a, b, compose[d], mishaps + 1)
      BY <1>1 DEF Counted
    <3> QED
      BY <2>1, <2>2, <2>4, <3>1, <3>2 DEF a, b
  <2>5. compose'[d] = "waiting" \/ (d \notin abouts /\ compose'[d] = compose[d])
    BY <1>1, <1>5, SourceAssumption DEF GivenUp, InboxTypes
  <2> QED
    BY <2>3, <2>4, <2>5
<1> QED
  BY <1>2, <1>3, <1>4, <1>5, CardsStep

\* compose_options_handler and create_option_card, which is not idempotent: for
\* any number of drafts and mishaps, and wherever its POSTs are lost or late, a
\* draft has one card, and one more at most for every attempt that failed behind
\* it; a composed draft has one.
THEOREM CardsAreCounted == Spec => []CardsPerDraft
<1>1. TypeInv /\ DraftInv => CardsPerDraft
  <2> SUFFICES ASSUME TypeInv, DraftInv, NEW d \in Draft
               PROVE  /\ Cardinality(Own(d)) <= 1 + mishaps
                      /\ compose[d] = "composed" => Own(d) # {}
    BY DEF CardsPerDraft, Own
  <2>1. /\ Cardinality(Own(d)) \in Nat /\ Cardinality(Flying(d)) \in Nat /\ mishaps \in Nat
        /\ Own(d) = {} => Cardinality(Own(d)) = 0
    BY OwnFinite, FS_EmptySet DEF TypeInv, InboxTypes
  <2> QED
    BY <2>1 DEF DraftInv, Counted, Made
<1>2. Init => TypeInv /\ DraftInv
  BY TypeInit, DraftInit
<1>3. TypeInv /\ DraftInv /\ [Next]_vars => (TypeInv /\ DraftInv)'
  BY TypeStep, DraftStep
<1> QED
  BY <1>1, <1>2, <1>3, PTL DEF Spec

-----------------------------------------------------------------------------
(* Signals and the retire pass *)

\* A new row, by the function that writes its type.
NewSignal(type, of) ==
  /\ Signal(type, of)
  /\ UNCHANGED day
  /\ type = "retired" => 
       retire.pc = "carded" /\ of = {retire.at} /\ ~OnItsWay(Live[retire.at])
  /\ type = "retire_marker" => retire.pc = "next" /\ retire' = [retire EXCEPT !.pc = "marked"]
  /\ type = "review_marker" => ~Gated("review_marker", ReviewDays)

LEMMA SignalsStep ==
  ASSUME TypeInv, [Next]_vars
  PROVE  \/ UNCHANGED signals
         \/ \E type \in SignalTypes, of \in SUBSET Listings : NewSignal(type, of)
<1>1. CASE Yield
  <2>1. PICK up \in SUBSET Listings : Signal("yield", up)
    BY <1>1 DEF Yield
  <2>2. UNCHANGED day
    BY <1>1 DEF Yield, inboxVars
  <2>3. NewSignal("yield", up)
    BY <2>1, <2>2 DEF NewSignal
  <2> QED
    BY <2>3 DEF SignalTypes
<1>2. CASE OtherSignal \/ Ask \/ \E c \in Class : Discover(c)
  <2>1. Signal("other", {}) /\ UNCHANGED day
    BY <1>2 DEF OtherSignal, Ask, Discover, inboxVars
  <2>2. NewSignal("other", {})
    BY <2>1 DEF NewSignal
  <2> QED
    BY <2>2 DEF SignalTypes
<1>3. CASE MarkRetired
  <2>1. NewSignal("retired", {retire.at})
    BY <1>3 DEF MarkRetired, NewSignal, inboxVars
  <2>2. {retire.at} \in SUBSET Listings
    BY <1>3 DEF MarkRetired, TypeInv, SourceTypes
  <2> QED
    BY <2>1, <2>2 DEF SignalTypes
<1>4. CASE MarkPass
  <2>1. NewSignal("retire_marker", {})
    BY <1>4 DEF MarkPass, NewSignal, inboxVars
  <2> QED
    BY <2>1 DEF SignalTypes
<1>5. CASE MonthlyReview
  <2>1. NewSignal("review_marker", {})
    BY <1>5 DEF MonthlyReview, NewSignal, inboxVars
  <2> QED
    BY <2>1 DEF SignalTypes
<1>6. ASSUME NEW u \in review, ReviewCandidate(u)
      PROVE  UNCHANGED signals \/ NewSignal("widened", {})
  BY <1>6 DEF ReviewCandidate, NewSignal
<1>7. \/ UNCHANGED signals
      \/ Yield \/ OtherSignal \/ Ask \/ (\E c \in Class : Discover(c))
      \/ MarkRetired \/ MarkPass \/ MonthlyReview \/ \E u \in review : ReviewCandidate(u)
  <2>1. RetireStep \/ RetireRaises => UNCHANGED signals \/ Ask \/ MarkRetired \/ MarkPass
    BY DEF RetireStep, RetireRaises, StartRetire, TooFewReplacements, ProposeRetirement,
           EndPass
  <2>2. ReviewRaises \/ (\E c \in Class : StartReview(c)) => UNCHANGED signals
    BY DEF ReviewRaises, StartReview
  <2>3. UNCHANGED vars \/ UNCHANGED sourceVars => UNCHANGED signals
    BY DEF vars, sourceVars
  <2> QED
    BY <2>1, <2>2, <2>3 DEF Next, SourceStep
<1>8. "widened" \in SignalTypes /\ {} \in SUBSET Listings
  BY DEF SignalTypes
<1> QED
  BY <1>1, <1>2, <1>3, <1>4, <1>5, <1>6, <1>7, <1>8

\* The steps of a pass.
LEMMA RetireMoves ==
  ASSUME TypeInv, [Next]_vars
  PROVE  \/ UNCHANGED retire
         \/ retire'.pc \in {"idle", "marked"}
         \/ /\ ~Gated("retire_marker", RetireDays) /\ UNCHANGED <<signals, day>>
            /\ retire' = [pc |-> "next", at |-> 0,
                          todo |-> {n \in Listings : ToRetire(n)}]
         \/ /\ retire.pc = "next"
            /\ \E n \in retire.todo :
                 retire' = [pc |-> "asked", todo |-> retire.todo \ {n}, at |-> n]
         \/ retire.pc \in {"asked", "carded"} /\ retire' = [retire EXCEPT !.pc = "next"]
         \/ ProposeRetirement
<1> USE DEF TypeInv, SourceTypes
<1>1. CASE StartRetire
  BY <1>1 DEF StartRetire, NoPass, inboxVars
<1>2. CASE Ask
  BY <1>2 DEF Ask
<1>3. CASE TooFewReplacements \/ MarkRetired
  BY <1>3 DEF TooFewReplacements, MarkRetired
<1>4. CASE MarkPass \/ EndPass \/ RetireRaises
  BY <1>4 DEF MarkPass, EndPass, RetireRaises, NoPass
<1>5. \/ UNCHANGED retire
      \/ RetireStep \/ RetireRaises
  <2>1. SourceStep => UNCHANGED retire \/ RetireStep \/ RetireRaises
    BY DEF SourceStep, Yield, OtherSignal, MonthlyReview, ReviewRaises, Discover,
           StartReview, ReviewCandidate
  <2>2. UNCHANGED vars \/ UNCHANGED sourceVars => UNCHANGED retire
    BY DEF vars, sourceVars
  <2> QED
    BY <2>1, <2>2 DEF Next
<1> QED
  BY <1>1, <1>2, <1>3, <1>4, <1>5 DEF RetireStep

\* A source that is up for retirement, by the card of it: in the table, or at
\* least on its way.
Proposed(url) ==
  \E i \in 1..Len(cards) : cards[i].kind = "source.retire" /\ url = cards[i].about
PutUp(url) ==
  Proposed(url) \/ \E c \in inFlight : c.kind = "source.retire" /\ url = c.about

DropInv ==
  /\ \A n \in 1..Len(signals) : signals[n].type = "retired" =>
       \E l \in Listings : signals[n].of = {l} /\ Proposed(Live[l])
  /\ retire.pc = "carded" => PutUp(Live[retire.at])

LEMMA ProposedStays ==
  ASSUME TypeInv, [Next]_vars, NEW url, Proposed(url)
  PROVE  Proposed(url)'
BY CardsStay DEF Proposed

\* Only the pass itself, when it raises, gives up a retire card.
LEMMA PutUpStays ==
  ASSUME TypeInv, [Next]_vars, NEW url \in LiveUrls, PutUp(url), retire'.pc # "idle"
  PROVE  PutUp(url)'
<1>1. CASE Proposed(url)
  <2>1. Proposed(url)'
    BY <1>1, ProposedStays
  <2> QED
    BY <2>1 DEF PutUp
<1>2. ASSUME NEW c \in inFlight, c.kind = "source.retire", url = c.about
      PROVE  PutUp(url)'
  <2>1. CASE c \in inFlight'
    BY <1>2, <2>1 DEF PutUp
  <2>2. ASSUME NEW e \in inFlight, InsertCard(e) PROVE PutUp(url)'
    <3>1. /\ Len(cards) \in Nat /\ Len(cards') = Len(cards) + 1
          /\ cards'[Len(cards')] = e /\ inFlight' = inFlight \ {e}
      BY <2>2, CardInserted DEF TypeInv
    <3>2. CASE e = c
      <4>1. Len(cards') \in 1..Len(cards')
        BY <3>1
      <4>2. Proposed(url)'
        BY <1>2, <3>1, <3>2, <4>1 DEF Proposed
      <4> QED
        BY <4>2 DEF PutUp
    <3> QED
      BY <2>1, <3>1, <3>2
  <2>3. ASSUME NEW kind, NEW about, NEW offers, NewCard(kind, about, offers)
        PROVE  c \in inFlight'
    BY <2>3 DEF NewCard, BuildCard
  <2>4. ASSUME NEW abouts, GivenUp(abouts) PROVE c \in inFlight'
    <3>1. url \notin abouts
      BY <2>4, SourceAssumption DEF GivenUp
    <3> QED
      BY <1>2, <2>4, <3>1, CardAbandoned DEF GivenUp, TypeInv
  <2>5. UNCHANGED tableVars => c \in inFlight'
    BY DEF tableVars
  <2> QED
    BY <2>1, <2>2, <2>3, <2>4, <2>5, CardsStep
<1> QED
  BY <1>1, <1>2 DEF PutUp

LEMMA DropStep == TypeInv /\ DropInv /\ [Next]_vars => DropInv'
<1> SUFFICES ASSUME TypeInv, DropInv, [Next]_vars PROVE DropInv'
  OBVIOUS
<1>1. ASSUME NEW n \in 1..Len(signals'), signals'[n].type = "retired"
      PROVE  \E l \in Listings : signals'[n].of = {l} /\ Proposed(Live[l])'
  <2>1. CASE UNCHANGED signals
    <3>1. PICK l \in Listings : signals[n].of = {l} /\ Proposed(Live[l])
      BY <1>1, <2>1 DEF DropInv
    <3> QED
      BY <2>1, <3>1, ProposedStays
  <2>2. ASSUME NEW type \in SignalTypes, NEW of \in SUBSET Listings,
               NewSignal(type, of)
        PROVE  \E l \in Listings : signals'[n].of = {l} /\ Proposed(Live[l])'
    <3>1. Signal(type, of)
      BY <2>2 DEF NewSignal
    <3>2. /\ Len(signals) \in Nat
          /\ signals'[1] = [type |-> type, of |-> of, day |-> day]
          /\ \A k \in 1..Len(signals) : signals'[k + 1] = signals[k]
          /\ n = 1 \/ n - 1 \in 1..Len(signals)
      BY <3>1, <1>1, SignalPosted
    <3>3. CASE n = 1
      <4>1. type = "retired" /\ signals'[n].of = of
        BY <1>1, <3>2, <3>3
      <4>2. PICK l \in Listings : of = {l} /\ Proposed(Live[l])
        BY <2>2, <4>1 DEF NewSignal, DropInv, PutUp, OnItsWay, TypeInv, SourceTypes
      <4> QED
        BY <4>1, <4>2, ProposedStays
    <3>4. CASE n - 1 \in 1..Len(signals)
      <4>1. signals'[n] = signals[n - 1]
        BY <3>2, <3>4
      <4>2. PICK l \in Listings : signals[n - 1].of = {l} /\ Proposed(Live[l])
        BY <1>1, <3>4, <4>1 DEF DropInv
      <4> QED
        BY <4>1, <4>2, ProposedStays
    <3> QED
      BY <3>2, <3>3, <3>4
  <2> QED
    BY <2>1, <2>2, SignalsStep
<1>2. ASSUME retire'.pc = "carded" PROVE PutUp(Live[retire.at])'
  <2>1. CASE UNCHANGED retire
    <3>1. Live[retire.at] \in LiveUrls /\ PutUp(Live[retire.at])
      BY <1>2, <2>1, LiveUrl DEF DropInv, TypeInv, SourceTypes
    <3> DEFINE url == Live[retire.at]
    <3>2. url' = url
      BY <2>1
    <3> HIDE DEF url
    <3>3. url \in LiveUrls /\ PutUp(url)
      BY <3>1 DEF url
    <3>4. retire'.pc # "idle"
      BY <1>2
    <3>5. PutUp(url)'
      BY <3>2, <3>3, <3>4, PutUpStays
    <3> QED
      BY <3>5 DEF url
  <2>2. CASE ProposeRetirement
    <3>1. PICK offers \in Offers(ClassOf[retire.at]) :
            BuildCard("source.retire", Live[retire.at], offers)
      BY <2>2 DEF ProposeRetirement
    <3>2. retire.pc = "asked" /\ retire' = [retire EXCEPT !.pc = "carded"]
      BY <2>2 DEF ProposeRetirement
    <3>3. Live[retire.at] \in LiveUrls /\ retire.at \in Listings
      BY <3>2, LiveUrl DEF TypeInv, SourceTypes
    <3>4. offers \in SUBSET Option /\ "source.retire" \in CardKinds
      BY <3>1, <3>3, SourceAssumption DEF Offers, Option, CardKinds
    <3>5. PICK c \in Card : /\ c.kind = "source.retire" /\ c.about = Live[retire.at]
                            /\ inFlight' = inFlight \cup {c}
      BY <3>1, <3>3, <3>4, CardBuilt DEF TypeInv
    <3>6. retire'.at = retire.at
      BY <3>2 DEF TypeInv, SourceTypes
    <3> QED
      BY <3>5, <3>6 DEF PutUp
  <2> QED
    BY <1>2, <2>1, <2>2, RetireMoves DEF TypeInv, SourceTypes
<1> QED
  BY <1>1, <1>2 DEF DropInv

\* source_retire_handler, "never a bare drop": for any sources and signals,
\* and wherever a pass breaks off, a source that a signal calls retired has
\* the card that offers its replacement.
THEOREM DropsAreCovered == Spec => []NeverABareDrop
<1>1. DropInv => NeverABareDrop
  BY DEF DropInv, NeverABareDrop, Proposed
<1>2. Init => TypeInv /\ DropInv
  BY TypeInit DEF Init, DropInv, NoPass
<1>3. TypeInv /\ DropInv /\ [Next]_vars => (TypeInv /\ DropInv)'
  BY TypeStep, DropStep
<1> QED
  BY <1>1, <1>2, <1>3, PTL DEF Spec

\* The checks that a url has failed.
DownChecks(url) ==
  {c \in (1..Len(signals)) \X Listings :
     /\ signals[c[1]].type = "yield" /\ Live[c[2]] = url
     /\ c[2] \notin signals[c[1]].of}
Founded(url) == ReviewBy[url] < day \/ Cardinality(DownChecks(url)) >= Floor
Fallen == {url \in LiveUrls : Founded(url)}

FoundedInv ==
  /\ \A i \in 1..Len(cards) : cards[i].kind = "source.retire" => cards[i].about \in Fallen
  /\ \A c \in inFlight : c.kind = "source.retire" => c.about \in Fallen
  /\ retire.pc \in {"next", "asked", "carded"} => \A n \in retire.todo : Live[n] \in Fallen
  /\ retire.pc \in {"asked", "carded"} => Live[retire.at] \in Fallen

\* The newest rows, as list_signals returns them.
LEMMA RecentRows ==
  ASSUME TypeInv
  PROVE  /\ Len(signals) \in Nat /\ Len(Recent) \in Nat
         /\ Len(Recent) = IF Len(signals) < Lookback THEN Len(signals) ELSE Lookback
         /\ \A n \in 1..Len(Recent) : n \in 1..Len(signals) /\ Recent[n] = signals[n]
<1> DEFINE k == IF Len(signals) < Lookback THEN Len(signals) ELSE Lookback
<1>1. signals \in Seq(Row) /\ Len(signals) \in Nat /\ Lookback \in Nat
  BY SourceAssumption DEF TypeInv, SourceTypes
<1>2. k \in Nat /\ k <= Len(signals)
  BY <1>1
<1>3. Recent = SubSeq(signals, 1, k)
  BY DEF Recent
<1> HIDE DEF k
<1>4. Len(Recent) = k /\ \A n \in 1..k : n \in 1..Len(signals) /\ Recent[n] = signals[n]
  BY <1>1, <1>2, <1>3
<1> QED
  BY <1>1, <1>2, <1>4 DEF k

\* A breached floor is founded on as many checks as the floor asks for.
LEMMA BreachIsFounded ==
  ASSUME TypeInv, NEW url \in LiveUrls, FloorBreached(url)
  PROVE  Cardinality(DownChecks(url)) >= Floor
<1> DEFINE Y == Checks(url)
           End == {c \in Y : Cardinality({d \in Y : Behind(d, c)}) < Floor}
<1>1. /\ Len(Recent) \in Nat /\ Len(signals) \in Nat /\ Len(Live) \in Nat
      /\ \A n \in 1..Len(Recent) : n \in 1..Len(signals) /\ Recent[n] = signals[n]
  BY RecentRows, SourceAssumption
<1>2. /\ Y \in SUBSET ((1..Len(Recent)) \X (1..Len(Live)))
      /\ Cardinality(Y) >= Floor /\ Floor \in Nat
  BY SourceAssumption DEF Checks, FloorBreached, Listings
<1>3. \A c \in End : c \in Checks(url) /\ Down(c)
  BY DEF FloorBreached
<1>4. Cardinality(End) >= Floor
  <2> HIDE DEF Y
  <2> QED
    BY <1>1, <1>2, LastAreEnough
<1> HIDE DEF End
<1>5. End \subseteq DownChecks(url)
  <2>1. ASSUME NEW c \in End PROVE c \in DownChecks(url)
    <3>1. /\ c \in (1..Len(Recent)) \X Listings /\ c[1] \in 1..Len(Recent)
          /\ Recent[c[1]].type = "yield" /\ Live[c[2]] = url /\ c[2] \notin Recent[c[1]].of
      BY <1>3 DEF Checks, Down
    <3>2. c[1] \in 1..Len(signals) /\ Recent[c[1]] = signals[c[1]]
      BY <1>1, <3>1
    <3>3. c \in (1..Len(signals)) \X Listings
      BY <3>1, <3>2
    <3> QED
      BY <3>1, <3>2, <3>3 DEF DownChecks
  <2> QED
    BY <2>1
<1>6. IsFiniteSet(DownChecks(url)) /\ Cardinality(DownChecks(url)) \in Nat
  BY <1>1, ChecksAreFinite DEF DownChecks, Listings
<1>7. IsFiniteSet(End) /\ Cardinality(End) \in Nat
        /\ Cardinality(End) <= Cardinality(DownChecks(url))
  BY <1>5, <1>6, FS_Subset, FS_CardinalityType
<1> QED
  BY <1>2, <1>4, <1>6, <1>7

\* Rows are never taken out of the table, and days never come back.
LEMMA FoundedStays ==
  ASSUME TypeInv, [Next]_vars, NEW url \in LiveUrls, Founded(url)
  PROVE  Founded(url)'
<1> DEFINE D == DownChecks(url)
<1>1. day \in Nat /\ day' \in Nat /\ day <= day' /\ ReviewBy[url] \in Nat
  BY DayMoves, SourceAssumption
<1>2. CASE UNCHANGED signals
  <2>1. D' = D
    BY <1>2 DEF DownChecks
  <2> QED
    BY <1>1, <2>1 DEF Founded
<1>3. ASSUME NEW type \in SignalTypes, NEW of \in SUBSET Listings,
             NewSignal(type, of)
      PROVE  Founded(url)'
  <2> DEFINE E == {c \in (1..Len(signals')) \X Listings :
                     /\ signals'[c[1]].type = "yield" /\ Live[c[2]] = url
                     /\ c[2] \notin signals'[c[1]].of}
             f == [c \in D |-> <<c[1] + 1, c[2]>>]
  <2>1. /\ Len(signals) \in Nat /\ Len(signals') = Len(signals) + 1
        /\ \A n \in 1..Len(signals) : n + 1 \in 1..Len(signals') /\ signals'[n + 1] = signals[n]
    BY <1>3, SignalPosted DEF NewSignal
  <2>2. \A c \in D : c[1] \in Nat /\ c = <<c[1], c[2]>> /\ <<c[1] + 1, c[2]>> \in E
    <3>1. ASSUME NEW c \in D
          PROVE  c[1] \in Nat /\ c = <<c[1], c[2]>> /\ <<c[1] + 1, c[2]>> \in E
      <4>1. /\ c[1] \in 1..Len(signals) /\ c[2] \in Listings /\ c = <<c[1], c[2]>>
            /\ signals[c[1]].type = "yield" /\ Live[c[2]] = url
            /\ c[2] \notin signals[c[1]].of
        BY DEF DownChecks
      <4>2. c[1] + 1 \in 1..Len(signals') /\ signals'[c[1] + 1] = signals[c[1]]
        BY <2>1, <4>1
      <4> QED
        BY <4>1, <4>2
    <3> QED
      BY <3>1
  <2>3. /\ IsFiniteSet(E) /\ Cardinality(E) \in Nat
        /\ IsFiniteSet(D) /\ Cardinality(D) \in Nat
    <3>1. Len(signals) \in Nat /\ Len(signals') \in Nat /\ Len(Live) \in Nat
      BY <2>1, SourceAssumption
    <3>2. E \in SUBSET ((1..Len(signals')) \X (1..Len(Live)))
      BY DEF Listings
    <3>3. D \in SUBSET ((1..Len(signals)) \X (1..Len(Live)))
      BY DEF DownChecks, Listings
    <3> HIDE DEF D, E
    <3> QED
      BY <3>1, <3>2, <3>3, ChecksAreFinite
  <2>4. E = DownChecks(url)'
    BY DEF DownChecks
  <2> HIDE DEF D, E
  <2>5. f \in Injection(D, E)
    <3>1. f \in [D -> E]
      BY <2>2
    <3>2. ASSUME NEW c \in D, NEW e \in D, f[c] = f[e] PROVE c = e
      <4>1. c[1] + 1 = e[1] + 1 /\ c[2] = e[2]
        BY <3>2
      <4>2. \A x, y \in Nat : x + 1 = y + 1 => x = y
        OBVIOUS
      <4>3. c[1] \in Nat /\ e[1] \in Nat
        BY <2>2
      <4>4. c[1] = e[1]
        BY <4>1, <4>2, <4>3, Zenon
      <4> QED
        BY <2>2, <4>1, <4>4
    <3> QED
      BY <3>1, <3>2 DEF Injection, IsInjective
  <2>6. Cardinality(D) <= Cardinality(E)
    BY <2>3, <2>5, FS_Injection
  <2>7. Floor \in Nat
    BY SourceAssumption
  <2>8. ReviewBy[url] < day' \/ Cardinality(E) >= Floor
    BY <1>1, <2>3, <2>6, <2>7 DEF Founded, D
  <2> QED
    BY <2>4, <2>8 DEF Founded
<1> QED
  BY <1>2, <1>3, SignalsStep

LEMMA FoundedStep == TypeInv /\ FoundedInv /\ [Next]_vars => FoundedInv'
<1> SUFFICES ASSUME TypeInv, FoundedInv, [Next]_vars PROVE FoundedInv'
  OBVIOUS
<1>1. Fallen \subseteq Fallen'
  BY FoundedStays DEF Fallen
<1>2. ASSUME NEW i \in 1..Len(cards'), cards'[i].kind = "source.retire"
      PROVE  cards'[i].about \in Fallen'
  <2>1. CASE i \in 1..Len(cards) /\ cards'[i] = cards[i]
    BY <1>1, <1>2, <2>1 DEF FoundedInv
  <2>2. CASE UNCHANGED cards
    BY <2>1, <2>2
  <2>3. ASSUME NEW c \in inFlight, InsertCard(c)
        PROVE  cards'[i].about \in Fallen'
    <3>1. /\ Len(cards) \in Nat /\ Len(cards') = Len(cards) + 1
          /\ \A j \in 1..Len(cards) : cards'[j] = cards[j]
          /\ cards'[Len(cards')] = c
      BY <2>3, CardInserted DEF TypeInv
    <3>2. CASE i \in 1..Len(cards)
      BY <2>1, <3>1, <3>2
    <3>3. CASE i = Len(cards')
      BY <1>1, <1>2, <3>1, <3>3 DEF FoundedInv
    <3> QED
      BY <3>1, <3>2, <3>3
  <2> QED
    BY <2>2, <2>3, RowsStep
<1>7. ASSUME NEW c \in inFlight', c.kind = "source.retire"
      PROVE  c.about \in Fallen'
  <2>1. CASE c \in inFlight
    BY <1>1, <1>7, <2>1 DEF FoundedInv
  <2>2. ASSUME NEW kind \in CardKinds,
               NEW about \in Draft \cup LiveUrls \cup Candidates \cup Class,
               NEW offers \in SUBSET Option, NewCard(kind, about, offers)
        PROVE  c.about \in Fallen'
    <3>1. PICK e \in Card : /\ e.kind = kind /\ e.about = about
                            /\ inFlight' = inFlight \cup {e}
      BY <2>2, CardBuilt DEF NewCard, TypeInv
    <3>2. CASE c = e
      <4>1. retire.pc = "asked" /\ about = Live[retire.at]
        BY <1>7, <2>2, <3>1, <3>2 DEF NewCard
      <4> QED
        BY <1>1, <3>1, <3>2, <4>1 DEF FoundedInv
    <3> QED
      BY <2>1, <3>1, <3>2
  <2>3. ASSUME NEW abouts, GivenUp(abouts) PROVE inFlight' \subseteq inFlight
    BY <2>3, CardAbandoned DEF GivenUp, TypeInv
  <2>4. ASSUME NEW e \in inFlight, InsertCard(e) PROVE inFlight' \subseteq inFlight
    BY <2>4 DEF InsertCard
  <2>5. UNCHANGED tableVars => inFlight' = inFlight
    BY DEF tableVars
  <2> QED
    BY <2>1, <2>2, <2>3, <2>4, <2>5, CardsStep
<1>3. /\ retire.pc \in {"next", "asked", "carded"} => \A n \in retire.todo : Live[n] \in Fallen'
      /\ retire.pc \in {"asked", "carded"} => Live[retire.at] \in Fallen'
      /\ retire \in [pc : RetireSteps, todo : SUBSET Listings, at : Nat]
  BY <1>1 DEF FoundedInv, TypeInv, SourceTypes
<1>4. /\ retire'.pc \in {"next", "asked", "carded"} =>
           \A n \in retire'.todo : Live[n] \in Fallen'
      /\ retire'.pc \in {"asked", "carded"} => Live[retire'.at] \in Fallen'
  <2>1. CASE UNCHANGED retire
    BY <1>3, <2>1
  <2>2. CASE retire'.pc \in {"idle", "marked"}
    BY <2>2
  <2>3. CASE retire' = [pc |-> "next", at |-> 0,
                        todo |-> {n \in Listings : ToRetire(n)}]
    <3>1. ASSUME NEW n \in Listings, ToRetire(n) PROVE Live[n] \in Fallen
      BY <3>1, LiveUrl, BreachIsFounded DEF ToRetire, Founded, Fallen
    <3> QED
      BY <1>1, <2>3, <3>1
  <2>4. CASE /\ retire.pc = "next"
             /\ \E n \in retire.todo :
                  retire' = [pc |-> "asked", todo |-> retire.todo \ {n}, at |-> n]
    BY <1>3, <2>4
  <2>5. CASE retire.pc \in {"asked", "carded"} /\ retire' = [retire EXCEPT !.pc = "next"]
    BY <1>3, <2>5
  <2>6. CASE ProposeRetirement
    <3>1. retire.pc = "asked" /\ retire' = [retire EXCEPT !.pc = "carded"]
      BY <2>6 DEF ProposeRetirement
    <3> QED
      BY <1>3, <3>1
  <2> QED
    BY <2>1, <2>2, <2>3, <2>4, <2>5, <2>6, RetireMoves
<1> QED
  BY <1>2, <1>4, <1>7 DEF FoundedInv

\* floor_breached reads the oldest checks of the window, not the newest
\* (OnlyDeadSourcesRetire fails), and counts a check for every profile that
\* lists the url; still, for any floor, lookback and listings, and however rows,
\* days and retries pile up, no card retires a source that has not failed that
\* many checks, or is past its review date.
THEOREM RetirementsAreFounded == Spec => []RetirementIsFounded
<1>1. FoundedInv => RetirementIsFounded
  BY DEF FoundedInv, RetirementIsFounded, Fallen, Founded, DownChecks
<1>2. Init => TypeInv /\ FoundedInv
  BY TypeInit DEF Init, InboxInit, FoundedInv, NoPass
<1>3. TypeInv /\ FoundedInv /\ [Next]_vars => (TypeInv /\ FoundedInv)'
  BY TypeStep, FoundedStep
<1> QED
  BY <1>1, <1>2, <1>3, PTL DEF Spec

\* Once a pass has begun, no marker that is young is among the newest rows:
\* its own rows only push the others down.
SpacedInv ==
  /\ PassesAreSpaced
  /\ retire.pc \in {"next", "asked", "carded"} =>
       \A n \in 1..Len(signals) :
         n <= Lookback /\ signals[n].type = "retire_marker" =>
           day - signals[n].day >= RetireDays

LEMMA NotGated ==
  ASSUME TypeInv, NEW type, NEW days \in Nat, ~Gated(type, days)
  PROVE  \A n \in 1..Len(signals) :
           n <= Lookback /\ signals[n].type = type => day - signals[n].day >= days
<1>1. /\ Len(signals) \in Nat
      /\ Len(Recent) = IF Len(signals) < Lookback THEN Len(signals) ELSE Lookback
      /\ \A n \in 1..Len(Recent) : Recent[n] = signals[n]
  BY RecentRows
<1>2. Lookback \in Nat /\ day \in Nat /\ signals \in Seq(Row)
  BY SourceAssumption DEF TypeInv, SourceTypes, InboxTypes
<1>3. ASSUME NEW n \in 1..Len(signals), n <= Lookback, signals[n].type = type
      PROVE  day - signals[n].day >= days
  <2>1. n \in 1..Len(Recent)
    BY <1>1, <1>2, <1>3
  <2>2. Recent[n] = signals[n]
    BY <1>1, <2>1
  <2>3. ~(day - signals[n].day < days)
    BY <1>3, <2>1, <2>2 DEF Gated
  <2>4. signals[n].day \in Nat
    <3>1. signals[n] \in Row
      BY <1>2, ElementOfSeq
    <3> QED
      BY <3>1 DEF Row
  <2> QED
    BY <1>2, <2>3, <2>4
<1> QED
  BY <1>3

LEMMA SpacedStep == TypeInv /\ SpacedInv /\ [Next]_vars => SpacedInv'
<1> SUFFICES ASSUME TypeInv, SpacedInv, [Next]_vars PROVE SpacedInv'
  OBVIOUS
<1>1. /\ Len(signals) \in Nat /\ signals \in Seq(Row) /\ day \in Nat
      /\ RetireDays \in Nat /\ ReviewDays \in Nat /\ Lookback \in Nat
  BY SourceAssumption DEF TypeInv, SourceTypes, InboxTypes
<1>2. \A n \in 1..Len(signals) : signals[n].day \in Nat
  <2>1. \A n \in 1..Len(signals) : signals[n] \in Row
    BY <1>1, ElementOfSeq
  <2> QED
    BY <2>1 DEF Row
<1> DEFINE Busy == {"next", "asked", "carded"}
           Old(n, d) == n <= Lookback /\ signals[n].type = "retire_marker" =>
                          d - signals[n].day >= RetireDays
<1>3. retire'.pc \in Busy => \A n \in 1..Len(signals) : Old(n, day)
  <2>1. CASE ~Gated("retire_marker", RetireDays)
    BY <1>1, <2>1, NotGated
  <2>2. CASE retire.pc \in Busy
    BY <2>2 DEF SpacedInv
  <2>3. ProposeRetirement => retire.pc \in Busy
    BY DEF ProposeRetirement
  <2> QED
    BY <2>1, <2>2, <2>3, RetireMoves
<1>4. day' \in Nat /\ day <= day'
  BY DayMoves
<1>5. CASE UNCHANGED signals
  <2>1. PassesAreSpaced'
    BY <1>5 DEF SpacedInv, PassesAreSpaced
  <2>2. ASSUME NEW n \in 1..Len(signals), Old(n, day) PROVE Old(n, day')
    BY <1>1, <1>2, <1>4, <2>2
  <2> QED
    BY <1>3, <1>5, <2>1, <2>2 DEF SpacedInv
<1>6. ASSUME NEW type \in SignalTypes, NEW of \in SUBSET Listings,
             NewSignal(type, of)
      PROVE  SpacedInv'
  <2>1. Signal(type, of) /\ day' = day
    BY <1>6 DEF NewSignal
  <2>2. /\ Len(signals') = Len(signals) + 1
        /\ signals'[1] = [type |-> type, of |-> of, day |-> day]
        /\ \A n \in 1..Len(signals) : signals'[n + 1] = signals[n]
        /\ \A n \in 1..Len(signals') : n = 1 \/ n - 1 \in 1..Len(signals)
    BY <2>1, SignalPosted
  <2>3. \A n \in 1..Len(signals') : n = 1 \/ signals'[n] = signals[n - 1]
    BY <2>2
  <2>4. type = "retire_marker" => retire.pc = "next" /\ retire'.pc = "marked"
    BY <1>6 DEF NewSignal, TypeInv, SourceTypes
  <2>5. ASSUME type = "review_marker", NEW n \in 1..Len(signals), n <= Lookback,
               signals[n].type = "review_marker"
        PROVE  day - signals[n].day >= ReviewDays
    BY <1>1, <1>6, <2>5, NotGated DEF NewSignal
  <2>6. ASSUME NEW m \in 1..Len(signals'), NEW n \in 1..Len(signals'), m < n,
               n - m <= Lookback, signals'[m].type = signals'[n].type
        PROVE  /\ signals'[m].type = "retire_marker" =>
                    signals'[m].day - signals'[n].day >= RetireDays
               /\ signals'[m].type = "review_marker" =>
                    signals'[m].day - signals'[n].day >= ReviewDays
    <3>1. n # 1 /\ n - 1 \in 1..Len(signals) /\ signals'[n] = signals[n - 1]
      BY <2>2, <2>3, <2>6
    <3>2. CASE m = 1
      <4>1. signals'[m].type = type /\ signals'[m].day = day /\ n - 1 <= Lookback
        BY <2>2, <2>6, <3>2
      <4>2. ASSUME type = "retire_marker" PROVE day - signals[n - 1].day >= RetireDays
        BY <2>4, <2>6, <3>1, <4>1, <4>2 DEF SpacedInv
      <4>3. ASSUME type = "review_marker" PROVE day - signals[n - 1].day >= ReviewDays
        BY <2>5, <2>6, <3>1, <4>1, <4>3
      <4> QED
        BY <3>1, <4>1, <4>2, <4>3
    <3>3. CASE m - 1 \in 1..Len(signals)
      <4>1. signals'[m] = signals[m - 1] /\ m - 1 < n - 1 /\ (n - 1) - (m - 1) <= Lookback
        BY SMTT(30), <1>1, <2>3, <2>6, <3>3
      <4> QED
        BY <2>6, <3>1, <3>3, <4>1 DEF SpacedInv, PassesAreSpaced
    <3> QED
      BY <2>2, <3>2, <3>3
  <2>7. ASSUME retire'.pc \in Busy, NEW n \in 1..Len(signals'), n <= Lookback,
               signals'[n].type = "retire_marker"
        PROVE  day' - signals'[n].day >= RetireDays
    <3>1. n # 1
      BY <2>2, <2>4, <2>7
    <3>2. n - 1 \in 1..Len(signals) /\ n - 1 <= Lookback /\ signals'[n] = signals[n - 1]
      BY <1>1, <2>2, <2>3, <2>7, <3>1
    <3> QED
      BY <1>3, <2>1, <2>7, <3>2
  <2> QED
    BY <2>6, <2>7 DEF SpacedInv, PassesAreSpaced
<1> QED
  BY <1>5, <1>6, SignalsStep

\* source_retire_handler and the monthly allowlist review gate themselves on
\* the markers that they still see: for any lookback, passes are as far apart
\* as the handler says, as long as the first marker is among those rows.
THEOREM PassesKeepTheirDistance == Spec => []PassesAreSpaced
<1>1. SpacedInv => PassesAreSpaced
  BY DEF SpacedInv
<1>2. Init => TypeInv /\ SpacedInv
  BY TypeInit DEF Init, SpacedInv, PassesAreSpaced, NoPass
<1>3. TypeInv /\ SpacedInv /\ [Next]_vars => (TypeInv /\ SpacedInv)'
  BY TypeStep, SpacedStep
<1> QED
  BY <1>1, <1>2, <1>3, PTL DEF Spec
=============================================================================
