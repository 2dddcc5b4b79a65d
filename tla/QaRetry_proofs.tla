--------------------------- MODULE QaRetry_proofs ---------------------------
(***************************************************************************)
(* Safety of the QA reviews and their redraft loop, for every bound on     *)
(* attempts, mishaps, edits of the gate policy and verdicts.               *)
(***************************************************************************)
EXTENDS QaRetry, TLAPS

BeforeLoop == {"waiting", "start", "look", "judge", "claim"}

\* Where a handler's vault client is in its agent runs: three for an attempt, the
\* redraft, the brand steward's check and the fact check (which is left out while
\* the gate is off: then the loop is over).
CallsInOrder ==
  \A k \in Kind :
    /\ attempt[k] <= limit.attempts
    /\ pc[k] \in BeforeLoop => attempt[k] = 0
    /\ pc[k] \in BeforeLoop \ {"claim"} => calls[k] = 0
    /\ pc[k] = "regenerate" =>
         calls[k] = 3 * attempt[k] \/ \E c \in Kind : found[k][c] \in NeverRetryable
    /\ pc[k] \in {"install", "check_brand"} => calls[k] + 2 = 3 * attempt[k]
    /\ pc[k] = "check_fact" => calls[k] + 1 = 3 * attempt[k]

\* What the gateway has stored for a handler covers what it has asked for: from
\* the loop on at least its review, before its first start nothing, and a review
\* finds a stored answer only when it is run again.
AnswersCover ==
  \A k \in Kind :
    /\ pc[k] \in {"waiting", "start"} => answers[k] = <<>>
    /\ pc[k] \in {"look", "judge"} => answers[k] = <<>> \/ k \in reran
    /\ pc[k] = "claim" => 1 <= Len(answers[k])
    /\ pc[k] \in {"regenerate", "install", "check_brand", "check_fact"} =>
         1 <= Len(answers[k]) /\ calls[k] <= Len(answers[k])

\* The two verdicts stored for an attempt are on what its redraft rendered.
RoundsMatch ==
  \A k \in Kind, a \in Nat :
    /\ 3 * a + 2 <= Len(answers[k]) =>
         answers[k][3 * a + 2].of = Rendered(k, answers[k][3 * a + 1])
    /\ 3 * a + 3 <= Len(answers[k]) =>
         answers[k][3 * a + 3].of = Rendered(k, answers[k][3 * a + 1])

\* In the loop, the bytes in hand are what the attempt's redraft rendered.
TextRendered ==
  \A k \in Kind :
    /\ pc[k] \in {"install", "check_brand"} => text[k] = Rendered(k, answers[k][calls[k]])
    /\ pc[k] = "check_fact" => text[k] = Rendered(k, answers[k][calls[k] - 1])

Settling == {"store", "move", "advance"}

\* What a handler knows of the version in its hands has been recorded.
HandlerKnows ==
  /\ \A k \in Kind : pc[k] = "check_fact" /\ found[k]["brand_steward"] = "clean"
                       => text[k] \in reviews["brand_steward"]
  /\ \A k \in Kind : pc[k] \in Settling =>
       /\ plan[k].says # "nothing"
       /\ ~plan[k].joint => settling[k] = k
       /\ plan[k].says = "passed" =>
            IF plan[k].joint THEN \A c \in Kind : text[k] \in reviews[c]
                             ELSE text[k] \in reviews[k] \/ k \in reran

\* The handler of k has moved its own task, which stays where it is.
Moved(k) == \/ pc[k] \in {"advance", "card", "release"}
            \/ pc[k] \in {"store", "move"} /\ settling[k] # k
MovedIsTerminal == \A k \in Kind : Moved(k) => state[k] \in Terminal

\* A review that is still open has strikes left, before its first start all.
StrikesLeft ==
  \A k \in Kind : /\ state[k] \notin Terminal => strikes[k] < DeadLetterStrike
                  /\ pc[k] \in {"waiting", "start"} => strikes[k] = 0

\* Where a handler asks for no redraft any more.
Over == {"release", "done", "crashed"}

\* The redrafts paid for, by review: none for the first attempt, one at most for
\* each of the others, and each is stored while the handler may still ask.
PaidFor(p) ==
  /\ newest <= LastShell + p["brand_steward"] + p["fact_check"]
  /\ \A k \in Kind : p[k] > 0 =>
       /\ p[k] + 1 <= limit.attempts
       /\ pc[k] \notin Over => 3 * p[k] + 1 <= Len(answers[k])
RedraftsPaid == \E p \in [Kind -> Nat] : PaidFor(p)

\* A completed review has a verdict, and Friday only starts when both have one.
VerdictFirst ==
  /\ \A k \in Kind : pc[k] = "move" => ref[settling[k]].says # "nothing"
  /\ \A k \in Kind : state[k] = "completed" => ref[k].says # "nothing"
  /\ friday \in {"dispatchable", "running", "retry_pending"}
       => \A k \in Kind : ref[k].says # "nothing"

FridayKnows ==
  fridayHas # 0 => Reviewed("brand_steward", fridayHas) \/ "brand_steward" \in reran

\* A handler decides between a pass without a card and a rejection with one.
PlansSound ==
  \A k \in Kind :
    /\ pc[k] # "crashed"
    /\ pc[k] \in Settling => plan[k].says \in {"passed", "rejected"}
    /\ pc[k] \in Settling => (plan[k].card <=> plan[k].says = "rejected")
    /\ pc[k] = "advance" => plan[k].says = "passed"
    /\ pc[k] = "card" => plan[k].card

CardIsComing == \E k \in Kind : pc[k] \in {"store", "move", "card"} /\ plan[k].card

HasSettled(k) == \/ pc[k] \in {"advance", "release", "done"}
                 \/ pc[k] \in {"store", "move"} /\ settling[k] # k

\* No review has a bad verdict or is given up so far, and who completes the last
\* one goes on to wake Friday.
NothingIsLost ==
  /\ \A k \in Kind : ref[k].says \in {"nothing", "passed"}
  /\ \A k \in Kind : state[k] \in {"dispatchable", "running", "retry_pending", "completed"}
  /\ \A k \in Kind : pc[k] = "waiting" => state[k] \in {"dispatchable", "completed"}
  /\ \A k \in Kind : HasSettled(k) => state[k] = "completed"
  /\ friday \in {"pending", "dispatchable", "running"}
  /\ friday = "pending" /\ (\A k \in Kind : state[k] = "completed")
       => \E k \in Kind : pc[k] = "advance"

\* As long as nothing goes wrong, a written draft has its card, will have it, or
\* is on its way through its reviews.
Heard == mishaps = 0 /\ drafted = "asset"
           => PlansSound /\ (carded \/ CardIsComing \/ NothingIsLost)

LoopInv == CallsInOrder /\ AnswersCover /\ RoundsMatch /\ TextRendered
VerdictInv == HandlerKnows /\ PassIsEarned /\ VerdictFirst
FridayInv == FridayKnows /\ ScheduledIsReviewed
PaidInv == MovedIsTerminal /\ RedraftsPaid
HeardInv == StrikesLeft /\ Heard
QaInv == QaTypeOK /\ LoopInv /\ VerdictInv /\ FridayInv /\ PaidInv /\ HeardInv

\* What the handlers hold, and the rows and records they share.
HandlerTypes ==
  /\ pc \in [Kind -> Steps]
  /\ text \in [Kind -> Nat]
  /\ found \in [Kind -> [Kind -> Findings]]
  /\ attempt \in [Kind -> Nat] /\ calls \in [Kind -> Nat]
  /\ settling \in [Kind -> Kind]
  /\ plan \in [Kind -> [says : RefSays, joint : BOOLEAN, card : BOOLEAN]]
SharedTypes ==
  /\ state \in [Kind -> ReviewStates] /\ strikes \in [Kind -> Nat]
  /\ ref \in [Kind -> [says : RefSays, of : Nat, joint : BOOLEAN]]
  /\ draft \in Nat /\ newest \in Nat
  /\ reviews \in [Kind -> SUBSET Nat]
  /\ lock \in Kind \cup {NoOne} /\ owns \in [Kind -> BOOLEAN]
AnswerTypes == answers \in [Kind -> Seq(Answers)]
GivenTypes ==
  /\ drafted \in {"asset", "undrafted", "missing"} /\ recipe \in Recipes
  /\ limit \in Bounds
  /\ gate \in BOOLEAN /\ flips \in Nat
  /\ carded \in BOOLEAN
  /\ expired \subseteq Kind /\ sessionLost \in BOOLEAN /\ reran \subseteq Kind
  /\ friday \in Terminal \cup {"pending", "dispatchable", "running", "retry_pending"}
  /\ fridayHas \in Nat /\ fridayStrikes \in Nat
  /\ scheduled \subseteq Nat
  /\ mishaps \in Nat

\* The type invariant in four parts, so that a step is compared with one at a time.
LEMMA TypeParts == QaTypeOK <=> HandlerTypes /\ SharedTypes /\ AnswerTypes /\ GivenTypes
  BY DEF QaTypeOK, HandlerTypes, SharedTypes, AnswerTypes, GivenTypes

\* A decided handler holds what it settles.
LEMMA SettleTypes ==
  ASSUME HandlerTypes, NEW k \in Kind, NEW says \in RefSays, NEW joint \in BOOLEAN,
         NEW card \in BOOLEAN, Settle(k, says, joint, card), text' \in [Kind -> Nat]
  PROVE  HandlerTypes'
<1>1. pc' \in [Kind -> Steps] /\ settling' \in [Kind -> Kind] /\ attempt' \in [Kind -> Nat]
      /\ calls' \in [Kind -> Nat]
  BY DEF HandlerTypes, Settle, Steps, HandlerSteps
<1>2. found' \in [Kind -> [Kind -> Findings]]
  BY DEF HandlerTypes, Settle, NothingFound, Findings
<1>3. plan' \in [Kind -> [says : RefSays, joint : BOOLEAN, card : BOOLEAN]]
  BY DEF HandlerTypes, Settle
<1> QED
  BY <1>1, <1>2, <1>3 DEF HandlerTypes

\* A handler that leaves, or goes on to the sibling's task or to the card.
LEMMA AfterTaskTypes ==
  ASSUME HandlerTypes, NEW k \in Kind, AfterTask(k) \/ Leave(k),
         found' = found, attempt' = attempt, calls' = calls
  PROVE  HandlerTypes'
<1>1. pc' \in [Kind -> Steps]
  BY DEF HandlerTypes, AfterTask, Leave, Steps, HandlerSteps
<1>2. settling' \in [Kind -> Kind]
  BY DEF HandlerTypes, AfterTask, Leave, Kind, Other, planVars
<1>3. plan' \in [Kind -> [says : RefSays, joint : BOOLEAN, card : BOOLEAN]]
  <2>1. NoPlan \in [says : RefSays, joint : BOOLEAN, card : BOOLEAN]
    BY DEF NoPlan, RefSays
  <2>2. plan' = plan \/ plan' = [plan EXCEPT ![k] = NoPlan]
    BY DEF AfterTask, Leave, planVars
  <2> QED
    BY <2>1, <2>2 DEF HandlerTypes
<1>4. text' \in [Kind -> Nat]
  <2>1. text' = text \/ text' = [text EXCEPT ![k] = FirstDraft]
    BY DEF AfterTask, Leave, planVars
  <2>2. text \in [Kind -> Nat]
    BY DEF HandlerTypes
  <2> QED
    BY <2>1, <2>2 DEF FirstDraft
<1> QED
  BY <1>1, <1>2, <1>3, <1>4 DEF HandlerTypes

\* A handler whose call is over holds nothing.
LEMMA ForgetTypes ==
  ASSUME HandlerTypes, NEW k \in Kind, Forget(k), pc' \in [Kind -> Steps]
  PROVE  HandlerTypes'
<1>1. found' \in [Kind -> [Kind -> Findings]] /\ attempt' \in [Kind -> Nat]
      /\ calls' \in [Kind -> Nat]
  BY DEF HandlerTypes, Forget, NothingFound, Findings
<1>2. plan' \in [Kind -> [says : RefSays, joint : BOOLEAN, card : BOOLEAN]]
  BY DEF HandlerTypes, Forget, NoPlan, RefSays
<1>3. settling' \in [Kind -> Kind] /\ text' \in [Kind -> Nat]
  BY DEF HandlerTypes, Forget, FirstDraft
<1> QED
  BY <1>1, <1>2, <1>3 DEF HandlerTypes

\* A strike keeps the types of the task row and of the card.
LEMMA RecordFailureTypes ==
  ASSUME SharedTypes, carded \in BOOLEAN, NEW k \in Kind, RecordFailure(k)
  PROVE  /\ state' \in [Kind -> ReviewStates] /\ strikes' \in [Kind -> Nat]
         /\ ref' = ref /\ carded' \in BOOLEAN
<1>1. CASE state[k] \in Terminal
  BY <1>1 DEF SharedTypes, RecordFailure, taskVars
<1>2. CASE state[k] \notin Terminal
  <2>1. strikes' \in [Kind -> Nat] /\ ref' = ref
    BY <1>2 DEF SharedTypes, RecordFailure
  <2>2. state' \in [Kind -> ReviewStates]
    <3> DEFINE next == IF strikes[k] + 1 < DeadLetterStrike
                       THEN "retry_pending" ELSE "dead_lettered"
    <3>1. next \in ReviewStates
      BY DEF ReviewStates, Terminal
    <3>2. state' = [state EXCEPT ![k] = next]
      BY <1>2 DEF RecordFailure
    <3> HIDE DEF next
    <3> QED BY <3>1, <3>2 DEF SharedTypes
  <2>3. carded' \in BOOLEAN
    BY <1>2 DEF RecordFailure
  <2> QED BY <2>1, <2>2, <2>3
<1> QED
  BY <1>1, <1>2

\* What the gateway answers is an answer, and stays one as codes only.
LEMMA VerdictTypes ==
  ASSUME HandlerTypes, AnswerTypes, GivenTypes, NEW k \in Kind, NEW version \in Nat,
         NEW answer \in VerdictsOn(k, version)
  PROVE  answer \in Answers /\ AsCodes(answer) \in Answers /\ AsCodes(answer).of = answer.of
<1>1. answer \in Answers
  <2>1. CASE Answered(k)
    BY <2>1 DEF VerdictsOn, Answered, Run, HandlerTypes, AnswerTypes
  <2>2. CASE ~Answered(k)
    BY <2>2 DEF VerdictsOn, GivenTypes, Bounds, Answers
  <2> QED
    BY <2>1, <2>2
<1> QED
  BY <1>1 DEF AsCodes, Answers, Verdicts

\* So is what it answers as a redraft.
LEMMA RedraftTypes ==
  ASSUME HandlerTypes, SharedTypes, AnswerTypes, NEW k \in Kind
  PROVE  Redraft(k) \in Answers /\ Rendered(k, Redraft(k)) \in Nat
<1>1. Redraft(k) \in Answers
  <2>1. CASE Answered(k)
    BY <2>1 DEF Redraft, Answered, Run, HandlerTypes, AnswerTypes
  <2>2. CASE ~Answered(k)
    BY <2>2 DEF Redraft, SharedTypes, Answers
  <2> QED
    BY <2>1, <2>2
<1> QED
  BY <1>1 DEF Rendered, Shell, Answers

\* The gateway stores answers only.
LEMMA KeepTypes ==
  ASSUME AnswerTypes, NEW k \in Kind, NEW answer \in Answers, Keep(k, answer)
  PROVE  AnswerTypes'
<1>1. Append(answers[k], answer) \in Seq(Answers)
  BY DEF AnswerTypes
<1>2. answers' = answers \/ answers' = [answers EXCEPT ![k] = Append(answers[k], answer)]
  BY DEF Keep
<1> QED
  BY <1>1, <1>2 DEF AnswerTypes

\* Whoever leaves forgets his answers.
LEMMA LeaveTypes ==
  ASSUME AnswerTypes, NEW k \in Kind, AfterTask(k) \/ Leave(k) \/ answers' = answers
  PROVE  AnswerTypes'
<1>1. answers' = answers \/ answers' = [answers EXCEPT ![k] = <<>>]
  BY DEF AfterTask, Leave, planVars
<1>2. <<>> \in Seq(Answers)
  OBVIOUS
<1> QED
  BY <1>1, <1>2 DEF AnswerTypes

\* What is stored stays, and what is asked for next is stored with it.
LEMMA KeepGrows ==
  ASSUME AnswerTypes, HandlerTypes, NEW k \in Kind, NEW answer \in Answers,
         Keep(k, answer), calls[k] <= Len(answers[k])
  PROVE  /\ \A c \in Kind \ {k} : answers'[c] = answers[c]
         /\ Len(answers[k]) \in Nat /\ Len(answers'[k]) \in Nat
         /\ Len(answers'[k]) =
              IF Run(k) <= Len(answers[k]) THEN Len(answers[k]) ELSE Run(k)
         /\ \A n \in 1..Len(answers[k]) : answers'[k][n] = answers[k][n]
         /\ Run(k) > Len(answers[k]) => answers'[k][Run(k)] = answer
<1>1. answers[k] \in Seq(Answers) /\ calls[k] \in Nat /\ Len(answers[k]) \in Nat
  BY DEF AnswerTypes, HandlerTypes
<1>2. CASE Answered(k)
  BY <1>1, <1>2 DEF Keep, Answered, Run
<1>3. CASE ~Answered(k)
  <2>1. answers' = [answers EXCEPT ![k] = Append(answers[k], answer)]
    BY <1>3 DEF Keep
  <2>2. answers'[k] = Append(answers[k], answer) /\ \A c \in Kind \ {k} : answers'[c] = answers[c]
    BY <2>1 DEF AnswerTypes
  <2>3. Run(k) = Len(answers[k]) + 1
    BY <1>1, <1>3 DEF Answered, Run
  <2> QED
    BY <1>1, <2>2, <2>3
<1> QED
  BY <1>2, <1>3

\* Whoever has settled a task is past his loop.
LEMMA AfterLoop ==
  ASSUME HandlerTypes, AnswerTypes, NEW k \in Kind, AfterTask(k) \/ Leave(k)
  PROVE  /\ pc'[k] \in {"store", "card", "release", "done"}
         /\ \A c \in Kind \ {k} : pc'[c] = pc[c] /\ answers'[c] = answers[c] /\ text'[c] = text[c]
<1>1. \E to \in {"store", "card", "release", "done"} : pc' = [pc EXCEPT ![k] = to]
  BY DEF AfterTask, Leave
<1>2. answers' = answers \/ answers' = [answers EXCEPT ![k] = <<>>]
  BY DEF AfterTask, Leave
<1>3. text' = text \/ text' = [text EXCEPT ![k] = FirstDraft]
  BY DEF AfterTask, Leave
<1>4. \A c \in Kind \ {k} : answers'[c] = answers[c]
  BY <1>2 DEF AnswerTypes
<1> QED
  BY <1>1, <1>3, <1>4 DEF HandlerTypes

\* A stored answer keeps the rounds matched if it is no verdict, or one on what
\* the redraft of its attempt rendered.
LEMMA RoundsGrow ==
  ASSUME HandlerTypes, AnswerTypes, RoundsMatch, NEW k \in Kind, NEW answer \in Answers,
         Keep(k, answer), calls[k] <= Len(answers[k]),
         \A a \in Nat : Run(k) > Len(answers[k]) /\ Run(k) \in {3 * a + 2, 3 * a + 3} =>
           answer.of = Rendered(k, answers[k][3 * a + 1])
  PROVE  RoundsMatch'
<1> SUFFICES ASSUME NEW c \in Kind, NEW a \in Nat
             PROVE  /\ 3 * a + 2 <= Len(answers'[c]) =>
                         answers'[c][3 * a + 2].of = Rendered(c, answers'[c][3 * a + 1])
                    /\ 3 * a + 3 <= Len(answers'[c]) =>
                         answers'[c][3 * a + 3].of = Rendered(c, answers'[c][3 * a + 1])
  BY DEF RoundsMatch, Rendered
<1>1. CASE c # k
  <2>1. answers'[c] = answers[c]
    BY <1>1, KeepGrows
  <2> QED
    BY <2>1 DEF RoundsMatch
<1>2. CASE c = k
  <2>1. /\ Len(answers[k]) \in Nat /\ calls[k] \in Nat
        /\ Len(answers'[k]) = IF Run(k) <= Len(answers[k]) THEN Len(answers[k]) ELSE Run(k)
        /\ \A n \in 1..Len(answers[k]) : answers'[k][n] = answers[k][n]
        /\ Run(k) > Len(answers[k]) => answers'[k][Run(k)] = answer
    BY KeepGrows DEF HandlerTypes
  <2>2. ASSUME NEW n \in {3 * a + 2, 3 * a + 3}, n <= Len(answers'[k])
        PROVE  answers'[k][n].of = Rendered(k, answers'[k][3 * a + 1])
    <3>1. CASE n <= Len(answers[k])
      <4>1. answers'[k][n] = answers[k][n] /\ answers'[k][3 * a + 1] = answers[k][3 * a + 1]
        BY <2>1, <2>2, <3>1
      <4>2. answers[k][n].of = Rendered(k, answers[k][3 * a + 1])
        BY <2>2, <3>1 DEF RoundsMatch
      <4> QED
        BY <4>1, <4>2
    <3>2. CASE ~(n <= Len(answers[k]))
      <4>1. n = Run(k) /\ Run(k) > Len(answers[k]) /\ Run(k) = calls[k] + 1
        BY <2>1, <2>2, <3>2 DEF Run
      <4>2. answers'[k][n] = answer
        BY <2>1, <4>1
      <4>3. answer.of = Rendered(k, answers[k][3 * a + 1])
        BY <2>2, <4>1
      <4>4. answers'[k][3 * a + 1] = answers[k][3 * a + 1]
        BY <2>1, <2>2, <4>1
      <4> QED
        BY <4>2, <4>3, <4>4
    <3> QED
      BY <3>1, <3>2
  <2> QED
    BY <1>2, <2>2
<1> QED
  BY <1>1, <1>2

\* Where answers are kept or forgotten, the rounds stay matched.
LEMMA RoundsKeep ==
  ASSUME AnswerTypes, RoundsMatch,
         answers' = answers \/ \E k \in Kind : answers' = [answers EXCEPT ![k] = <<>>]
  PROVE  RoundsMatch'
<1>1. CASE answers' = answers
  BY <1>1 DEF RoundsMatch, Rendered
<1>2. ASSUME NEW k \in Kind, answers' = [answers EXCEPT ![k] = <<>>] PROVE RoundsMatch'
  <2>1. \A c \in Kind : answers'[c] = answers[c] \/ answers'[c] = <<>>
    BY <1>2 DEF AnswerTypes
  <2>2. \A a \in Nat : ~(3 * a + 2 <= Len(<<>>)) /\ ~(3 * a + 3 <= Len(<<>>))
    OBVIOUS
  <2>3. SUFFICES ASSUME NEW c \in Kind, NEW a \in Nat
                 PROVE  /\ 3 * a + 2 <= Len(answers'[c]) =>
                             answers'[c][3 * a + 2].of = Rendered(c, answers'[c][3 * a + 1])
                        /\ 3 * a + 3 <= Len(answers'[c]) =>
                             answers'[c][3 * a + 3].of = Rendered(c, answers'[c][3 * a + 1])
    BY DEF RoundsMatch, Rendered
  <2> QED
    BY <2>1, <2>2 DEF RoundsMatch
<1> QED
  BY <1>1, <1>2

\* In the loop a verdict, also a stored one, is on the bytes in hand.
LEMMA VerdictFits ==
  ASSUME HandlerTypes, AnswerTypes, CallsInOrder, RoundsMatch, TextRendered, NEW k \in Kind,
         pc[k] \in {"check_brand", "check_fact"}, NEW given \in VerdictsOn(k, text[k])
  PROVE  AsCodes(given).of = text[k] \/ given \notin Answers
<1> SUFFICES ASSUME given \in Answers PROVE given.of = text[k]
  BY DEF AsCodes, Answers
<1>1. calls[k] \in Nat /\ attempt[k] \in Nat /\ Len(answers[k]) \in Nat
  BY DEF HandlerTypes, AnswerTypes
<1>2. CASE ~Answered(k)
  BY <1>2 DEF VerdictsOn
<1>3. CASE Answered(k)
  <2>1. given = answers[k][calls[k] + 1] /\ calls[k] + 1 <= Len(answers[k])
    BY <1>3 DEF VerdictsOn, Answered, Run
  <2>2. CASE pc[k] = "check_brand"
    <3>1. calls[k] + 2 = 3 * attempt[k]
      BY <2>2 DEF CallsInOrder
    <3>2. /\ attempt[k] - 1 \in Nat
          /\ 3 * (attempt[k] - 1) + 2 = calls[k] + 1
          /\ 3 * (attempt[k] - 1) + 1 = calls[k]
      <4>1. \A c \in Nat, a \in Nat : c + 2 = 3 * a =>
              a - 1 \in Nat /\ 3 * (a - 1) + 2 = c + 1 /\ 3 * (a - 1) + 1 = c
        OBVIOUS
      <4> QED
        BY <1>1, <3>1, <4>1
    <3>3. answers[k][calls[k] + 1].of = Rendered(k, answers[k][calls[k]])
      BY <2>1, <3>2 DEF RoundsMatch
    <3> QED
      BY <2>1, <2>2, <3>3 DEF TextRendered
  <2>3. CASE pc[k] = "check_fact"
    <3>1. calls[k] + 1 = 3 * attempt[k]
      BY <2>3 DEF CallsInOrder
    <3>2. /\ attempt[k] - 1 \in Nat
          /\ 3 * (attempt[k] - 1) + 3 = calls[k] + 1
          /\ 3 * (attempt[k] - 1) + 1 = calls[k] - 1
      <4>1. \A c \in Nat, a \in Nat : c + 1 = 3 * a =>
              a - 1 \in Nat /\ 3 * (a - 1) + 3 = c + 1 /\ 3 * (a - 1) + 1 = c - 1
        OBVIOUS
      <4> QED
        BY <1>1, <3>1, <4>1
    <3>3. answers[k][calls[k] + 1].of = Rendered(k, answers[k][calls[k] - 1])
      BY <2>1, <3>2 DEF RoundsMatch
    <3> QED
      BY <2>1, <2>3, <3>3 DEF TextRendered
  <2> QED
    BY <2>2, <2>3
<1> QED
  BY <1>2, <1>3

\* The number of stored answers is a number.
LEMMA LenTypes ==
  ASSUME AnswerTypes
  PROVE  \A c \in Kind : Len(answers[c]) \in Nat
  BY DEF AnswerTypes

\* It never shrinks by storing, and grows by one for what was not stored.
LEMMA LenGrows ==
  ASSUME AnswerTypes, HandlerTypes, NEW k \in Kind, NEW answer \in Answers,
         Keep(k, answer), calls[k] <= Len(answers[k])
  PROVE  /\ \A c \in Kind : Len(answers[c]) <= Len(answers'[c])
         /\ ~Answered(k) => Len(answers[k]) = calls[k] /\ Len(answers'[k]) = calls[k] + 1
<1> DEFINE before == Len(answers[k])
           after == Len(answers'[k])
<1>1. calls[k] \in Nat /\ before \in Nat /\ calls[k] <= before
  BY DEF HandlerTypes, AnswerTypes
<1>2. after = IF calls[k] + 1 <= before THEN before ELSE calls[k] + 1
  BY KeepGrows DEF Run
<1>3. Answered(k) <=> calls[k] + 1 <= before
  BY DEF Answered, Run
<1>4. \A c \in Kind \ {k} : answers'[c] = answers[c] /\ Len(answers[c]) \in Nat
  BY KeepGrows DEF AnswerTypes
<1>5. before <= after /\ (~Answered(k) => before = calls[k] /\ after = calls[k] + 1)
  <2> HIDE DEF before, after
  <2> QED
    BY <1>1, <1>2, <1>3
<1> QED
  BY <1>4, <1>5

\* A step that pays for no redraft: who may still ask has what he had.
StillAsks ==
  \A c \in Kind : pc'[c] \notin Over =>
    pc[c] \notin Over /\ Len(answers[c]) <= Len(answers'[c])

\* Such a step keeps the redrafts accounted for.
LEMMA PaidKeep ==
  ASSUME AnswerTypes, AnswerTypes', RedraftsPaid, UNCHANGED <<newest, limit>>, StillAsks
  PROVE  RedraftsPaid'
<1>1. PICK p \in [Kind -> Nat] : PaidFor(p)
  BY DEF RedraftsPaid
<1>2. /\ newest' <= LastShell + p["brand_steward"] + p["fact_check"]
      /\ \A k \in Kind : p[k] > 0 => p[k] + 1 <= limit'.attempts
  BY <1>1 DEF PaidFor
<1>3. ASSUME NEW k \in Kind, p[k] > 0, pc'[k] \notin Over
      PROVE  3 * p[k] + 1 <= Len(answers'[k])
  <2>1. 3 * p[k] + 1 <= Len(answers[k]) /\ Len(answers[k]) <= Len(answers'[k])
    BY <1>1, <1>3 DEF PaidFor, StillAsks
  <2>2. Len(answers[k]) \in Nat /\ p[k] \in Nat
    BY DEF AnswerTypes
  <2>3. Len(answers'[k]) \in Nat
    BY DEF AnswerTypes
  <2> QED
    BY <2>1, <2>2
<1> QED
  BY <1>1, <1>2, <1>3 DEF RedraftsPaid, PaidFor

\* Every step keeps the types of what the handlers hold.
LEMMA HandlerTypesStep ==
  ASSUME HandlerTypes, SharedTypes, AnswerTypes, GivenTypes, [QaNext]_qaVars
  PROVE  HandlerTypes'
<1> USE DEF taskVars, draftVars, loopVars, planVars, lockVars, fridayVars, givenVars,
          gateVars, faultVars, StayReviewed,
          HandlerTypes, Kind, Other, Findings, HandlerSteps, Steps, NothingFound, RefSays, NoPlan,
          FirstDraft
<1>1. ASSUME NEW k \in Kind, CheckState(k) PROVE HandlerTypes'
  BY <1>1 DEF CheckState, Step
<1>2. ASSUME NEW k \in Kind, StartReview(k) PROVE HandlerTypes'
  BY <1>2 DEF StartReview, Step
<1>3. ASSUME NEW k \in Kind, LookAtDraft(k) PROVE HandlerTypes'
  <2>1. ASSUME NEW says \in {"skipped", "rejected"}, NEW card \in BOOLEAN,
               Settle(k, says, FALSE, card), UNCHANGED text
        PROVE  HandlerTypes'
    BY <2>1, SettleTypes
  <2>2. CASE Step(k, "look", "judge") /\ text' = [text EXCEPT ![k] = draft]
               /\ UNCHANGED <<planVars, found, attempt, calls>>
    BY <2>2 DEF Step, SharedTypes
  <2> QED
    BY <1>3, <2>1, <2>2 DEF LookAtDraft
<1>4. ASSUME NEW k \in Kind, Judge(k) PROVE HandlerTypes'
  <2> text' = text
    BY <1>4 DEF Judge
  <2>1. PICK finding \in Findings :
          \/ Settle(k, "passed", FALSE, FALSE) \/ Settle(k, "rejected", FALSE, TRUE)
          \/ /\ Step(k, "judge", "claim") /\ Count(k)
             /\ found' = [found EXCEPT ![k] = [NothingFound EXCEPT ![k] = finding]]
             /\ UNCHANGED <<planVars, attempt>>
    BY <1>4 DEF Judge, Judgements, Judgement
  <2>2. ASSUME NEW says \in {"passed", "rejected"}, NEW card \in BOOLEAN,
               Settle(k, says, FALSE, card)
        PROVE  HandlerTypes'
    BY <2>2, SettleTypes
  <2>3. CASE Step(k, "judge", "claim") /\ Count(k) /\ UNCHANGED <<planVars, attempt>>
               /\ found' = [found EXCEPT ![k] = [NothingFound EXCEPT ![k] = finding]]
    <3>1. [NothingFound EXCEPT ![k] = finding] \in [Kind -> Findings]
      OBVIOUS
    <3> QED
      BY <2>3, <3>1 DEF Step, Count, Run
  <2> QED
    BY <2>1, <2>2, <2>3
<1>5. ASSUME NEW k \in Kind, ClaimDraft(k) PROVE HandlerTypes'
  <2> text' = text
    BY <1>5 DEF ClaimDraft
  <2>1. CASE Settle(k, "rejected", FALSE, TRUE)
    BY <2>1, SettleTypes
  <2>2. CASE Step(k, "claim", "regenerate") /\ calls' = [calls EXCEPT ![k] = 0]
               /\ UNCHANGED <<planVars, found, attempt>>
    BY <2>2 DEF Step
  <2> QED
    BY <1>5, <2>1, <2>2 DEF ClaimDraft
<1>6. ASSUME NEW k \in Kind, Regenerate(k) PROVE HandlerTypes'
  <2>1. CASE Settle(k, "rejected", TRUE, TRUE) /\ UNCHANGED <<newest, answers, text>>
    BY <2>1, SettleTypes
  <2>2. CASE AskForRedraft(k)
    <3>1. text' \in [Kind -> Nat]
      BY <2>2, RedraftTypes DEF AskForRedraft
    <3> QED
      BY <2>2, <3>1 DEF AskForRedraft, Step, Count, Run
  <2> QED
    BY <1>6, <2>1, <2>2 DEF Regenerate
<1>7. ASSUME NEW k \in Kind, VaultRefuses(k) PROVE HandlerTypes'
  BY <1>7, ForgetTypes DEF VaultRefuses, RunAgain
<1>8. ASSUME NEW k \in Kind, InstallDraft(k) PROVE HandlerTypes'
  BY <1>8 DEF InstallDraft, Step
<1>9. ASSUME NEW k \in Kind, RecheckBrand(k) PROVE HandlerTypes'
  <2>1. PICK finding \in Findings : found' = [found EXCEPT ![k]["brand_steward"] = finding]
    BY <1>9 DEF RecheckBrand, Judgement
  <2> QED
    BY <1>9, <2>1 DEF RecheckBrand, Step, Count, Run
<1>10. ASSUME NEW k \in Kind, RecheckFacts(k) PROVE HandlerTypes'
  <2> text' = text
    BY <1>10 DEF RecheckFacts
  <2>1. PICK fact \in Findings : Conclude(k, fact)
    BY <1>10 DEF RecheckFacts, Judgement
  <2>2. CASE found[k]["brand_steward"] = "clean" /\ fact = "clean"
    BY <2>1, <2>2, SettleTypes DEF Conclude
  <2>3. CASE ~(found[k]["brand_steward"] = "clean" /\ fact = "clean")
    <3>1. calls' \in [Kind -> Nat]
      <4>1. calls' = calls \/ calls' = [calls EXCEPT ![k] = calls[k] + 1]
        BY <2>1, <2>3 DEF Conclude, Run
      <4> QED
        BY <4>1
    <3>2. found' \in [Kind -> [Kind -> Findings]]
      <4>1. found' = [found EXCEPT ![k]["fact_check"] = fact]
        BY <2>1, <2>3 DEF Conclude
      <4> QED
        BY <4>1
    <3>3. UNCHANGED <<attempt, settling, plan>>
      BY <2>1, <2>3 DEF Conclude
    <3>4. pc' \in [Kind -> Steps]
      <4>1. pc' = [pc EXCEPT ![k] = "regenerate"]
        BY <2>1, <2>3 DEF Conclude, Step
      <4> QED
        BY <4>1
    <3> QED
      BY <3>1, <3>2, <3>3, <3>4
  <2> QED
    BY <2>2, <2>3
<1>11. ASSUME NEW k \in Kind, StoreVerdict(k) PROVE HandlerTypes'
  BY <1>11 DEF StoreVerdict, Step
<1>12. ASSUME NEW k \in Kind, MoveTask(k) PROVE HandlerTypes'
  BY <1>12, AfterTaskTypes DEF MoveTask, Step
<1>13. ASSUME NEW k \in Kind, AdvanceFriday(k) PROVE HandlerTypes'
  BY <1>13, AfterTaskTypes DEF AdvanceFriday
<1>14. ASSUME NEW k \in Kind, SendCard(k) PROVE HandlerTypes'
  BY <1>14, AfterTaskTypes DEF SendCard
<1>15. ASSUME NEW k \in Kind, ReleaseDraft(k) PROVE HandlerTypes'
  BY <1>15 DEF ReleaseDraft, Step, FreeLock
<1>16. ASSUME NEW k \in Kind, Reconcile(k) PROVE HandlerTypes'
  BY <1>16 DEF Reconcile, Step
<1>17. ASSUME NEW k \in Kind, HandlerRaises(k) PROVE HandlerTypes'
  BY <1>17, ForgetTypes DEF HandlerRaises, RunAgain
<1>18. ASSUME NEW k \in Kind, WorkerCrashes(k) PROVE HandlerTypes'
  BY <1>18, ForgetTypes DEF WorkerCrashes
<1>19. ASSUME NEW k \in Kind, MessageExpires(k) PROVE HandlerTypes'
  BY <1>19 DEF MessageExpires
<1>20. ASSUME NEW k \in Kind, LoseLockSession(k) PROVE HandlerTypes'
  BY <1>20 DEF LoseLockSession, GoesWrong, Mishap
<1>21. CASE EditGatePolicy
  BY <1>21 DEF EditGatePolicy
<1>22. CASE FridayIsBlocked
  BY <1>22 DEF FridayIsBlocked
<1>23. CASE FridayStarts
  BY <1>23 DEF FridayStarts
<1>24. CASE FridayReads
  BY <1>24 DEF FridayReads
<1>25. CASE FridaySchedules
  BY <1>25 DEF FridaySchedules
<1>26. CASE UNCHANGED qaVars
  BY <1>26 DEF qaVars
<1> QED
  BY <1>1, <1>2, <1>3, <1>4, <1>5, <1>6, <1>7, <1>8, <1>9, <1>10, <1>11, <1>12, <1>13,
     <1>14, <1>15, <1>16, <1>17, <1>18, <1>19, <1>20, <1>21, <1>22, <1>23, <1>24, <1>25,
     <1>26
     DEF QaNext, ReviewStep, ReviewMishap, FridayStep

\* Every step keeps the types of the rows, the draft, its runs and its lock.
LEMMA SharedTypesStep ==
  ASSUME HandlerTypes, SharedTypes, GivenTypes, [QaNext]_qaVars
  PROVE  SharedTypes'
<1> USE DEF taskVars, draftVars, loopVars, planVars, lockVars, fridayVars, givenVars,
          gateVars, faultVars, StayReviewed,
          SharedTypes, GivenTypes, Kind, Other, NoOne, Terminal, ReviewStates
<1>1. ASSUME NEW k \in Kind, CheckState(k) PROVE SharedTypes'
  BY <1>1 DEF CheckState, Step
<1>2. ASSUME NEW k \in Kind, StartReview(k) PROVE SharedTypes'
  BY <1>2 DEF StartReview, Step
<1>3. ASSUME NEW k \in Kind, LookAtDraft(k) PROVE SharedTypes'
  BY <1>3 DEF LookAtDraft, Step
<1>4. ASSUME NEW k \in Kind, Judge(k) PROVE SharedTypes'
  <2>1. reviews' \in [Kind -> SUBSET Nat]
    BY <1>4 DEF Judge, Record, HandlerTypes
  <2>2. UNCHANGED <<state, strikes, ref, draft, newest, lock, owns>>
    BY <1>4 DEF Judge
  <2> QED
    BY <2>1, <2>2
<1>5. ASSUME NEW k \in Kind, ClaimDraft(k) PROVE SharedTypes'
  <2>1. lock' \in Kind \cup {NoOne} /\ owns' \in [Kind -> BOOLEAN]
    <3>1. CASE lock = NoOne
      BY ZenonT(40), <1>5, <3>1 DEF ClaimDraft, Step
    <3>2. CASE lock # NoOne
      <4>1. UNCHANGED <<lock, owns>>
        BY <1>5, <3>2 DEF ClaimDraft
      <4> QED
        BY <4>1
    <3> QED
      BY <3>1, <3>2
  <2>2. UNCHANGED <<state, strikes, ref, draft, newest, reviews>>
    BY <1>5 DEF ClaimDraft
  <2> QED
    BY <2>1, <2>2
<1>6. ASSUME NEW k \in Kind, Regenerate(k) PROVE SharedTypes'
  <2>1. newest' \in Nat
    <3>1. newest' = newest \/ newest' = newest + 1
      BY <1>6 DEF Regenerate, AskForRedraft
    <3> QED
      BY <3>1
  <2>2. UNCHANGED <<state, strikes, ref, draft, reviews, lock, owns>>
    BY <1>6 DEF Regenerate
  <2> QED
    BY <2>1, <2>2
<1>7. ASSUME NEW k \in Kind, VaultRefuses(k) PROVE SharedTypes'
  BY <1>7, RecordFailureTypes DEF VaultRefuses, RunAgain, FreeLock
<1>8. ASSUME NEW k \in Kind, InstallDraft(k) PROVE SharedTypes'
  <2>1. draft' \in Nat
    BY <1>8 DEF InstallDraft, HandlerTypes
  <2>2. UNCHANGED <<state, strikes, ref, newest, reviews, lock, owns>>
    BY <1>8 DEF InstallDraft
  <2> QED
    BY <2>1, <2>2
<1>9. ASSUME NEW k \in Kind, RecheckBrand(k) PROVE SharedTypes'
  <2>1. reviews' \in [Kind -> SUBSET Nat]
    BY <1>9 DEF RecheckBrand, Record, HandlerTypes
  <2>2. UNCHANGED <<state, strikes, ref, draft, newest, lock, owns>>
    BY <1>9 DEF RecheckBrand
  <2> QED
    BY <2>1, <2>2
<1>10. ASSUME NEW k \in Kind, RecheckFacts(k) PROVE SharedTypes'
  <2>1. reviews' \in [Kind -> SUBSET Nat]
    BY <1>10 DEF RecheckFacts, Record, HandlerTypes
  <2>2. UNCHANGED <<state, strikes, ref, draft, newest, lock, owns>>
    BY <1>10 DEF RecheckFacts
  <2> QED
    BY <2>1, <2>2
<1>11. ASSUME NEW k \in Kind, StoreVerdict(k) PROVE SharedTypes'
  BY <1>11 DEF StoreVerdict, Step, HandlerTypes
<1>12. ASSUME NEW k \in Kind, MoveTask(k) PROVE SharedTypes'
  BY <1>12 DEF MoveTask, Step, AfterTask, Leave
<1>13. ASSUME NEW k \in Kind, AdvanceFriday(k) PROVE SharedTypes'
  BY <1>13 DEF AdvanceFriday, AfterTask, Leave
<1>14. ASSUME NEW k \in Kind, SendCard(k) PROVE SharedTypes'
  BY <1>14 DEF SendCard, Leave
<1>15. ASSUME NEW k \in Kind, ReleaseDraft(k) PROVE SharedTypes'
  BY <1>15 DEF ReleaseDraft, Step, FreeLock
<1>16. ASSUME NEW k \in Kind, Reconcile(k) PROVE SharedTypes'
  BY <1>16, RecordFailureTypes DEF Reconcile, Step
<1>17. ASSUME NEW k \in Kind, HandlerRaises(k) PROVE SharedTypes'
  BY <1>17, RecordFailureTypes DEF HandlerRaises, RunAgain, FreeLock
<1>18. ASSUME NEW k \in Kind, WorkerCrashes(k) PROVE SharedTypes'
  BY <1>18 DEF WorkerCrashes, FreeLock
<1>19. ASSUME NEW k \in Kind, MessageExpires(k) PROVE SharedTypes'
  BY <1>19, RecordFailureTypes DEF MessageExpires
<1>20. ASSUME NEW k \in Kind, LoseLockSession(k) PROVE SharedTypes'
  BY <1>20 DEF LoseLockSession, GoesWrong, Mishap
<1>21. CASE EditGatePolicy
  BY <1>21 DEF EditGatePolicy
<1>22. CASE FridayIsBlocked
  BY <1>22 DEF FridayIsBlocked
<1>23. CASE FridayStarts
  BY <1>23 DEF FridayStarts
<1>24. CASE FridayReads
  BY <1>24 DEF FridayReads
<1>25. CASE FridaySchedules
  BY <1>25 DEF FridaySchedules
<1>26. CASE UNCHANGED qaVars
  BY <1>26 DEF qaVars
<1> QED
  BY <1>1, <1>2, <1>3, <1>4, <1>5, <1>6, <1>7, <1>8, <1>9, <1>10, <1>11, <1>12, <1>13,
     <1>14, <1>15, <1>16, <1>17, <1>18, <1>19, <1>20, <1>21, <1>22, <1>23, <1>24, <1>25,
     <1>26
     DEF QaNext, ReviewStep, ReviewMishap, FridayStep

\* Every step keeps the types of the stored answers.
LEMMA AnswerTypesStep ==
  ASSUME HandlerTypes, SharedTypes, AnswerTypes, GivenTypes, [QaNext]_qaVars
  PROVE  AnswerTypes'
<1> USE DEF taskVars, draftVars, loopVars, planVars, lockVars, fridayVars, givenVars,
          gateVars, faultVars, StayReviewed,
          Kind
<1>1. ASSUME NEW k \in Kind, CheckState(k) PROVE AnswerTypes'
  BY <1>1 DEF CheckState, AnswerTypes
<1>2. ASSUME NEW k \in Kind, StartReview(k) PROVE AnswerTypes'
  BY <1>2 DEF StartReview, AnswerTypes
<1>3. ASSUME NEW k \in Kind, LookAtDraft(k) PROVE AnswerTypes'
  BY <1>3 DEF LookAtDraft, AnswerTypes
<1>4. ASSUME NEW k \in Kind, Judge(k) PROVE AnswerTypes'
  <2>1. text[k] \in Nat
    BY DEF HandlerTypes
  <2> QED
    BY <1>4, <2>1, VerdictTypes, KeepTypes DEF Judge
<1>5. ASSUME NEW k \in Kind, ClaimDraft(k) PROVE AnswerTypes'
  BY <1>5 DEF ClaimDraft, AnswerTypes
<1>6. ASSUME NEW k \in Kind, Regenerate(k) PROVE AnswerTypes'
  <2>1. CASE answers' = answers
    BY <2>1 DEF AnswerTypes
  <2>2. CASE Keep(k, Redraft(k))
    BY <2>2, RedraftTypes, KeepTypes
  <2> QED
    BY <1>6, <2>1, <2>2 DEF Regenerate, AskForRedraft
<1>7. ASSUME NEW k \in Kind, VaultRefuses(k) PROVE AnswerTypes'
  BY <1>7 DEF VaultRefuses, AnswerTypes
<1>8. ASSUME NEW k \in Kind, InstallDraft(k) PROVE AnswerTypes'
  BY <1>8 DEF InstallDraft, AnswerTypes
<1>9. ASSUME NEW k \in Kind, RecheckBrand(k) PROVE AnswerTypes'
  <2>1. text[k] \in Nat
    BY DEF HandlerTypes
  <2> QED
    BY <1>9, <2>1, VerdictTypes, KeepTypes DEF RecheckBrand
<1>10. ASSUME NEW k \in Kind, RecheckFacts(k) PROVE AnswerTypes'
  <2>1. text[k] \in Nat
    BY DEF HandlerTypes
  <2>2. CASE answers' = answers
    BY <2>2 DEF AnswerTypes
  <2>3. CASE \E given \in VerdictsOn(k, text[k]) : Keep(k, AsCodes(given))
    BY <2>1, <2>3, VerdictTypes, KeepTypes
  <2> QED
    BY <1>10, <2>2, <2>3 DEF RecheckFacts
<1>11. ASSUME NEW k \in Kind, StoreVerdict(k) PROVE AnswerTypes'
  BY <1>11 DEF StoreVerdict, AnswerTypes
<1>12. ASSUME NEW k \in Kind, MoveTask(k) PROVE AnswerTypes'
  BY <1>12, LeaveTypes DEF MoveTask
<1>13. ASSUME NEW k \in Kind, AdvanceFriday(k) PROVE AnswerTypes'
  BY <1>13, LeaveTypes DEF AdvanceFriday
<1>14. ASSUME NEW k \in Kind, SendCard(k) PROVE AnswerTypes'
  BY <1>14, LeaveTypes DEF SendCard
<1>15. ASSUME NEW k \in Kind, ReleaseDraft(k) PROVE AnswerTypes'
  BY <1>15 DEF ReleaseDraft, AnswerTypes
<1>16. ASSUME NEW k \in Kind, Reconcile(k) PROVE AnswerTypes'
  BY <1>16 DEF Reconcile, AnswerTypes
<1>17. ASSUME NEW k \in Kind, HandlerRaises(k) PROVE AnswerTypes'
  BY <1>17 DEF HandlerRaises, AnswerTypes
<1>18. ASSUME NEW k \in Kind, WorkerCrashes(k) PROVE AnswerTypes'
  BY <1>18 DEF WorkerCrashes, AnswerTypes
<1>19. ASSUME NEW k \in Kind, MessageExpires(k) PROVE AnswerTypes'
  BY <1>19 DEF MessageExpires, AnswerTypes
<1>20. ASSUME NEW k \in Kind, LoseLockSession(k) PROVE AnswerTypes'
  BY <1>20 DEF LoseLockSession, AnswerTypes
<1>21. CASE EditGatePolicy
  BY <1>21 DEF EditGatePolicy, AnswerTypes
<1>22. CASE FridayIsBlocked
  BY <1>22 DEF FridayIsBlocked, AnswerTypes
<1>23. CASE FridayStarts
  BY <1>23 DEF FridayStarts, AnswerTypes
<1>24. CASE FridayReads
  BY <1>24 DEF FridayReads, AnswerTypes
<1>25. CASE FridaySchedules
  BY <1>25 DEF FridaySchedules, AnswerTypes
<1>26. CASE UNCHANGED qaVars
  BY <1>26 DEF qaVars, AnswerTypes
<1> QED
  BY <1>1, <1>2, <1>3, <1>4, <1>5, <1>6, <1>7, <1>8, <1>9, <1>10, <1>11, <1>12, <1>13,
     <1>14, <1>15, <1>16, <1>17, <1>18, <1>19, <1>20, <1>21, <1>22, <1>23, <1>24, <1>25,
     <1>26
     DEF QaNext, ReviewStep, ReviewMishap, FridayStep

\* Every step keeps the types of what is given, of the cards and of Friday.
LEMMA GivenTypesStep ==
  ASSUME SharedTypes, GivenTypes, [QaNext]_qaVars
  PROVE  GivenTypes'
<1> USE DEF taskVars, draftVars, loopVars, planVars, lockVars, fridayVars, givenVars,
          gateVars, faultVars, StayReviewed,
          GivenTypes, SharedTypes, Kind, Terminal, DeadLetterStrike
<1>1. ASSUME NEW k \in Kind, CheckState(k) PROVE GivenTypes'
  BY <1>1 DEF CheckState, Step
<1>2. ASSUME NEW k \in Kind, StartReview(k) PROVE GivenTypes'
  BY <1>2 DEF StartReview, Step
<1>3. ASSUME NEW k \in Kind, LookAtDraft(k) PROVE GivenTypes'
  BY <1>3 DEF LookAtDraft, Step
<1>4. ASSUME NEW k \in Kind, Judge(k) PROVE GivenTypes'
  BY <1>4 DEF Judge, Step
<1>5. ASSUME NEW k \in Kind, ClaimDraft(k) PROVE GivenTypes'
  BY <1>5 DEF ClaimDraft, Step
<1>6. ASSUME NEW k \in Kind, Regenerate(k) PROVE GivenTypes'
  BY <1>6 DEF Regenerate, Step
<1>7. ASSUME NEW k \in Kind, VaultRefuses(k) PROVE GivenTypes'
  BY <1>7, RecordFailureTypes DEF VaultRefuses, RunAgain, FreeLock
<1>8. ASSUME NEW k \in Kind, InstallDraft(k) PROVE GivenTypes'
  BY <1>8 DEF InstallDraft, Step
<1>9. ASSUME NEW k \in Kind, RecheckBrand(k) PROVE GivenTypes'
  BY <1>9 DEF RecheckBrand, Step
<1>10. ASSUME NEW k \in Kind, RecheckFacts(k) PROVE GivenTypes'
  BY <1>10 DEF RecheckFacts
<1>11. ASSUME NEW k \in Kind, StoreVerdict(k) PROVE GivenTypes'
  BY <1>11 DEF StoreVerdict, Step
<1>12. ASSUME NEW k \in Kind, MoveTask(k) PROVE GivenTypes'
  BY <1>12 DEF MoveTask, Step, AfterTask, Leave
<1>13. ASSUME NEW k \in Kind, AdvanceFriday(k) PROVE GivenTypes'
  BY <1>13 DEF AdvanceFriday, AfterTask, Leave
<1>14. ASSUME NEW k \in Kind, SendCard(k) PROVE GivenTypes'
  BY <1>14 DEF SendCard, Leave
<1>15. ASSUME NEW k \in Kind, ReleaseDraft(k) PROVE GivenTypes'
  BY <1>15 DEF ReleaseDraft, Step, FreeLock
<1>16. ASSUME NEW k \in Kind, Reconcile(k) PROVE GivenTypes'
  BY <1>16, RecordFailureTypes DEF Reconcile, Step
<1>17. ASSUME NEW k \in Kind, HandlerRaises(k) PROVE GivenTypes'
  BY <1>17, RecordFailureTypes DEF HandlerRaises, RunAgain, FreeLock, GoesWrong, Mishap
<1>18. ASSUME NEW k \in Kind, WorkerCrashes(k) PROVE GivenTypes'
  BY <1>18 DEF WorkerCrashes, FreeLock, GoesWrong, Mishap
<1>19. ASSUME NEW k \in Kind, MessageExpires(k) PROVE GivenTypes'
  BY <1>19, RecordFailureTypes DEF MessageExpires, GoesWrong, Mishap
<1>20. ASSUME NEW k \in Kind, LoseLockSession(k) PROVE GivenTypes'
  BY <1>20 DEF LoseLockSession, GoesWrong, Mishap
<1>21. CASE EditGatePolicy
  BY <1>21 DEF EditGatePolicy
<1>22. CASE FridayIsBlocked
  BY <1>22 DEF FridayIsBlocked
<1>23. CASE FridayStarts
  BY <1>23 DEF FridayStarts
<1>24. CASE FridayReads
  <2>1. FridaySees.of \in Nat
    BY DEF FridaySees
  <2>2. fridayHas' \in Nat /\ fridayStrikes' \in Nat
    BY <1>24, <2>1 DEF FridayReads
  <2>3. friday' \in {friday, "completed", "retry_pending", "dead_lettered"} /\ carded' \in
     BOOLEAN
    BY <1>24 DEF FridayReads
  <2>4. UNCHANGED <<drafted, recipe, limit, gate, flips, expired, sessionLost, reran, scheduled,
                    mishaps>>
    BY <1>24 DEF FridayReads
  <2> QED
    BY <2>2, <2>3, <2>4
<1>25. CASE FridaySchedules
  BY <1>25 DEF FridaySchedules
<1>26. CASE UNCHANGED qaVars
  BY <1>26 DEF qaVars
<1> QED
  BY <1>1, <1>2, <1>3, <1>4, <1>5, <1>6, <1>7, <1>8, <1>9, <1>10, <1>11, <1>12, <1>13,
     <1>14, <1>15, <1>16, <1>17, <1>18, <1>19, <1>20, <1>21, <1>22, <1>23, <1>24, <1>25,
     <1>26
     DEF QaNext, ReviewStep, ReviewMishap, FridayStep

\* Every step keeps every type.
LEMMA TypesStep ==
  ASSUME QaTypeOK, [QaNext]_qaVars
  PROVE  QaTypeOK'
<1>1. HandlerTypes /\ SharedTypes /\ AnswerTypes /\ GivenTypes
  BY TypeParts
<1>2. HandlerTypes' /\ SharedTypes' /\ AnswerTypes' /\ GivenTypes'
  BY <1>1, HandlerTypesStep, SharedTypesStep, AnswerTypesStep, GivenTypesStep
<1> QED
  BY <1>2, TypeParts DEF QaTypeOK, HandlerTypes, SharedTypes, AnswerTypes, GivenTypes

\* The ordinals of the loop count three agent runs an attempt.
LEMMA CallsStep ==
  ASSUME HandlerTypes, GivenTypes, CallsInOrder, [QaNext]_qaVars
  PROVE  CallsInOrder'
<1> USE DEF taskVars, draftVars, loopVars, planVars, lockVars, fridayVars, givenVars,
          gateVars, faultVars, StayReviewed,
          HandlerTypes, GivenTypes, Bounds, CallsInOrder, BeforeLoop, Kind, Other, HandlerSteps,
          NeverRetryable
<1>1. ASSUME NEW k \in Kind, CheckState(k) PROVE CallsInOrder'
  BY <1>1 DEF CheckState, Step
<1>2. ASSUME NEW k \in Kind, StartReview(k) PROVE CallsInOrder'
  BY <1>2 DEF StartReview, Step
<1>3. ASSUME NEW k \in Kind, LookAtDraft(k) PROVE CallsInOrder'
  BY <1>3 DEF LookAtDraft, Step, Settle
<1>4. ASSUME NEW k \in Kind, Judge(k) PROVE CallsInOrder'
  <2>1. CASE \E says \in RefSays, card \in BOOLEAN : Settle(k, says, FALSE, card)
    BY <1>4, <2>1 DEF Judge, Settle
  <2>2. CASE Step(k, "judge", "claim") /\ Count(k) /\ UNCHANGED attempt
    <3>1. UNCHANGED limit
      BY <1>4 DEF Judge
    <3>2. \A c \in Kind \ {k} : found'[c] = found[c]
      BY <1>4 DEF Judge, Settle
    <3> QED
      BY <2>2, <3>1, <3>2 DEF Step, Count
  <2> QED
    BY <1>4, <2>1, <2>2 DEF Judge, RefSays
<1>5. ASSUME NEW k \in Kind, ClaimDraft(k) PROVE CallsInOrder'
  BY <1>5 DEF ClaimDraft, Step, Settle
<1>6. ASSUME NEW k \in Kind, Regenerate(k) PROVE CallsInOrder'
  BY <1>6 DEF Regenerate, Step, Settle, AskForRedraft, Count, Run, GivesUp
<1>7. ASSUME NEW k \in Kind, VaultRefuses(k) PROVE CallsInOrder'
  BY <1>7 DEF VaultRefuses, RunAgain, Forget, RecordFailure, FreeLock
<1>8. ASSUME NEW k \in Kind, InstallDraft(k) PROVE CallsInOrder'
  BY <1>8 DEF InstallDraft, Step
<1>9. ASSUME NEW k \in Kind, RecheckBrand(k) PROVE CallsInOrder'
  BY <1>9 DEF RecheckBrand, Step, Count, Run
<1>10. ASSUME NEW k \in Kind, RecheckFacts(k) PROVE CallsInOrder'
  BY <1>10 DEF RecheckFacts, Step, Settle, Conclude, Run
<1>11. ASSUME NEW k \in Kind, StoreVerdict(k) PROVE CallsInOrder'
  BY <1>11 DEF StoreVerdict, Step
<1>12. ASSUME NEW k \in Kind, MoveTask(k) PROVE CallsInOrder'
  <2>1. pc'[k] \in {"store", "card", "release", "done", "advance"}
    BY <1>12 DEF MoveTask, Step, AfterTask, Leave
  <2>2. \A c \in Kind \ {k} : pc'[c] = pc[c]
    BY <1>12 DEF MoveTask, Step, AfterTask, Leave
  <2>3. UNCHANGED <<attempt, calls, found, limit>>
    BY <1>12 DEF MoveTask
  <2> QED
    BY <2>1, <2>2, <2>3
<1>13. ASSUME NEW k \in Kind, AdvanceFriday(k) PROVE CallsInOrder'
  <2>1. pc'[k] \in {"store", "card", "release", "done", "advance"}
    BY <1>13 DEF AdvanceFriday, Step, AfterTask, Leave
  <2>2. \A c \in Kind \ {k} : pc'[c] = pc[c]
    BY <1>13 DEF AdvanceFriday, Step, AfterTask, Leave
  <2>3. UNCHANGED <<attempt, calls, found, limit>>
    BY <1>13 DEF AdvanceFriday
  <2> QED
    BY <2>1, <2>2, <2>3
<1>14. ASSUME NEW k \in Kind, SendCard(k) PROVE CallsInOrder'
  <2>1. pc'[k] \in {"store", "card", "release", "done", "advance"}
    BY <1>14 DEF SendCard, Step, AfterTask, Leave
  <2>2. \A c \in Kind \ {k} : pc'[c] = pc[c]
    BY <1>14 DEF SendCard, Step, AfterTask, Leave
  <2>3. UNCHANGED <<attempt, calls, found, limit>>
    BY <1>14 DEF SendCard
  <2> QED
    BY <2>1, <2>2, <2>3
<1>15. ASSUME NEW k \in Kind, ReleaseDraft(k) PROVE CallsInOrder'
  BY <1>15 DEF ReleaseDraft, Step, FreeLock
<1>16. ASSUME NEW k \in Kind, Reconcile(k) PROVE CallsInOrder'
  BY <1>16 DEF Reconcile, Step, RecordFailure
<1>17. ASSUME NEW k \in Kind, HandlerRaises(k) PROVE CallsInOrder'
  BY <1>17 DEF HandlerRaises, RunAgain, Forget, RecordFailure, FreeLock, GoesWrong, Mishap
<1>18. ASSUME NEW k \in Kind, WorkerCrashes(k) PROVE CallsInOrder'
  BY <1>18 DEF WorkerCrashes, FreeLock, Forget, GoesWrong, Mishap
<1>19. ASSUME NEW k \in Kind, MessageExpires(k) PROVE CallsInOrder'
  BY <1>19 DEF MessageExpires, RecordFailure, GoesWrong, Mishap
<1>20. ASSUME NEW k \in Kind, LoseLockSession(k) PROVE CallsInOrder'
  BY <1>20 DEF LoseLockSession, GoesWrong, Mishap
<1>21. CASE EditGatePolicy
  BY <1>21 DEF EditGatePolicy
<1>22. CASE FridayIsBlocked
  BY <1>22 DEF FridayIsBlocked
<1>23. CASE FridayStarts
  BY <1>23 DEF FridayStarts
<1>24. CASE FridayReads
  BY <1>24 DEF FridayReads
<1>25. CASE FridaySchedules
  BY <1>25 DEF FridaySchedules
<1>26. CASE UNCHANGED qaVars
  BY <1>26 DEF qaVars
<1> QED
  BY <1>1, <1>2, <1>3, <1>4, <1>5, <1>6, <1>7, <1>8, <1>9, <1>10, <1>11, <1>12, <1>13,
     <1>14, <1>15, <1>16, <1>17, <1>18, <1>19, <1>20, <1>21, <1>22, <1>23, <1>24, <1>25,
     <1>26, ZenonT(40)
     DEF QaNext, ReviewStep, ReviewMishap, FridayStep

\* What has been asked for is stored.
LEMMA CoverStep ==
  ASSUME HandlerTypes, GivenTypes, SharedTypes, AnswerTypes, CallsInOrder, AnswersCover,
         [QaNext]_qaVars
  PROVE  AnswersCover'
<1> USE DEF taskVars, draftVars, loopVars, planVars, lockVars, fridayVars, givenVars,
          gateVars, faultVars, StayReviewed,
          HandlerTypes, CallsInOrder, AnswersCover, BeforeLoop, Kind, Other, HandlerSteps
<1>1. ASSUME NEW k \in Kind, CheckState(k) PROVE AnswersCover'
  BY <1>1 DEF CheckState, Step
<1>2. ASSUME NEW k \in Kind, StartReview(k) PROVE AnswersCover'
  BY <1>2 DEF StartReview, Step
<1>3. ASSUME NEW k \in Kind, LookAtDraft(k) PROVE AnswersCover'
  BY <1>3 DEF LookAtDraft, Step, Settle
<1>4. ASSUME NEW k \in Kind, Judge(k) PROVE AnswersCover'
  <2>1. PICK answer \in Answers : Keep(k, answer)
    <3>1. text[k] \in Nat
      OBVIOUS
    <3> QED
      BY <1>4, <3>1, VerdictTypes DEF Judge
  <2>2. calls[k] = 0 /\ Len(answers[k]) \in Nat
    BY <1>4 DEF Judge, AnswerTypes
  <2>3. \A c \in Kind \ {k} : answers'[c] = answers[c]
    BY <2>1, <2>2, KeepGrows
  <2>4. 1 <= Len(answers'[k])
    BY <2>1, <2>2, KeepGrows DEF Run
  <2>5. pc' = [pc EXCEPT ![k] = "store"] \/ pc' = [pc EXCEPT ![k] = "claim"]
    BY <1>4 DEF Judge, Settle, Step
  <2>6. \A c \in Kind \ {k} : calls'[c] = calls[c]
    BY <1>4 DEF Judge, Settle, Count
  <2>7. UNCHANGED reran
    BY <1>4 DEF Judge
  <2> QED
    BY <2>3, <2>4, <2>5, <2>6, <2>7
<1>5. ASSUME NEW k \in Kind, ClaimDraft(k) PROVE AnswersCover'
  BY <1>5 DEF ClaimDraft, Step, Settle
<1>6. ASSUME NEW k \in Kind, Regenerate(k) PROVE AnswersCover'
  <2>1. CASE Settle(k, "rejected", TRUE, TRUE) /\ UNCHANGED answers
    BY <1>6, <2>1 DEF Regenerate, Settle
  <2>2. CASE AskForRedraft(k)
    <3>1. calls[k] <= Len(answers[k]) /\ 1 <= Len(answers[k])
      BY <1>6 DEF Regenerate
    <3>2. Keep(k, Redraft(k)) /\ Redraft(k) \in Answers
      BY <2>2, RedraftTypes DEF AskForRedraft
    <3>3. \A c \in Kind \ {k} : answers'[c] = answers[c]
      BY <3>1, <3>2, KeepGrows
    <3>4. 1 <= Len(answers'[k]) /\ calls[k] + 1 <= Len(answers'[k])
      BY <3>1, <3>2, KeepGrows DEF Run
    <3>5. UNCHANGED reran
      BY <1>6 DEF Regenerate
    <3> QED
      BY <2>2, <3>3, <3>4, <3>5 DEF AskForRedraft, Step, Count, Run
  <2> QED
    BY <1>6, <2>1, <2>2 DEF Regenerate
<1>7. ASSUME NEW k \in Kind, VaultRefuses(k) PROVE AnswersCover'
  BY <1>7 DEF VaultRefuses, RunAgain, Forget, RecordFailure, FreeLock
<1>8. ASSUME NEW k \in Kind, InstallDraft(k) PROVE AnswersCover'
  BY <1>8 DEF InstallDraft, Step
<1>9. ASSUME NEW k \in Kind, RecheckBrand(k) PROVE AnswersCover'
  <2>1. PICK answer \in Answers : Keep(k, answer)
    <3>1. text[k] \in Nat
      OBVIOUS
    <3> QED
      BY <1>9, <3>1, VerdictTypes DEF RecheckBrand
  <2>2. calls[k] <= Len(answers[k]) /\ 1 <= Len(answers[k])
    BY <1>9 DEF RecheckBrand, Step
  <2>3. \A c \in Kind \ {k} : answers'[c] = answers[c]
    BY <2>1, <2>2, KeepGrows
  <2>4. 1 <= Len(answers'[k]) /\ calls[k] + 1 <= Len(answers'[k])
    BY <2>1, <2>2, KeepGrows DEF Run
  <2> QED
    BY <1>9, <2>3, <2>4 DEF RecheckBrand, Step, Count, Run
<1>10. ASSUME NEW k \in Kind, RecheckFacts(k) PROVE AnswersCover'
  <2>1. calls[k] <= Len(answers[k]) /\ 1 <= Len(answers[k])
    BY <1>10 DEF RecheckFacts
  <2>2. \A c \in Kind \ {k} : pc'[c] = pc[c] /\ calls'[c] = calls[c]
    BY <1>10 DEF RecheckFacts, Conclude, Settle, Step
  <2>3. UNCHANGED reran
    BY <1>10 DEF RecheckFacts
  <2>4. CASE ~gate
    <3>1. UNCHANGED answers /\ pc'[k] = "regenerate" /\ calls'[k] = calls[k]
      BY <1>10, <2>4 DEF RecheckFacts, Conclude, Step
    <3> QED
      BY <2>1, <2>2, <2>3, <3>1
  <2>5. CASE gate
    <3>1. PICK answer \in Answers : Keep(k, answer)
      <4>1. text[k] \in Nat
        OBVIOUS
      <4> QED
        BY <1>10, <2>5, <4>1, VerdictTypes DEF RecheckFacts
    <3>2. \A c \in Kind \ {k} : answers'[c] = answers[c]
      BY <2>1, <3>1, KeepGrows
    <3>3. 1 <= Len(answers'[k]) /\ calls[k] + 1 <= Len(answers'[k])
      BY <2>1, <3>1, KeepGrows DEF Run
    <3>4. pc'[k] \in {"store", "regenerate"} /\ calls'[k] \in {0, calls[k], calls[k] + 1}
      BY <1>10 DEF RecheckFacts, Conclude, Settle, Step, Run
    <3> QED
      BY <2>2, <2>3, <3>2, <3>3, <3>4
  <2> QED
    BY <2>4, <2>5
<1>11. ASSUME NEW k \in Kind, StoreVerdict(k) PROVE AnswersCover'
  BY <1>11 DEF StoreVerdict, Step
<1>12. ASSUME NEW k \in Kind, MoveTask(k) PROVE AnswersCover'
  <2>1. pc'[k] \in {"store", "card", "release", "done", "advance"}
    BY <1>12, AfterLoop DEF MoveTask, Step, HandlerTypes
  <2>2. \A c \in Kind \ {k} : pc'[c] = pc[c] /\ answers'[c] = answers[c] /\ text'[c] = text[c]
    BY <1>12, AfterLoop DEF MoveTask, Step, HandlerTypes
  <2>3. UNCHANGED <<attempt, calls, found, reran>>
    BY <1>12 DEF MoveTask
  <2> QED
    BY <2>1, <2>2, <2>3
<1>13. ASSUME NEW k \in Kind, AdvanceFriday(k) PROVE AnswersCover'
  <2>1. pc'[k] \in {"store", "card", "release", "done", "advance"}
    BY <1>13, AfterLoop DEF AdvanceFriday, Step, HandlerTypes
  <2>2. \A c \in Kind \ {k} : pc'[c] = pc[c] /\ answers'[c] = answers[c] /\ text'[c] = text[c]
    BY <1>13, AfterLoop DEF AdvanceFriday, Step, HandlerTypes
  <2>3. UNCHANGED <<attempt, calls, found, reran>>
    BY <1>13 DEF AdvanceFriday
  <2> QED
    BY <2>1, <2>2, <2>3
<1>14. ASSUME NEW k \in Kind, SendCard(k) PROVE AnswersCover'
  <2>1. pc'[k] \in {"store", "card", "release", "done", "advance"}
    BY <1>14, AfterLoop DEF SendCard, Step, HandlerTypes
  <2>2. \A c \in Kind \ {k} : pc'[c] = pc[c] /\ answers'[c] = answers[c] /\ text'[c] = text[c]
    BY <1>14, AfterLoop DEF SendCard, Step, HandlerTypes
  <2>3. UNCHANGED <<attempt, calls, found, reran>>
    BY <1>14 DEF SendCard
  <2> QED
    BY <2>1, <2>2, <2>3
<1>15. ASSUME NEW k \in Kind, ReleaseDraft(k) PROVE AnswersCover'
  BY <1>15 DEF ReleaseDraft, Step, FreeLock
<1>16. ASSUME NEW k \in Kind, Reconcile(k) PROVE AnswersCover'
  BY <1>16 DEF Reconcile, Step, RecordFailure
<1>17. ASSUME NEW k \in Kind, HandlerRaises(k) PROVE AnswersCover'
  BY <1>17 DEF HandlerRaises, RunAgain, Forget, RecordFailure, FreeLock, GoesWrong, Mishap
<1>18. ASSUME NEW k \in Kind, WorkerCrashes(k) PROVE AnswersCover'
  BY <1>18 DEF WorkerCrashes, FreeLock, Forget, GoesWrong, Mishap
<1>19. ASSUME NEW k \in Kind, MessageExpires(k) PROVE AnswersCover'
  BY <1>19 DEF MessageExpires, RecordFailure, GoesWrong, Mishap
<1>20. ASSUME NEW k \in Kind, LoseLockSession(k) PROVE AnswersCover'
  BY <1>20 DEF LoseLockSession, GoesWrong, Mishap
<1>21. CASE EditGatePolicy
  BY <1>21 DEF EditGatePolicy
<1>22. CASE FridayIsBlocked
  BY <1>22 DEF FridayIsBlocked
<1>23. CASE FridayStarts
  BY <1>23 DEF FridayStarts
<1>24. CASE FridayReads
  BY <1>24 DEF FridayReads
<1>25. CASE FridaySchedules
  BY <1>25 DEF FridaySchedules
<1>26. CASE UNCHANGED qaVars
  BY <1>26 DEF qaVars
<1> QED
  BY <1>1, <1>2, <1>3, <1>4, <1>5, <1>6, <1>7, <1>8, <1>9, <1>10, <1>11, <1>12, <1>13,
     <1>14, <1>15, <1>16, <1>17, <1>18, <1>19, <1>20, <1>21, <1>22, <1>23, <1>24, <1>25,
     <1>26
     DEF QaNext, ReviewStep, ReviewMishap, FridayStep

\* A verdict is stored behind the redraft whose text it is on.
LEMMA RoundsStep ==
  ASSUME HandlerTypes, GivenTypes, SharedTypes, AnswerTypes, CallsInOrder,
         AnswersCover, TextRendered, RoundsMatch, [QaNext]_qaVars
  PROVE  RoundsMatch'
<1> USE DEF taskVars, draftVars, loopVars, planVars, lockVars, fridayVars, givenVars,
          gateVars, faultVars, StayReviewed,
          Kind
<1>1. ASSUME NEW k \in Kind, CheckState(k) PROVE RoundsMatch'
  BY <1>1, RoundsKeep DEF CheckState
<1>2. ASSUME NEW k \in Kind, StartReview(k) PROVE RoundsMatch'
  BY <1>2, RoundsKeep DEF StartReview
<1>3. ASSUME NEW k \in Kind, LookAtDraft(k) PROVE RoundsMatch'
  BY <1>3, RoundsKeep DEF LookAtDraft
<1>4. ASSUME NEW k \in Kind, Judge(k) PROVE RoundsMatch'
  <2>1. calls[k] = 0 /\ text[k] \in Nat
    BY <1>4 DEF Judge, CallsInOrder, BeforeLoop, HandlerTypes
  <2>2. PICK answer \in Answers : Keep(k, answer)
    BY <1>4, <2>1, VerdictTypes DEF Judge
  <2>3. calls[k] <= Len(answers[k])
    BY <2>1 DEF AnswerTypes
  <2>4. \A a \in Nat : Run(k) \notin {3 * a + 2, 3 * a + 3}
    BY <2>1 DEF Run
  <2> QED
    BY <2>2, <2>3, <2>4, RoundsGrow
<1>5. ASSUME NEW k \in Kind, ClaimDraft(k) PROVE RoundsMatch'
  BY <1>5, RoundsKeep DEF ClaimDraft
<1>6. ASSUME NEW k \in Kind, Regenerate(k) PROVE RoundsMatch'
  <2>1. CASE answers' = answers
    BY <2>1, RoundsKeep
  <2>2. CASE AskForRedraft(k) /\ ~GivesUp(k)
    <3>1. Keep(k, Redraft(k)) /\ Redraft(k) \in Answers
      BY <2>2, RedraftTypes DEF AskForRedraft
    <3>2. calls[k] <= Len(answers[k]) /\ calls[k] = 3 * attempt[k] /\ attempt[k] \in Nat
      BY <1>6, <2>2 DEF Regenerate, AnswersCover, CallsInOrder, GivesUp, HandlerTypes
    <3>3. \A a \in Nat : Run(k) \notin {3 * a + 2, 3 * a + 3}
      BY <3>2 DEF Run
    <3> QED
      BY <3>1, <3>2, <3>3, RoundsGrow
  <2> QED
    BY <1>6, <2>1, <2>2 DEF Regenerate
<1>7. ASSUME NEW k \in Kind, VaultRefuses(k) PROVE RoundsMatch'
  BY <1>7, RoundsKeep DEF VaultRefuses
<1>8. ASSUME NEW k \in Kind, InstallDraft(k) PROVE RoundsMatch'
  BY <1>8, RoundsKeep DEF InstallDraft
<1>9. ASSUME NEW k \in Kind, RecheckBrand(k) PROVE RoundsMatch'
  <2>1. text[k] \in Nat
    BY DEF HandlerTypes
  <2>2. PICK given \in VerdictsOn(k, text[k]) : Keep(k, AsCodes(given))
    BY <1>9 DEF RecheckBrand
  <2>3. AsCodes(given) \in Answers /\ AsCodes(given).of = given.of
    BY <2>1, VerdictTypes
  <2>4. /\ calls[k] <= Len(answers[k]) /\ calls[k] + 2 = 3 * attempt[k]
        /\ calls[k] \in Nat /\ attempt[k] \in Nat /\ Len(answers[k]) \in Nat
        /\ text[k] = Rendered(k, answers[k][calls[k]])
    BY <1>9 DEF RecheckBrand, Step, AnswersCover, CallsInOrder, TextRendered, HandlerTypes,
                AnswerTypes
  <2>5. ASSUME NEW a \in Nat, Run(k) > Len(answers[k]), Run(k) \in {3 * a + 2, 3 * a + 3}
        PROVE  given.of = Rendered(k, answers[k][3 * a + 1])
    <3>1. 3 * a + 1 = calls[k]
      <4>1. calls[k] + 1 = 3 * a + 2 \/ calls[k] + 1 = 3 * a + 3
        BY <2>5 DEF Run
      <4>2. \A n \in Nat, m \in Nat : n + 2 = 3 * m /\ (n + 1 = 3 * a + 2 \/ n + 1 = 3 * a + 3)
              => 3 * a + 1 = n
        BY SMTT(30)
      <4> QED
        BY <2>4, <4>1, <4>2
    <3>2. ~Answered(k)
      BY <2>4, <2>5 DEF Answered, Run
    <3>3. given.of = text[k]
      BY <2>2, <3>2 DEF VerdictsOn
    <3> QED
      BY <2>4, <3>1, <3>3
  <2> QED
    BY <2>2, <2>3, <2>4, <2>5, RoundsGrow
<1>10. ASSUME NEW k \in Kind, RecheckFacts(k) PROVE RoundsMatch'
  <2>1. text[k] \in Nat
    BY DEF HandlerTypes
  <2>2. CASE answers' = answers
    BY <2>2, RoundsKeep
  <2>3. ASSUME NEW given \in VerdictsOn(k, text[k]), Keep(k, AsCodes(given))
        PROVE  RoundsMatch'
    <3>1. AsCodes(given) \in Answers /\ AsCodes(given).of = given.of
      BY <2>1, VerdictTypes
    <3>2. /\ calls[k] <= Len(answers[k]) /\ calls[k] + 1 = 3 * attempt[k]
          /\ calls[k] \in Nat /\ attempt[k] \in Nat /\ Len(answers[k]) \in Nat
          /\ text[k] = Rendered(k, answers[k][calls[k] - 1])
      BY <1>10 DEF RecheckFacts, AnswersCover, CallsInOrder, TextRendered, HandlerTypes,
                  AnswerTypes
    <3>3. ASSUME NEW a \in Nat, Run(k) > Len(answers[k]), Run(k) \in {3 * a + 2, 3 * a + 3}
          PROVE  given.of = Rendered(k, answers[k][3 * a + 1])
      <4>1. 3 * a + 1 = calls[k] - 1
        <5>1. calls[k] + 1 = 3 * a + 2 \/ calls[k] + 1 = 3 * a + 3
          BY <3>3 DEF Run
        <5>2. \A n \in Nat, m \in Nat : n + 1 = 3 * m /\ (n + 1 = 3 * a + 2 \/ n + 1 = 3 * a +
           3)
                => 3 * a + 1 = n - 1
          BY SMTT(30)
        <5> QED
          BY <3>2, <5>1, <5>2
      <4>2. ~Answered(k)
        BY <3>2, <3>3 DEF Answered, Run
      <4>3. given.of = text[k]
        BY <4>2 DEF VerdictsOn
      <4> QED
        BY <3>2, <4>1, <4>3
    <3> QED
      BY <2>3, <3>1, <3>2, <3>3, RoundsGrow
  <2> QED
    BY <1>10, <2>2, <2>3 DEF RecheckFacts
<1>11. ASSUME NEW k \in Kind, StoreVerdict(k) PROVE RoundsMatch'
  BY <1>11, RoundsKeep DEF StoreVerdict
<1>12. ASSUME NEW k \in Kind, MoveTask(k) PROVE RoundsMatch'
  BY <1>12, RoundsKeep DEF MoveTask, AfterTask, Leave
<1>13. ASSUME NEW k \in Kind, AdvanceFriday(k) PROVE RoundsMatch'
  BY <1>13, RoundsKeep DEF AdvanceFriday, AfterTask, Leave
<1>14. ASSUME NEW k \in Kind, SendCard(k) PROVE RoundsMatch'
  BY <1>14, RoundsKeep DEF SendCard, AfterTask, Leave
<1>15. ASSUME NEW k \in Kind, ReleaseDraft(k) PROVE RoundsMatch'
  BY <1>15, RoundsKeep DEF ReleaseDraft
<1>16. ASSUME NEW k \in Kind, Reconcile(k) PROVE RoundsMatch'
  BY <1>16, RoundsKeep DEF Reconcile
<1>17. ASSUME NEW k \in Kind, HandlerRaises(k) PROVE RoundsMatch'
  BY <1>17, RoundsKeep DEF HandlerRaises
<1>18. ASSUME NEW k \in Kind, WorkerCrashes(k) PROVE RoundsMatch'
  BY <1>18, RoundsKeep DEF WorkerCrashes
<1>19. ASSUME NEW k \in Kind, MessageExpires(k) PROVE RoundsMatch'
  BY <1>19, RoundsKeep DEF MessageExpires
<1>20. ASSUME NEW k \in Kind, LoseLockSession(k) PROVE RoundsMatch'
  BY <1>20, RoundsKeep DEF LoseLockSession
<1>21. CASE EditGatePolicy
  BY <1>21, RoundsKeep DEF EditGatePolicy
<1>22. CASE FridayIsBlocked
  BY <1>22, RoundsKeep DEF FridayIsBlocked
<1>23. CASE FridayStarts
  BY <1>23, RoundsKeep DEF FridayStarts
<1>24. CASE FridayReads
  BY <1>24, RoundsKeep DEF FridayReads
<1>25. CASE FridaySchedules
  BY <1>25, RoundsKeep DEF FridaySchedules
<1>26. CASE UNCHANGED qaVars
  BY <1>26 DEF qaVars, RoundsMatch, Rendered
<1> QED
  BY <1>1, <1>2, <1>3, <1>4, <1>5, <1>6, <1>7, <1>8, <1>9, <1>10, <1>11, <1>12, <1>13,
     <1>14, <1>15, <1>16, <1>17, <1>18, <1>19, <1>20, <1>21, <1>22, <1>23, <1>24, <1>25,
     <1>26
     DEF QaNext, ReviewStep, ReviewMishap, FridayStep

\* In the loop, the bytes in hand are what the redraft rendered.
LEMMA TextStep ==
  ASSUME HandlerTypes, GivenTypes, SharedTypes, AnswerTypes, CallsInOrder,
         AnswersCover, TextRendered, [QaNext]_qaVars
  PROVE  TextRendered'
<1> USE DEF taskVars, draftVars, loopVars, planVars, lockVars, fridayVars, givenVars,
          gateVars, faultVars, StayReviewed,
          HandlerTypes, TextRendered, Rendered, Kind, Other, HandlerSteps
<1>1. ASSUME NEW k \in Kind, CheckState(k) PROVE TextRendered'
  BY <1>1 DEF CheckState, Step
<1>2. ASSUME NEW k \in Kind, StartReview(k) PROVE TextRendered'
  BY <1>2 DEF StartReview, Step
<1>3. ASSUME NEW k \in Kind, LookAtDraft(k) PROVE TextRendered'
  BY <1>3 DEF LookAtDraft, Step, Settle
<1>4. ASSUME NEW k \in Kind, Judge(k) PROVE TextRendered'
  <2>1. PICK answer \in Answers : Keep(k, answer)
    <3>1. text[k] \in Nat
      OBVIOUS
    <3> QED
      BY <1>4, <3>1, VerdictTypes DEF Judge
  <2>2. calls[k] <= Len(answers[k])
    BY <1>4 DEF Judge, CallsInOrder, BeforeLoop, AnswerTypes
  <2>3. \A c \in Kind \ {k} : answers'[c] = answers[c]
    BY <2>1, <2>2, KeepGrows
  <2>4. pc' = [pc EXCEPT ![k] = "store"] \/ pc' = [pc EXCEPT ![k] = "claim"]
    BY <1>4 DEF Judge, Settle, Step
  <2>5. (\A c \in Kind \ {k} : calls'[c] = calls[c]) /\ UNCHANGED text
    BY <1>4 DEF Judge, Settle, Count
  <2> QED
    BY <2>3, <2>4, <2>5
<1>5. ASSUME NEW k \in Kind, ClaimDraft(k) PROVE TextRendered'
  BY <1>5 DEF ClaimDraft, Step, Settle
<1>6. ASSUME NEW k \in Kind, Regenerate(k) PROVE TextRendered'
  <2>1. CASE Settle(k, "rejected", TRUE, TRUE) /\ UNCHANGED <<answers, text>>
    BY <1>6, <2>1 DEF Regenerate, Settle
  <2>2. CASE AskForRedraft(k)
    <3>1. calls[k] <= Len(answers[k]) /\ Len(answers[k]) \in Nat
      BY <1>6 DEF Regenerate, AnswersCover, AnswerTypes
    <3>2. Keep(k, Redraft(k)) /\ Redraft(k) \in Answers
      BY <2>2, RedraftTypes DEF AskForRedraft
    <3>3. \A c \in Kind \ {k} : answers'[c] = answers[c]
      BY <3>1, <3>2, KeepGrows
    <3>4. answers'[k][Run(k)] = Redraft(k)
      <4>1. CASE Answered(k)
        BY <3>1, <3>2, <4>1, KeepGrows DEF Answered, Redraft, Run
      <4>2. CASE ~Answered(k)
        BY <3>1, <3>2, <4>2, KeepGrows DEF Answered, Run
      <4> QED
        BY <4>1, <4>2
    <3>5. /\ pc' = [pc EXCEPT ![k] = "install"] /\ calls' = [calls EXCEPT ![k] = Run(k)]
          /\ text' = [text EXCEPT ![k] = Rendered(k, Redraft(k))]
      BY <2>2 DEF AskForRedraft, Step, Count
    <3> HIDE DEF Rendered
    <3>6. text'[k] = Rendered(k, answers'[k][calls'[k]]) /\ pc'[k] = "install"
      BY <3>4, <3>5
    <3>7. \A c \in Kind \ {k} : pc'[c] = pc[c] /\ calls'[c] = calls[c] /\ text'[c] = text[c]
      BY <3>5
    <3> QED
      BY <3>3, <3>6, <3>7 DEF Rendered
  <2> QED
    BY <1>6, <2>1, <2>2 DEF Regenerate
<1>7. ASSUME NEW k \in Kind, VaultRefuses(k) PROVE TextRendered'
  BY <1>7 DEF VaultRefuses, RunAgain, Forget, RecordFailure, FreeLock
<1>8. ASSUME NEW k \in Kind, InstallDraft(k) PROVE TextRendered'
  BY <1>8 DEF InstallDraft, Step
<1>9. ASSUME NEW k \in Kind, RecheckBrand(k) PROVE TextRendered'
  <2>1. PICK answer \in Answers : Keep(k, answer)
    <3>1. text[k] \in Nat
      OBVIOUS
    <3> QED
      BY <1>9, <3>1, VerdictTypes DEF RecheckBrand
  <2>2. /\ calls[k] <= Len(answers[k]) /\ 1 <= calls[k] /\ Len(answers[k]) \in Nat
        /\ calls[k] \in Nat
    BY <1>9 DEF RecheckBrand, Step, AnswersCover, AnswerTypes, CallsInOrder
  <2>3. \A c \in Kind \ {k} : answers'[c] = answers[c]
    BY <2>1, <2>2, KeepGrows
  <2>4. answers'[k][calls[k]] = answers[k][calls[k]]
    BY <2>1, <2>2, KeepGrows
  <2>5. pc[k] = "check_brand" /\ UNCHANGED text
    BY <1>9 DEF RecheckBrand, Step
  <2>6. pc' = [pc EXCEPT ![k] = "check_fact"] /\ calls' = [calls EXCEPT ![k] = calls[k] + 1]
    BY <1>9 DEF RecheckBrand, Step, Count, Run
  <2>7. pc'[k] = "check_fact" /\ calls'[k] - 1 = calls[k]
    BY <2>2, <2>6
  <2>8. \A c \in Kind \ {k} : pc'[c] = pc[c] /\ calls'[c] = calls[c]
    BY <2>6
  <2>9. text'[k] = Rendered(k, answers'[k][calls'[k] - 1])
    BY <2>4, <2>5, <2>7
  <2> QED
    BY <2>3, <2>5, <2>7, <2>8, <2>9
<1>10. ASSUME NEW k \in Kind, RecheckFacts(k) PROVE TextRendered'
  <2>1. calls[k] <= Len(answers[k])
    BY <1>10 DEF RecheckFacts, AnswersCover
  <2>2. \A c \in Kind \ {k} : pc'[c] = pc[c] /\ calls'[c] = calls[c]
    BY <1>10 DEF RecheckFacts, Conclude, Settle, Step
  <2>3. UNCHANGED text /\ pc'[k] \in {"store", "regenerate"}
    BY <1>10 DEF RecheckFacts, Conclude, Settle, Step
  <2>4. \A c \in Kind \ {k} : answers'[c] = answers[c]
    <3>1. CASE \E given \in VerdictsOn(k, text[k]) : Keep(k, AsCodes(given))
      <4>1. text[k] \in Nat
        OBVIOUS
      <4>2. PICK answer \in Answers : Keep(k, answer)
        BY <3>1, <4>1, VerdictTypes
      <4> QED
        BY <2>1, <4>2, KeepGrows
    <3> QED
      BY <1>10, <3>1 DEF RecheckFacts
  <2> QED
    BY <2>2, <2>3, <2>4
<1>11. ASSUME NEW k \in Kind, StoreVerdict(k) PROVE TextRendered'
  BY <1>11 DEF StoreVerdict, Step
<1>12. ASSUME NEW k \in Kind, MoveTask(k) PROVE TextRendered'
  <2>1. pc'[k] \in {"store", "card", "release", "done", "advance"}
    BY <1>12, AfterLoop DEF MoveTask, Step, HandlerTypes
  <2>2. \A c \in Kind \ {k} : pc'[c] = pc[c] /\ answers'[c] = answers[c] /\ text'[c] = text[c]
    BY <1>12, AfterLoop DEF MoveTask, Step, HandlerTypes
  <2>3. UNCHANGED <<attempt, calls, found, reran>>
    BY <1>12 DEF MoveTask
  <2> QED
    BY <2>1, <2>2, <2>3
<1>13. ASSUME NEW k \in Kind, AdvanceFriday(k) PROVE TextRendered'
  <2>1. pc'[k] \in {"store", "card", "release", "done", "advance"}
    BY <1>13, AfterLoop DEF AdvanceFriday, Step, HandlerTypes
  <2>2. \A c \in Kind \ {k} : pc'[c] = pc[c] /\ answers'[c] = answers[c] /\ text'[c] = text[c]
    BY <1>13, AfterLoop DEF AdvanceFriday, Step, HandlerTypes
  <2>3. UNCHANGED <<attempt, calls, found, reran>>
    BY <1>13 DEF AdvanceFriday
  <2> QED
    BY <2>1, <2>2, <2>3
<1>14. ASSUME NEW k \in Kind, SendCard(k) PROVE TextRendered'
  <2>1. pc'[k] \in {"store", "card", "release", "done", "advance"}
    BY <1>14, AfterLoop DEF SendCard, Step, HandlerTypes
  <2>2. \A c \in Kind \ {k} : pc'[c] = pc[c] /\ answers'[c] = answers[c] /\ text'[c] = text[c]
    BY <1>14, AfterLoop DEF SendCard, Step, HandlerTypes
  <2>3. UNCHANGED <<attempt, calls, found, reran>>
    BY <1>14 DEF SendCard
  <2> QED
    BY <2>1, <2>2, <2>3
<1>15. ASSUME NEW k \in Kind, ReleaseDraft(k) PROVE TextRendered'
  BY <1>15 DEF ReleaseDraft, Step, FreeLock
<1>16. ASSUME NEW k \in Kind, Reconcile(k) PROVE TextRendered'
  BY <1>16 DEF Reconcile, Step, RecordFailure
<1>17. ASSUME NEW k \in Kind, HandlerRaises(k) PROVE TextRendered'
  BY <1>17 DEF HandlerRaises, RunAgain, Forget, RecordFailure, FreeLock, GoesWrong, Mishap
<1>18. ASSUME NEW k \in Kind, WorkerCrashes(k) PROVE TextRendered'
  BY <1>18 DEF WorkerCrashes, FreeLock, Forget, GoesWrong, Mishap
<1>19. ASSUME NEW k \in Kind, MessageExpires(k) PROVE TextRendered'
  BY <1>19 DEF MessageExpires, RecordFailure, GoesWrong, Mishap
<1>20. ASSUME NEW k \in Kind, LoseLockSession(k) PROVE TextRendered'
  BY <1>20 DEF LoseLockSession, GoesWrong, Mishap
<1>21. CASE EditGatePolicy
  BY <1>21 DEF EditGatePolicy
<1>22. CASE FridayIsBlocked
  BY <1>22 DEF FridayIsBlocked
<1>23. CASE FridayStarts
  BY <1>23 DEF FridayStarts
<1>24. CASE FridayReads
  BY <1>24 DEF FridayReads
<1>25. CASE FridaySchedules
  BY <1>25 DEF FridaySchedules
<1>26. CASE UNCHANGED qaVars
  BY <1>26 DEF qaVars
<1> QED
  BY <1>1, <1>2, <1>3, <1>4, <1>5, <1>6, <1>7, <1>8, <1>9, <1>10, <1>11, <1>12, <1>13,
     <1>14, <1>15, <1>16, <1>17, <1>18, <1>19, <1>20, <1>21, <1>22, <1>23, <1>24, <1>25,
     <1>26
     DEF QaNext, ReviewStep, ReviewMishap, FridayStep

\* What a handler settles has been reviewed.
LEMMA KnowsStep ==
  ASSUME HandlerTypes, GivenTypes, SharedTypes, AnswerTypes, LoopInv, HandlerKnows,
         [QaNext]_qaVars
  PROVE  HandlerKnows'
<1> USE DEF taskVars, draftVars, loopVars, planVars, lockVars, fridayVars, givenVars,
          gateVars, faultVars, StayReviewed,
          HandlerTypes, SharedTypes, HandlerKnows, Settling, Kind, Other, HandlerSteps,
          NeverRetryable
<1>1. ASSUME NEW k \in Kind, CheckState(k) PROVE HandlerKnows'
  BY <1>1 DEF CheckState, Step
<1>2. ASSUME NEW k \in Kind, StartReview(k) PROVE HandlerKnows'
  BY <1>2 DEF StartReview, Step
<1>3. ASSUME NEW k \in Kind, LookAtDraft(k) PROVE HandlerKnows'
  BY <1>3 DEF LookAtDraft, Step, Settle
<1>4. ASSUME NEW k \in Kind, Judge(k) PROVE HandlerKnows'
  <2>1. PICK answer \in VerdictsOn(k, text[k]) :
          \E finding \in Judgements(answer, text[k]) :
            /\ Record(k, text[k], answer, finding)
            /\ \/ finding = "clean" /\ Settle(k, "passed", FALSE, FALSE)
               \/ Settle(k, "rejected", FALSE, TRUE)
               \/ Step(k, "judge", "claim") /\ UNCHANGED planVars
    BY <1>4 DEF Judge
  <2>2. answer.of = text[k] \/ k \in reran
    <3>1. CASE ~Answered(k)
      BY <3>1, <2>1 DEF VerdictsOn
    <3>2. CASE Answered(k)
      <4>1. calls[k] = 0 /\ answers[k] # <<>>
        BY <1>4, <3>2 DEF Judge, LoopInv, CallsInOrder, BeforeLoop, Answered, Run
      <4> QED
        BY <1>4, <4>1 DEF Judge, LoopInv, AnswersCover
    <3> QED
      BY <3>1, <3>2
  <2>3. UNCHANGED <<text, reran>>
    BY <1>4 DEF Judge
  <2>4. \A c \in Kind : reviews[c] \subseteq reviews'[c]
    BY <2>1 DEF Record
  <2>5. pc[k] = "judge"
    BY <1>4 DEF Judge
  <2>6. CASE Settle(k, "passed", FALSE, FALSE) /\ (text[k] \in reviews'[k] \/ k \in reran)
    BY <2>3, <2>4, <2>5, <2>6 DEF Settle
  <2>7. CASE Settle(k, "rejected", FALSE, TRUE)
    BY <2>3, <2>4, <2>5, <2>7 DEF Settle
  <2>8. CASE Step(k, "judge", "claim") /\ UNCHANGED planVars
    <3>1. \A c \in Kind \ {k} : found'[c] = found[c]
      BY <1>4 DEF Judge, Settle
    <3> QED
      BY <2>3, <2>4, <2>8, <3>1 DEF Step
  <2>9. CASE Settle(k, "passed", FALSE, FALSE) /\ Record(k, text[k], answer, "clean")
    <3>1. text[k] \in reviews'[k] \/ k \in reran
      BY <2>2, <2>9 DEF Record
    <3> QED
      BY <2>6, <2>9, <3>1
  <2> QED
    BY <2>1, <2>7, <2>8, <2>9
<1>5. ASSUME NEW k \in Kind, ClaimDraft(k) PROVE HandlerKnows'
  BY <1>5 DEF ClaimDraft, Step, Settle
<1>6. ASSUME NEW k \in Kind, Regenerate(k) PROVE HandlerKnows'
  BY <1>6 DEF Regenerate, Step, Settle, AskForRedraft, Count
<1>7. ASSUME NEW k \in Kind, VaultRefuses(k) PROVE HandlerKnows'
  BY <1>7 DEF VaultRefuses, RunAgain, Forget, RecordFailure, FreeLock
<1>8. ASSUME NEW k \in Kind, InstallDraft(k) PROVE HandlerKnows'
  BY <1>8 DEF InstallDraft, Step
<1>9. ASSUME NEW k \in Kind, RecheckBrand(k) PROVE HandlerKnows'
  <2>1. PICK given \in VerdictsOn(k, text[k]) :
          /\ Record("brand_steward", text[k], AsCodes(given), Judgement(AsCodes(given).verdict))
          /\ found' = [found EXCEPT ![k]["brand_steward"] = Judgement(AsCodes(given).verdict)]
    BY <1>9 DEF RecheckBrand
  <2>2. pc[k] = "check_brand" /\ text[k] \in Nat
    BY <1>9 DEF RecheckBrand, Step
  <2>3. AsCodes(given).of = text[k]
    BY <2>2, VerdictFits, VerdictTypes DEF LoopInv
  <2>4. \A c \in Kind : reviews[c] \subseteq reviews'[c]
    BY <2>1 DEF Record
  <2>5. found'[k]["brand_steward"] = "clean" => text[k] \in reviews'["brand_steward"]
    BY <2>1, <2>3 DEF Record
  <2>6. \A c \in Kind \ {k} : found'[c] = found[c]
    BY <2>1
  <2>7. pc' = [pc EXCEPT ![k] = "check_fact"] /\ UNCHANGED <<text, settling, plan, reran>>
    BY <1>9 DEF RecheckBrand, Step
  <2> QED
    BY <2>4, <2>5, <2>6, <2>7
<1>10. ASSUME NEW k \in Kind, RecheckFacts(k) PROVE HandlerKnows'
  <2>1. pc[k] = "check_fact" /\ text[k] \in Nat /\ UNCHANGED <<text, reran>>
    BY <1>10 DEF RecheckFacts
  <2>2. \A c \in Kind : reviews[c] \subseteq reviews'[c]
    BY <1>10 DEF RecheckFacts, Record
  <2>3. \A c \in Kind \ {k} : found'[c] = found[c]
    BY <1>10 DEF RecheckFacts, Conclude, Settle
  <2>4. CASE Step(k, "check_fact", "regenerate") /\ UNCHANGED planVars
    BY <2>1, <2>2, <2>3, <2>4 DEF Step
  <2>5. CASE Conclude(k, "clean") /\ found[k]["brand_steward"] = "clean"
             /\ text[k] \in reviews'["fact_check"]
    <3>1. \A c \in Kind : text[k] \in reviews'[c]
      BY <2>1, <2>2, <2>5
    <3>2. Settle(k, "passed", TRUE, FALSE)
      BY <2>5 DEF Conclude
    <3> QED
      BY <2>1, <2>2, <2>3, <3>1, <3>2 DEF Settle
  <2>6. CASE gate
    <3>1. PICK given \in VerdictsOn(k, text[k]) :
            /\ Record("fact_check", text[k], AsCodes(given), Judgement(AsCodes(given).verdict))
            /\ Conclude(k, Judgement(AsCodes(given).verdict))
      BY <1>10, <2>6 DEF RecheckFacts
    <3>2. AsCodes(given).of = text[k]
      BY <2>1, VerdictFits, VerdictTypes DEF LoopInv
    <3>3. CASE /\ found[k]["brand_steward"] = "clean"
               /\ Judgement(AsCodes(given).verdict) = "clean"
      BY <2>5, <3>1, <3>2, <3>3 DEF Record
    <3> QED
      BY <2>4, <3>1, <3>3 DEF Conclude
  <2>7. CASE ~gate
    BY <1>10, <2>4, <2>7 DEF RecheckFacts, Conclude
  <2> QED
    BY <2>6, <2>7
<1>11. ASSUME NEW k \in Kind, StoreVerdict(k) PROVE HandlerKnows'
  BY <1>11 DEF StoreVerdict, Step
<1>12. ASSUME NEW k \in Kind, MoveTask(k) PROVE HandlerKnows'
  BY <1>12 DEF MoveTask, Step, AfterTask, Leave
<1>13. ASSUME NEW k \in Kind, AdvanceFriday(k) PROVE HandlerKnows'
  BY <1>13 DEF AdvanceFriday, AfterTask, Leave
<1>14. ASSUME NEW k \in Kind, SendCard(k) PROVE HandlerKnows'
  BY <1>14 DEF SendCard, Leave
<1>15. ASSUME NEW k \in Kind, ReleaseDraft(k) PROVE HandlerKnows'
  BY <1>15 DEF ReleaseDraft, Step, FreeLock
<1>16. ASSUME NEW k \in Kind, Reconcile(k) PROVE HandlerKnows'
  BY <1>16 DEF Reconcile, Step, RecordFailure
<1>17. ASSUME NEW k \in Kind, HandlerRaises(k) PROVE HandlerKnows'
  BY <1>17 DEF HandlerRaises, RunAgain, Forget, RecordFailure, FreeLock, GoesWrong, Mishap
<1>18. ASSUME NEW k \in Kind, WorkerCrashes(k) PROVE HandlerKnows'
  BY <1>18 DEF WorkerCrashes, FreeLock, Forget, GoesWrong, Mishap
<1>19. ASSUME NEW k \in Kind, MessageExpires(k) PROVE HandlerKnows'
  BY <1>19 DEF MessageExpires, RecordFailure, GoesWrong, Mishap
<1>20. ASSUME NEW k \in Kind, LoseLockSession(k) PROVE HandlerKnows'
  BY <1>20 DEF LoseLockSession, GoesWrong, Mishap
<1>21. CASE EditGatePolicy
  BY <1>21 DEF EditGatePolicy
<1>22. CASE FridayIsBlocked
  BY <1>22 DEF FridayIsBlocked
<1>23. CASE FridayStarts
  BY <1>23 DEF FridayStarts
<1>24. CASE FridayReads
  BY <1>24 DEF FridayReads
<1>25. CASE FridaySchedules
  BY <1>25 DEF FridaySchedules
<1>26. CASE UNCHANGED qaVars
  BY <1>26 DEF qaVars
<1> QED
  BY <1>1, <1>2, <1>3, <1>4, <1>5, <1>6, <1>7, <1>8, <1>9, <1>10, <1>11, <1>12, <1>13,
     <1>14, <1>15, <1>16, <1>17, <1>18, <1>19, <1>20, <1>21, <1>22, <1>23, <1>24, <1>25,
     <1>26
     DEF QaNext, ReviewStep, ReviewMishap, FridayStep

\* A verdict is written as it was settled, and reviews are kept.
LEMMA EarnedStep ==
  ASSUME HandlerTypes, GivenTypes, SharedTypes, HandlerKnows, PassIsEarned, [QaNext]_qaVars
  PROVE  PassIsEarned'
<1> USE DEF taskVars, draftVars, loopVars, planVars, lockVars, fridayVars, givenVars,
          gateVars, faultVars, StayReviewed,
          HandlerTypes, SharedTypes, HandlerKnows, PassIsEarned, Reviewed, Settling, Kind,
          HandlerSteps
<1>1. ASSUME NEW k \in Kind, CheckState(k) PROVE PassIsEarned'
  BY <1>1 DEF CheckState, Step
<1>2. ASSUME NEW k \in Kind, StartReview(k) PROVE PassIsEarned'
  BY <1>2 DEF StartReview, Step
<1>3. ASSUME NEW k \in Kind, LookAtDraft(k) PROVE PassIsEarned'
  BY <1>3 DEF LookAtDraft, Step, Settle
<1>4. ASSUME NEW k \in Kind, Judge(k) PROVE PassIsEarned'
  BY <1>4 DEF Judge, Record
<1>5. ASSUME NEW k \in Kind, ClaimDraft(k) PROVE PassIsEarned'
  BY <1>5 DEF ClaimDraft, Step, Settle
<1>6. ASSUME NEW k \in Kind, Regenerate(k) PROVE PassIsEarned'
  BY <1>6 DEF Regenerate, Step, Settle, AskForRedraft, Count
<1>7. ASSUME NEW k \in Kind, VaultRefuses(k) PROVE PassIsEarned'
  BY <1>7 DEF VaultRefuses, RunAgain, Forget, RecordFailure, FreeLock
<1>8. ASSUME NEW k \in Kind, InstallDraft(k) PROVE PassIsEarned'
  BY <1>8 DEF InstallDraft, Step
<1>9. ASSUME NEW k \in Kind, RecheckBrand(k) PROVE PassIsEarned'
  BY <1>9 DEF RecheckBrand, Record
<1>10. ASSUME NEW k \in Kind, RecheckFacts(k) PROVE PassIsEarned'
  BY <1>10 DEF RecheckFacts, Record
<1>11. ASSUME NEW k \in Kind, StoreVerdict(k) PROVE PassIsEarned'
  BY <1>11 DEF StoreVerdict, Step
<1>12. ASSUME NEW k \in Kind, MoveTask(k) PROVE PassIsEarned'
  BY <1>12 DEF MoveTask, Step, AfterTask, Leave
<1>13. ASSUME NEW k \in Kind, AdvanceFriday(k) PROVE PassIsEarned'
  BY <1>13 DEF AdvanceFriday, AfterTask, Leave
<1>14. ASSUME NEW k \in Kind, SendCard(k) PROVE PassIsEarned'
  BY <1>14 DEF SendCard, Leave
<1>15. ASSUME NEW k \in Kind, ReleaseDraft(k) PROVE PassIsEarned'
  BY <1>15 DEF ReleaseDraft, Step, FreeLock
<1>16. ASSUME NEW k \in Kind, Reconcile(k) PROVE PassIsEarned'
  BY <1>16 DEF Reconcile, Step, RecordFailure
<1>17. ASSUME NEW k \in Kind, HandlerRaises(k) PROVE PassIsEarned'
  BY <1>17 DEF HandlerRaises, RunAgain, Forget, RecordFailure, FreeLock, GoesWrong, Mishap
<1>18. ASSUME NEW k \in Kind, WorkerCrashes(k) PROVE PassIsEarned'
  BY <1>18 DEF WorkerCrashes, FreeLock, Forget, GoesWrong, Mishap
<1>19. ASSUME NEW k \in Kind, MessageExpires(k) PROVE PassIsEarned'
  BY <1>19 DEF MessageExpires, RecordFailure, GoesWrong, Mishap
<1>20. ASSUME NEW k \in Kind, LoseLockSession(k) PROVE PassIsEarned'
  BY <1>20 DEF LoseLockSession, GoesWrong, Mishap
<1>21. CASE EditGatePolicy
  BY <1>21 DEF EditGatePolicy
<1>22. CASE FridayIsBlocked
  BY <1>22 DEF FridayIsBlocked
<1>23. CASE FridayStarts
  BY <1>23 DEF FridayStarts
<1>24. CASE FridayReads
  BY <1>24 DEF FridayReads
<1>25. CASE FridaySchedules
  BY <1>25 DEF FridaySchedules
<1>26. CASE UNCHANGED qaVars
  BY <1>26 DEF qaVars
<1> QED
  BY <1>1, <1>2, <1>3, <1>4, <1>5, <1>6, <1>7, <1>8, <1>9, <1>10, <1>11, <1>12, <1>13,
     <1>14, <1>15, <1>16, <1>17, <1>18, <1>19, <1>20, <1>21, <1>22, <1>23, <1>24, <1>25,
     <1>26
     DEF QaNext, ReviewStep, ReviewMishap, FridayStep

\* A verdict is stored before its task completes.
LEMMA FirstStep ==
  ASSUME HandlerTypes, GivenTypes, SharedTypes, HandlerKnows, VerdictFirst, [QaNext]_qaVars
  PROVE  VerdictFirst'
<1> USE DEF taskVars, draftVars, loopVars, planVars, lockVars, fridayVars, givenVars,
          gateVars, faultVars, StayReviewed,
          HandlerTypes, SharedTypes, HandlerKnows, VerdictFirst, Settling, Kind, Other,
          HandlerSteps, Terminal, DeadLetterStrike
<1>1. ASSUME NEW k \in Kind, CheckState(k) PROVE VerdictFirst'
  BY <1>1 DEF CheckState, Step
<1>2. ASSUME NEW k \in Kind, StartReview(k) PROVE VerdictFirst'
  BY <1>2 DEF StartReview, Step
<1>3. ASSUME NEW k \in Kind, LookAtDraft(k) PROVE VerdictFirst'
  BY <1>3 DEF LookAtDraft, Step, Settle
<1>4. ASSUME NEW k \in Kind, Judge(k) PROVE VerdictFirst'
  BY <1>4 DEF Judge, Step, Settle, Count
<1>5. ASSUME NEW k \in Kind, ClaimDraft(k) PROVE VerdictFirst'
  BY <1>5 DEF ClaimDraft, Step, Settle
<1>6. ASSUME NEW k \in Kind, Regenerate(k) PROVE VerdictFirst'
  BY <1>6 DEF Regenerate, Step, Settle, AskForRedraft, Count
<1>7. ASSUME NEW k \in Kind, VaultRefuses(k) PROVE VerdictFirst'
  BY <1>7 DEF VaultRefuses, RunAgain, Forget, RecordFailure, FreeLock
<1>8. ASSUME NEW k \in Kind, InstallDraft(k) PROVE VerdictFirst'
  BY <1>8 DEF InstallDraft, Step
<1>9. ASSUME NEW k \in Kind, RecheckBrand(k) PROVE VerdictFirst'
  BY <1>9 DEF RecheckBrand, Step, Count
<1>10. ASSUME NEW k \in Kind, RecheckFacts(k) PROVE VerdictFirst'
  BY <1>10 DEF RecheckFacts, Step, Settle, Conclude
<1>11. ASSUME NEW k \in Kind, StoreVerdict(k) PROVE VerdictFirst'
  BY <1>11 DEF StoreVerdict, Step
<1>12. ASSUME NEW k \in Kind, MoveTask(k) PROVE VerdictFirst'
  BY <1>12 DEF MoveTask, Step, AfterTask, Leave
<1>13. ASSUME NEW k \in Kind, AdvanceFriday(k) PROVE VerdictFirst'
  BY <1>13 DEF AdvanceFriday, AfterTask, Leave
<1>14. ASSUME NEW k \in Kind, SendCard(k) PROVE VerdictFirst'
  BY <1>14 DEF SendCard, Leave
<1>15. ASSUME NEW k \in Kind, ReleaseDraft(k) PROVE VerdictFirst'
  BY <1>15 DEF ReleaseDraft, Step, FreeLock
<1>16. ASSUME NEW k \in Kind, Reconcile(k) PROVE VerdictFirst'
  BY <1>16 DEF Reconcile, Step, RecordFailure
<1>17. ASSUME NEW k \in Kind, HandlerRaises(k) PROVE VerdictFirst'
  BY <1>17 DEF HandlerRaises, RunAgain, Forget, RecordFailure, FreeLock, GoesWrong, Mishap
<1>18. ASSUME NEW k \in Kind, WorkerCrashes(k) PROVE VerdictFirst'
  BY <1>18 DEF WorkerCrashes, FreeLock, Forget, GoesWrong, Mishap
<1>19. ASSUME NEW k \in Kind, MessageExpires(k) PROVE VerdictFirst'
  BY <1>19 DEF MessageExpires, RecordFailure, GoesWrong, Mishap
<1>20. ASSUME NEW k \in Kind, LoseLockSession(k) PROVE VerdictFirst'
  BY <1>20 DEF LoseLockSession, GoesWrong, Mishap
<1>21. CASE EditGatePolicy
  BY <1>21 DEF EditGatePolicy
<1>22. CASE FridayIsBlocked
  BY <1>22 DEF FridayIsBlocked
<1>23. CASE FridayStarts
  BY <1>23 DEF FridayStarts
<1>24. CASE FridayReads
  BY <1>24 DEF FridayReads
<1>25. CASE FridaySchedules
  BY <1>25 DEF FridaySchedules
<1>26. CASE UNCHANGED qaVars
  BY <1>26 DEF qaVars
<1> QED
  BY <1>1, <1>2, <1>3, <1>4, <1>5, <1>6, <1>7, <1>8, <1>9, <1>10, <1>11, <1>12, <1>13,
     <1>14, <1>15, <1>16, <1>17, <1>18, <1>19, <1>20, <1>21, <1>22, <1>23, <1>24, <1>25,
     <1>26
     DEF QaNext, ReviewStep, ReviewMishap, FridayStep

\* Friday reads the brand steward's verdict.
LEMMA FridayStepSafe ==
  ASSUME HandlerTypes, GivenTypes, SharedTypes, PassIsEarned, VerdictFirst, FridayInv,
         [QaNext]_qaVars
  PROVE  FridayInv'
<1> USE DEF taskVars, draftVars, loopVars, planVars, lockVars, fridayVars, givenVars,
          gateVars, faultVars, StayReviewed,
          HandlerTypes, SharedTypes, PassIsEarned, Reviewed, VerdictFirst, FridayInv, FridayKnows,
          ScheduledIsReviewed, FridaySees, Kind
<1>1. ASSUME NEW k \in Kind, CheckState(k) PROVE FridayInv'
  BY <1>1 DEF CheckState, Step
<1>2. ASSUME NEW k \in Kind, StartReview(k) PROVE FridayInv'
  BY <1>2 DEF StartReview, Step
<1>3. ASSUME NEW k \in Kind, LookAtDraft(k) PROVE FridayInv'
  BY <1>3 DEF LookAtDraft, Step, Settle
<1>4. ASSUME NEW k \in Kind, Judge(k) PROVE FridayInv'
  BY <1>4 DEF Judge, Record
<1>5. ASSUME NEW k \in Kind, ClaimDraft(k) PROVE FridayInv'
  BY <1>5 DEF ClaimDraft, Step, Settle
<1>6. ASSUME NEW k \in Kind, Regenerate(k) PROVE FridayInv'
  BY <1>6 DEF Regenerate, Step, Settle, AskForRedraft, Count
<1>7. ASSUME NEW k \in Kind, VaultRefuses(k) PROVE FridayInv'
  BY <1>7 DEF VaultRefuses, RunAgain, Forget, RecordFailure, FreeLock
<1>8. ASSUME NEW k \in Kind, InstallDraft(k) PROVE FridayInv'
  BY <1>8 DEF InstallDraft, Step
<1>9. ASSUME NEW k \in Kind, RecheckBrand(k) PROVE FridayInv'
  BY <1>9 DEF RecheckBrand, Record
<1>10. ASSUME NEW k \in Kind, RecheckFacts(k) PROVE FridayInv'
  BY <1>10 DEF RecheckFacts, Record
<1>11. ASSUME NEW k \in Kind, StoreVerdict(k) PROVE FridayInv'
  BY <1>11 DEF StoreVerdict, Step
<1>12. ASSUME NEW k \in Kind, MoveTask(k) PROVE FridayInv'
  BY <1>12 DEF MoveTask, Step, AfterTask, Leave
<1>13. ASSUME NEW k \in Kind, AdvanceFriday(k) PROVE FridayInv'
  BY <1>13 DEF AdvanceFriday, AfterTask, Leave
<1>14. ASSUME NEW k \in Kind, SendCard(k) PROVE FridayInv'
  BY <1>14 DEF SendCard, Leave
<1>15. ASSUME NEW k \in Kind, ReleaseDraft(k) PROVE FridayInv'
  BY <1>15 DEF ReleaseDraft, Step, FreeLock
<1>16. ASSUME NEW k \in Kind, Reconcile(k) PROVE FridayInv'
  BY <1>16 DEF Reconcile, Step, RecordFailure
<1>17. ASSUME NEW k \in Kind, HandlerRaises(k) PROVE FridayInv'
  BY <1>17 DEF HandlerRaises, RunAgain, Forget, RecordFailure, FreeLock, GoesWrong, Mishap
<1>18. ASSUME NEW k \in Kind, WorkerCrashes(k) PROVE FridayInv'
  BY <1>18 DEF WorkerCrashes, FreeLock, Forget, GoesWrong, Mishap
<1>19. ASSUME NEW k \in Kind, MessageExpires(k) PROVE FridayInv'
  BY <1>19 DEF MessageExpires, RecordFailure, GoesWrong, Mishap
<1>20. ASSUME NEW k \in Kind, LoseLockSession(k) PROVE FridayInv'
  BY <1>20 DEF LoseLockSession, GoesWrong, Mishap
<1>21. CASE EditGatePolicy
  BY <1>21 DEF EditGatePolicy
<1>22. CASE FridayIsBlocked
  BY <1>22 DEF FridayIsBlocked
<1>23. CASE FridayStarts
  BY <1>23 DEF FridayStarts
<1>24. CASE FridayReads
  BY <1>24 DEF FridayReads
<1>25. CASE FridaySchedules
  BY <1>25 DEF FridaySchedules
<1>26. CASE UNCHANGED qaVars
  BY <1>26 DEF qaVars
<1> QED
  BY <1>1, <1>2, <1>3, <1>4, <1>5, <1>6, <1>7, <1>8, <1>9, <1>10, <1>11, <1>12, <1>13,
     <1>14, <1>15, <1>16, <1>17, <1>18, <1>19, <1>20, <1>21, <1>22, <1>23, <1>24, <1>25,
     <1>26
     DEF QaNext, ReviewStep, ReviewMishap, FridayStep

\* A task that has been moved by its handler stays where it is.
LEMMA MovedStep ==
  ASSUME HandlerTypes, GivenTypes, SharedTypes, MovedIsTerminal, [QaNext]_qaVars
  PROVE  MovedIsTerminal'
<1> USE DEF taskVars, draftVars, loopVars, planVars, lockVars, fridayVars, givenVars,
          gateVars, faultVars, StayReviewed,
          HandlerTypes, SharedTypes, MovedIsTerminal, Moved, Kind, Other, HandlerSteps, Terminal
<1>1. ASSUME NEW k \in Kind, CheckState(k) PROVE MovedIsTerminal'
  BY <1>1 DEF CheckState, Step
<1>2. ASSUME NEW k \in Kind, StartReview(k) PROVE MovedIsTerminal'
  BY <1>2 DEF StartReview, Step
<1>3. ASSUME NEW k \in Kind, LookAtDraft(k) PROVE MovedIsTerminal'
  BY <1>3 DEF LookAtDraft, Step, Settle
<1>4. ASSUME NEW k \in Kind, Judge(k) PROVE MovedIsTerminal'
  BY <1>4 DEF Judge, Step, Settle, Count
<1>5. ASSUME NEW k \in Kind, ClaimDraft(k) PROVE MovedIsTerminal'
  BY <1>5 DEF ClaimDraft, Step, Settle
<1>6. ASSUME NEW k \in Kind, Regenerate(k) PROVE MovedIsTerminal'
  BY <1>6 DEF Regenerate, Step, Settle, AskForRedraft, Count
<1>7. ASSUME NEW k \in Kind, VaultRefuses(k) PROVE MovedIsTerminal'
  BY <1>7 DEF VaultRefuses, RunAgain, Forget, RecordFailure, FreeLock
<1>8. ASSUME NEW k \in Kind, InstallDraft(k) PROVE MovedIsTerminal'
  BY <1>8 DEF InstallDraft, Step
<1>9. ASSUME NEW k \in Kind, RecheckBrand(k) PROVE MovedIsTerminal'
  BY <1>9 DEF RecheckBrand, Step, Count
<1>10. ASSUME NEW k \in Kind, RecheckFacts(k) PROVE MovedIsTerminal'
  BY <1>10 DEF RecheckFacts, Step, Settle, Conclude
<1>11. ASSUME NEW k \in Kind, StoreVerdict(k) PROVE MovedIsTerminal'
  BY <1>11 DEF StoreVerdict, Step
<1>12. ASSUME NEW k \in Kind, MoveTask(k) PROVE MovedIsTerminal'
  BY <1>12 DEF MoveTask, Step, AfterTask, Leave
<1>13. ASSUME NEW k \in Kind, AdvanceFriday(k) PROVE MovedIsTerminal'
  BY <1>13 DEF AdvanceFriday, AfterTask, Leave
<1>14. ASSUME NEW k \in Kind, SendCard(k) PROVE MovedIsTerminal'
  BY <1>14 DEF SendCard, Leave
<1>15. ASSUME NEW k \in Kind, ReleaseDraft(k) PROVE MovedIsTerminal'
  BY <1>15 DEF ReleaseDraft, Step, FreeLock
<1>16. ASSUME NEW k \in Kind, Reconcile(k) PROVE MovedIsTerminal'
  BY <1>16 DEF Reconcile, Step, RecordFailure
<1>17. ASSUME NEW k \in Kind, HandlerRaises(k) PROVE MovedIsTerminal'
  BY <1>17 DEF HandlerRaises, RunAgain, Forget, RecordFailure, FreeLock, GoesWrong, Mishap
<1>18. ASSUME NEW k \in Kind, WorkerCrashes(k) PROVE MovedIsTerminal'
  BY <1>18 DEF WorkerCrashes, FreeLock, Forget, GoesWrong, Mishap
<1>19. ASSUME NEW k \in Kind, MessageExpires(k) PROVE MovedIsTerminal'
  BY <1>19 DEF MessageExpires, RecordFailure, GoesWrong, Mishap
<1>20. ASSUME NEW k \in Kind, LoseLockSession(k) PROVE MovedIsTerminal'
  BY <1>20 DEF LoseLockSession, GoesWrong, Mishap
<1>21. CASE EditGatePolicy
  BY <1>21 DEF EditGatePolicy
<1>22. CASE FridayIsBlocked
  BY <1>22 DEF FridayIsBlocked
<1>23. CASE FridayStarts
  BY <1>23 DEF FridayStarts
<1>24. CASE FridayReads
  BY <1>24 DEF FridayReads
<1>25. CASE FridaySchedules
  BY <1>25 DEF FridaySchedules
<1>26. CASE UNCHANGED qaVars
  BY <1>26 DEF qaVars
<1> QED
  BY <1>1, <1>2, <1>3, <1>4, <1>5, <1>6, <1>7, <1>8, <1>9, <1>10, <1>11, <1>12, <1>13,
     <1>14, <1>15, <1>16, <1>17, <1>18, <1>19, <1>20, <1>21, <1>22, <1>23, <1>24, <1>25,
     <1>26
     DEF QaNext, ReviewStep, ReviewMishap, FridayStep

\* Only the first asking for a redraft is paid for.
LEMMA PaidStep ==
  ASSUME HandlerTypes, GivenTypes, SharedTypes, AnswerTypes, AnswerTypes',
         LoopInv, MovedIsTerminal, RedraftsPaid, [QaNext]_qaVars
  PROVE  RedraftsPaid'
<1> USE DEF taskVars, draftVars, loopVars, planVars, lockVars, fridayVars, givenVars,
          gateVars, faultVars, StayReviewed,
          HandlerTypes, SharedTypes, Kind, Other, HandlerSteps
<1>1. ASSUME NEW k \in Kind, CheckState(k) PROVE RedraftsPaid'
  <2>1. StillAsks
    BY <1>1, LenTypes DEF CheckState, StillAsks, Over, Step
  <2>2. UNCHANGED <<newest, limit>>
    BY <1>1 DEF CheckState
  <2> QED
    BY <2>1, <2>2, PaidKeep
<1>2. ASSUME NEW k \in Kind, StartReview(k) PROVE RedraftsPaid'
  <2>1. StillAsks
    BY <1>2, LenTypes DEF StartReview, StillAsks, Over, Step
  <2>2. UNCHANGED <<newest, limit>>
    BY <1>2 DEF StartReview
  <2> QED
    BY <2>1, <2>2, PaidKeep
<1>3. ASSUME NEW k \in Kind, LookAtDraft(k) PROVE RedraftsPaid'
  <2>1. StillAsks
    BY <1>3, LenTypes DEF LookAtDraft, StillAsks, Over, Step, Settle
  <2>2. UNCHANGED <<newest, limit>>
    BY <1>3 DEF LookAtDraft
  <2> QED
    BY <2>1, <2>2, PaidKeep
<1>4. ASSUME NEW k \in Kind, Judge(k) PROVE RedraftsPaid'
  <2>1. PICK answer \in Answers : Keep(k, answer)
    <3>1. text[k] \in Nat
      OBVIOUS
    <3> QED
      BY <1>4, <3>1, VerdictTypes DEF Judge
  <2>2. calls[k] <= Len(answers[k])
    BY <1>4, LenTypes DEF Judge, Step, LoopInv, CallsInOrder, BeforeLoop, AnswersCover
  <2>3. \A c \in Kind : Len(answers[c]) <= Len(answers'[c])
    BY <2>1, <2>2, LenGrows
  <2>4. pc[k] \in {"judge", "check_brand"} /\ \A c \in Kind \ {k} : pc'[c] = pc[c]
    BY <1>4 DEF Judge, Settle, Step
  <2>5. StillAsks
    BY <2>3, <2>4 DEF StillAsks, Over
  <2>6. UNCHANGED <<newest, limit>>
    BY <1>4 DEF Judge
  <2> QED
    BY <2>5, <2>6, PaidKeep
<1>5. ASSUME NEW k \in Kind, ClaimDraft(k) PROVE RedraftsPaid'
  <2>1. StillAsks
    BY <1>5, LenTypes DEF ClaimDraft, StillAsks, Over, Step, Settle
  <2>2. UNCHANGED <<newest, limit>>
    BY <1>5 DEF ClaimDraft
  <2> QED
    BY <2>1, <2>2, PaidKeep
<1>6. ASSUME NEW k \in Kind, Regenerate(k) PROVE RedraftsPaid'
  <2>1. pc[k] = "regenerate" /\ UNCHANGED limit
    BY <1>6 DEF Regenerate
  <2>2. \A c \in Kind \ {k} : pc'[c] = pc[c]
    BY <1>6 DEF Regenerate, AskForRedraft, Settle, Step
  <2>3. CASE UNCHANGED <<newest, answers>>
    <3>1. StillAsks
      BY <2>1, <2>2, <2>3, LenTypes DEF StillAsks, Over
    <3> QED
      BY <2>1, <2>3, <3>1, PaidKeep
  <2>4. CASE AskForRedraft(k) /\ ~GivesUp(k)
    <3>1. Keep(k, Redraft(k)) /\ Redraft(k) \in Answers
      BY <2>4, RedraftTypes DEF AskForRedraft
    <3>2. /\ calls[k] <= Len(answers[k]) /\ 1 <= Len(answers[k]) /\ calls[k] = 3 * attempt[k]
          /\ attempt[k] \in Nat /\ limit.attempts \in Nat /\ attempt[k] < limit.attempts
      BY <2>1, <2>4, SMTT(30) DEF LoopInv, AnswersCover, CallsInOrder, GivesUp, GivenTypes,
         Bounds
    <3>3. \A c \in Kind \ {k} : answers'[c] = answers[c]
      BY <3>1, <3>2, KeepGrows
    <3>4. Len(answers[k]) <= Len(answers'[k])
          /\ (~Answered(k) => Len(answers[k]) = calls[k] /\ Len(answers'[k]) = calls[k] + 1)
      BY <3>1, <3>2, LenGrows
    <3>5. CASE Answered(k)
      <4>1. UNCHANGED newest
        BY <2>4, <3>5 DEF AskForRedraft
      <4>2. StillAsks
        <5>1. pc[k] \notin Over
          BY <2>1 DEF Over
        <5>2. \A c \in Kind : Len(answers[c]) <= Len(answers'[c])
          BY <3>3, <3>4, LenTypes
        <5> QED
          BY <2>2, <5>1, <5>2 DEF StillAsks
      <4> QED
        BY <2>1, <4>1, <4>2, PaidKeep
    <3>6. CASE ~Answered(k)
      <4>1. PICK p \in [Kind -> Nat] : PaidFor(p)
        BY DEF RedraftsPaid
      <4>2. newest' = newest + 1 /\ pc'[k] = "install"
        BY <2>4, <3>6 DEF AskForRedraft, Step
      <4>3. p[k] \in Nat /\ p[k] < attempt[k]
        <5>1. p[k] > 0 => 3 * p[k] + 1 <= Len(answers[k])
          BY <2>1, <4>1 DEF PaidFor, Over
        <5>2. p[k] \in Nat /\ attempt[k] \in Nat /\ Len(answers[k]) = 3 * attempt[k]
              /\ 1 <= Len(answers[k])
          BY <3>2, <3>4, <3>6
        <5>3. \A n \in Nat, a \in Nat : 1 <= 3 * a /\ (n > 0 => 3 * n + 1 <= 3 * a) => n < a
          OBVIOUS
        <5> QED
          BY <5>1, <5>2, <5>3, SMTT(30)
      <4> DEFINE q == [p EXCEPT ![k] = p[k] + 1]
      <4>4. q \in [Kind -> Nat] /\ q[k] = p[k] + 1 /\ \A c \in Kind \ {k} : q[c] = p[c]
        BY <4>3
      <4>5. newest' <= LastShell + q["brand_steward"] + q["fact_check"]
        <5>1. newest <= LastShell + p["brand_steward"] + p["fact_check"]
          BY <4>1 DEF PaidFor
        <5>2. newest \in Nat /\ p["brand_steward"] \in Nat /\ p["fact_check"] \in Nat
          OBVIOUS
        <5>3. CASE k = "brand_steward"
          BY <4>2, <4>4, <5>1, <5>2, <5>3 DEF LastShell
        <5>4. CASE k = "fact_check"
          BY <4>2, <4>4, <5>1, <5>2, <5>4 DEF LastShell
        <5> QED
          BY <5>3, <5>4
      <4>6. q[k] + 1 <= limit'.attempts /\ 3 * q[k] + 1 <= Len(answers'[k])
        <5>1. \A n \in Nat, a \in Nat, m \in Nat : n < a /\ a < m =>
                n + 1 + 1 <= m /\ 3 * (n + 1) + 1 <= 3 * a + 1
          OBVIOUS
        <5>2. Len(answers'[k]) = 3 * attempt[k] + 1 /\ limit' = limit
          BY <2>1, <3>2, <3>4, <3>6
        <5>3. p[k] + 1 + 1 <= limit.attempts /\ 3 * (p[k] + 1) + 1 <= 3 * attempt[k] + 1
          BY <3>2, <4>3, <5>1
        <5>4. q[k] = p[k] + 1
          BY <4>4
        <5> HIDE DEF q
        <5> QED
          BY <5>2, <5>3, <5>4
      <4>7. \A c \in Kind \ {k} : q[c] > 0 =>
              /\ q[c] + 1 <= limit'.attempts
              /\ pc'[c] \notin Over => 3 * q[c] + 1 <= Len(answers'[c])
        BY <2>1, <2>2, <3>3, <4>1, <4>4 DEF PaidFor, Over
      <4> HIDE DEF q
      <4> QED
        BY <4>4, <4>5, <4>6, <4>7 DEF RedraftsPaid, PaidFor
    <3> QED
      BY <3>5, <3>6
  <2> QED
    BY <1>6, <2>3, <2>4 DEF Regenerate
<1>7. ASSUME NEW k \in Kind, VaultRefuses(k) PROVE RedraftsPaid'
  <2>1. StillAsks
    BY <1>7, LenTypes DEF VaultRefuses, StillAsks, Over, RunAgain, Forget, RecordFailure,
       FreeLock
  <2>2. UNCHANGED <<newest, limit>>
    BY <1>7 DEF VaultRefuses
  <2> QED
    BY <2>1, <2>2, PaidKeep
<1>8. ASSUME NEW k \in Kind, InstallDraft(k) PROVE RedraftsPaid'
  <2>1. StillAsks
    BY <1>8, LenTypes DEF InstallDraft, StillAsks, Over, Step
  <2>2. UNCHANGED <<newest, limit>>
    BY <1>8 DEF InstallDraft
  <2> QED
    BY <2>1, <2>2, PaidKeep
<1>9. ASSUME NEW k \in Kind, RecheckBrand(k) PROVE RedraftsPaid'
  <2>1. PICK answer \in Answers : Keep(k, answer)
    <3>1. text[k] \in Nat
      OBVIOUS
    <3> QED
      BY <1>9, <3>1, VerdictTypes DEF RecheckBrand
  <2>2. calls[k] <= Len(answers[k])
    BY <1>9 DEF RecheckBrand, Step, LoopInv, CallsInOrder, BeforeLoop, AnswersCover
  <2>3. \A c \in Kind : Len(answers[c]) <= Len(answers'[c])
    BY <2>1, <2>2, LenGrows
  <2>4. pc[k] \in {"judge", "check_brand"} /\ \A c \in Kind \ {k} : pc'[c] = pc[c]
    BY <1>9 DEF RecheckBrand, Settle, Step
  <2>5. StillAsks
    BY <2>3, <2>4 DEF StillAsks, Over
  <2>6. UNCHANGED <<newest, limit>>
    BY <1>9 DEF RecheckBrand
  <2> QED
    BY <2>5, <2>6, PaidKeep
<1>10. ASSUME NEW k \in Kind, RecheckFacts(k) PROVE RedraftsPaid'
  <2>1. calls[k] <= Len(answers[k])
    BY <1>10 DEF RecheckFacts, LoopInv, AnswersCover
  <2>2. \A c \in Kind : Len(answers[c]) <= Len(answers'[c])
    <3>1. CASE answers' = answers
      BY <3>1, LenTypes
    <3>2. CASE \E given \in VerdictsOn(k, text[k]) : Keep(k, AsCodes(given))
      <4>1. text[k] \in Nat
        OBVIOUS
      <4>2. PICK answer \in Answers : Keep(k, answer)
        BY <3>2, <4>1, VerdictTypes
      <4> QED
        BY <2>1, <4>2, LenGrows
    <3> QED
      BY <1>10, <3>1, <3>2 DEF RecheckFacts
  <2>3. pc[k] = "check_fact" /\ \A c \in Kind \ {k} : pc'[c] = pc[c]
    BY <1>10 DEF RecheckFacts, Conclude, Settle, Step
  <2>4. StillAsks
    BY <2>2, <2>3 DEF StillAsks, Over
  <2>5. UNCHANGED <<newest, limit>>
    BY <1>10 DEF RecheckFacts
  <2> QED
    BY <2>4, <2>5, PaidKeep
<1>11. ASSUME NEW k \in Kind, StoreVerdict(k) PROVE RedraftsPaid'
  <2>1. StillAsks
    BY <1>11, LenTypes DEF StoreVerdict, StillAsks, Over, Step
  <2>2. UNCHANGED <<newest, limit>>
    BY <1>11 DEF StoreVerdict
  <2> QED
    BY <2>1, <2>2, PaidKeep
<1>12. ASSUME NEW k \in Kind, MoveTask(k) PROVE RedraftsPaid'
  <2>1. \A c \in Kind \ {k} : pc'[c] = pc[c] /\ answers'[c] = answers[c]
    BY <1>12, AfterLoop DEF MoveTask, Step
  <2>2. pc[k] \notin Over
    BY <1>12 DEF MoveTask, Over
  <2>3. pc'[k] \notin Over => answers'[k] = answers[k]
    BY <1>12 DEF MoveTask, AfterTask, Leave, Step, Over
  <2>4. StillAsks
    BY <2>1, <2>2, <2>3, LenTypes DEF StillAsks, Over
  <2>5. UNCHANGED <<newest, limit>>
    BY <1>12 DEF MoveTask
  <2> QED
    BY <2>4, <2>5, PaidKeep
<1>13. ASSUME NEW k \in Kind, AdvanceFriday(k) PROVE RedraftsPaid'
  <2>1. \A c \in Kind \ {k} : pc'[c] = pc[c] /\ answers'[c] = answers[c]
    BY <1>13, AfterLoop DEF AdvanceFriday, Step
  <2>2. pc[k] \notin Over
    BY <1>13 DEF AdvanceFriday, Over
  <2>3. pc'[k] \notin Over => answers'[k] = answers[k]
    BY <1>13 DEF AdvanceFriday, AfterTask, Leave, Step, Over
  <2>4. StillAsks
    BY <2>1, <2>2, <2>3, LenTypes DEF StillAsks, Over
  <2>5. UNCHANGED <<newest, limit>>
    BY <1>13 DEF AdvanceFriday
  <2> QED
    BY <2>4, <2>5, PaidKeep
<1>14. ASSUME NEW k \in Kind, SendCard(k) PROVE RedraftsPaid'
  <2>1. \A c \in Kind \ {k} : pc'[c] = pc[c] /\ answers'[c] = answers[c]
    BY <1>14, AfterLoop DEF SendCard, Step
  <2>2. pc[k] \notin Over
    BY <1>14 DEF SendCard, Over
  <2>3. pc'[k] \notin Over => answers'[k] = answers[k]
    BY <1>14 DEF SendCard, AfterTask, Leave, Step, Over
  <2>4. StillAsks
    BY <2>1, <2>2, <2>3, LenTypes DEF StillAsks, Over
  <2>5. UNCHANGED <<newest, limit>>
    BY <1>14 DEF SendCard
  <2> QED
    BY <2>4, <2>5, PaidKeep
<1>15. ASSUME NEW k \in Kind, ReleaseDraft(k) PROVE RedraftsPaid'
  <2>1. StillAsks
    BY <1>15, LenTypes DEF ReleaseDraft, StillAsks, Over, Step, FreeLock
  <2>2. UNCHANGED <<newest, limit>>
    BY <1>15 DEF ReleaseDraft
  <2> QED
    BY <2>1, <2>2, PaidKeep
<1>16. ASSUME NEW k \in Kind, Reconcile(k) PROVE RedraftsPaid'
  <2>1. StillAsks
    BY <1>16, LenTypes DEF Reconcile, StillAsks, Over, Step, RecordFailure
  <2>2. UNCHANGED <<newest, limit>>
    BY <1>16 DEF Reconcile
  <2> QED
    BY <2>1, <2>2, PaidKeep
<1>17. ASSUME NEW k \in Kind, HandlerRaises(k) PROVE RedraftsPaid'
  <2>1. pc[k] = "release" => pc'[k] = "done"
    <3>1. ASSUME pc[k] = "release" PROVE state'[k] \in Terminal
      BY <1>17, <3>1 DEF HandlerRaises, RunAgain, RecordFailure, MovedIsTerminal, Moved
    <3> QED
      BY <1>17, <3>1 DEF HandlerRaises, RunAgain, Terminal
  <2>2. pc[k] \notin {"done", "crashed"} /\ (\A c \in Kind \ {k} : pc'[c] = pc[c]) /\
     UNCHANGED answers
    BY <1>17 DEF HandlerRaises, RunAgain
  <2>3. StillAsks
    BY <2>1, <2>2, LenTypes DEF StillAsks, Over
  <2>4. UNCHANGED <<newest, limit>>
    BY <1>17 DEF HandlerRaises
  <2> QED
    BY <2>3, <2>4, PaidKeep
<1>18. ASSUME NEW k \in Kind, WorkerCrashes(k) PROVE RedraftsPaid'
  <2>1. StillAsks
    BY <1>18, LenTypes DEF WorkerCrashes, StillAsks, Over, FreeLock, Forget, GoesWrong, Mishap
  <2>2. UNCHANGED <<newest, limit>>
    BY <1>18 DEF WorkerCrashes
  <2> QED
    BY <2>1, <2>2, PaidKeep
<1>19. ASSUME NEW k \in Kind, MessageExpires(k) PROVE RedraftsPaid'
  <2>1. StillAsks
    BY <1>19, LenTypes DEF MessageExpires, StillAsks, Over, RecordFailure, GoesWrong, Mishap
  <2>2. UNCHANGED <<newest, limit>>
    BY <1>19 DEF MessageExpires
  <2> QED
    BY <2>1, <2>2, PaidKeep
<1>20. ASSUME NEW k \in Kind, LoseLockSession(k) PROVE RedraftsPaid'
  <2>1. StillAsks
    BY <1>20, LenTypes DEF LoseLockSession, StillAsks, Over, GoesWrong, Mishap
  <2>2. UNCHANGED <<newest, limit>>
    BY <1>20 DEF LoseLockSession
  <2> QED
    BY <2>1, <2>2, PaidKeep
<1>21. CASE EditGatePolicy
  <2>1. StillAsks
    BY <1>21, LenTypes DEF EditGatePolicy, StillAsks, Over, HandlerTypes
  <2>2. UNCHANGED <<newest, limit>>
    BY <1>21 DEF EditGatePolicy
  <2> QED
    BY <2>1, <2>2, PaidKeep
<1>22. CASE FridayIsBlocked
  <2>1. StillAsks
    BY <1>22, LenTypes DEF FridayIsBlocked, StillAsks, Over, HandlerTypes
  <2>2. UNCHANGED <<newest, limit>>
    BY <1>22 DEF FridayIsBlocked
  <2> QED
    BY <2>1, <2>2, PaidKeep
<1>23. CASE FridayStarts
  <2>1. StillAsks
    BY <1>23, LenTypes DEF FridayStarts, StillAsks, Over, HandlerTypes
  <2>2. UNCHANGED <<newest, limit>>
    BY <1>23 DEF FridayStarts
  <2> QED
    BY <2>1, <2>2, PaidKeep
<1>24. CASE FridayReads
  <2>1. StillAsks
    BY <1>24, LenTypes DEF FridayReads, StillAsks, Over, HandlerTypes
  <2>2. UNCHANGED <<newest, limit>>
    BY <1>24 DEF FridayReads
  <2> QED
    BY <2>1, <2>2, PaidKeep
<1>25. CASE FridaySchedules
  <2>1. StillAsks
    BY <1>25, LenTypes DEF FridaySchedules, StillAsks, Over, HandlerTypes
  <2>2. UNCHANGED <<newest, limit>>
    BY <1>25 DEF FridaySchedules
  <2> QED
    BY <2>1, <2>2, PaidKeep
<1>26. CASE UNCHANGED qaVars
  BY <1>26 DEF qaVars, RedraftsPaid, PaidFor
<1> QED
  BY <1>1, <1>2, <1>3, <1>4, <1>5, <1>6, <1>7, <1>8, <1>9, <1>10, <1>11, <1>12, <1>13,
     <1>14, <1>15, <1>16, <1>17, <1>18, <1>19, <1>20, <1>21, <1>22, <1>23, <1>24, <1>25,
     <1>26
     DEF QaNext, ReviewStep, ReviewMishap, FridayStep

\* Mishaps are counted, and what the draft is stays.
LEMMA CalmBefore ==
  ASSUME mishaps \in Nat, mishaps' = 0, [QaNext]_qaVars
  PROVE  mishaps = 0 /\ drafted' = drafted
<1> USE DEF taskVars, draftVars, loopVars, planVars, lockVars, fridayVars, givenVars,
          gateVars, faultVars, StayReviewed,
          Kind
<1>1. ASSUME NEW k \in Kind, CheckState(k) PROVE mishaps = 0 /\ drafted' = drafted
  BY <1>1 DEF CheckState
<1>2. ASSUME NEW k \in Kind, StartReview(k) PROVE mishaps = 0 /\ drafted' = drafted
  BY <1>2 DEF StartReview
<1>3. ASSUME NEW k \in Kind, LookAtDraft(k) PROVE mishaps = 0 /\ drafted' = drafted
  BY <1>3 DEF LookAtDraft
<1>4. ASSUME NEW k \in Kind, Judge(k) PROVE mishaps = 0 /\ drafted' = drafted
  BY <1>4 DEF Judge
<1>5. ASSUME NEW k \in Kind, ClaimDraft(k) PROVE mishaps = 0 /\ drafted' = drafted
  BY <1>5 DEF ClaimDraft
<1>6. ASSUME NEW k \in Kind, Regenerate(k) PROVE mishaps = 0 /\ drafted' = drafted
  BY <1>6 DEF Regenerate
<1>7. ASSUME NEW k \in Kind, VaultRefuses(k) PROVE mishaps = 0 /\ drafted' = drafted
  BY <1>7 DEF VaultRefuses
<1>8. ASSUME NEW k \in Kind, InstallDraft(k) PROVE mishaps = 0 /\ drafted' = drafted
  BY <1>8 DEF InstallDraft
<1>9. ASSUME NEW k \in Kind, RecheckBrand(k) PROVE mishaps = 0 /\ drafted' = drafted
  BY <1>9 DEF RecheckBrand
<1>10. ASSUME NEW k \in Kind, RecheckFacts(k) PROVE mishaps = 0 /\ drafted' = drafted
  BY <1>10 DEF RecheckFacts
<1>11. ASSUME NEW k \in Kind, StoreVerdict(k) PROVE mishaps = 0 /\ drafted' = drafted
  BY <1>11 DEF StoreVerdict
<1>12. ASSUME NEW k \in Kind, MoveTask(k) PROVE mishaps = 0 /\ drafted' = drafted
  BY <1>12 DEF MoveTask
<1>13. ASSUME NEW k \in Kind, AdvanceFriday(k) PROVE mishaps = 0 /\ drafted' = drafted
  BY <1>13 DEF AdvanceFriday
<1>14. ASSUME NEW k \in Kind, SendCard(k) PROVE mishaps = 0 /\ drafted' = drafted
  BY <1>14 DEF SendCard
<1>15. ASSUME NEW k \in Kind, ReleaseDraft(k) PROVE mishaps = 0 /\ drafted' = drafted
  BY <1>15 DEF ReleaseDraft
<1>16. ASSUME NEW k \in Kind, Reconcile(k) PROVE mishaps = 0 /\ drafted' = drafted
  BY <1>16 DEF Reconcile
<1>17. ASSUME NEW k \in Kind, HandlerRaises(k) PROVE mishaps = 0 /\ drafted' = drafted
  BY <1>17 DEF HandlerRaises, GoesWrong, Mishap
<1>18. ASSUME NEW k \in Kind, WorkerCrashes(k) PROVE mishaps = 0 /\ drafted' = drafted
  BY <1>18 DEF WorkerCrashes, GoesWrong, Mishap
<1>19. ASSUME NEW k \in Kind, MessageExpires(k) PROVE mishaps = 0 /\ drafted' = drafted
  BY <1>19 DEF MessageExpires, GoesWrong, Mishap
<1>20. ASSUME NEW k \in Kind, LoseLockSession(k) PROVE mishaps = 0 /\ drafted' = drafted
  BY <1>20 DEF LoseLockSession, GoesWrong, Mishap
<1>21. CASE EditGatePolicy
  BY <1>21 DEF EditGatePolicy
<1>22. CASE FridayIsBlocked
  BY <1>22 DEF FridayIsBlocked
<1>23. CASE FridayStarts
  BY <1>23 DEF FridayStarts
<1>24. CASE FridayReads
  BY <1>24 DEF FridayReads
<1>25. CASE FridaySchedules
  BY <1>25 DEF FridaySchedules
<1>26. CASE UNCHANGED qaVars
  BY <1>26 DEF qaVars
<1> QED
  BY <1>1, <1>2, <1>3, <1>4, <1>5, <1>6, <1>7, <1>8, <1>9, <1>10, <1>11, <1>12, <1>13,
     <1>14, <1>15, <1>16, <1>17, <1>18, <1>19, <1>20, <1>21, <1>22, <1>23, <1>24, <1>25,
     <1>26
     DEF QaNext, ReviewStep, ReviewMishap, FridayStep

\* A handler that decides plans a card just when it rejects.
LEMMA PlansStep ==
  ASSUME HandlerTypes, GivenTypes, HandlerKnows, PlansSound, drafted = "asset",
         mishaps' = 0, [QaNext]_qaVars
  PROVE  PlansSound'
<1> USE DEF taskVars, draftVars, loopVars, planVars, lockVars, fridayVars, givenVars,
          gateVars, faultVars, StayReviewed,
          HandlerTypes, GivenTypes, HandlerKnows, PlansSound, Settling, Kind, Other, HandlerSteps,
          Steps
<1>1. ASSUME NEW k \in Kind, CheckState(k) PROVE PlansSound'
  BY <1>1 DEF CheckState, Step
<1>2. ASSUME NEW k \in Kind, StartReview(k) PROVE PlansSound'
  BY <1>2 DEF StartReview, Step
<1>3. ASSUME NEW k \in Kind, LookAtDraft(k) PROVE PlansSound'
  BY <1>3 DEF LookAtDraft, Step, Settle
<1>4. ASSUME NEW k \in Kind, Judge(k) PROVE PlansSound'
  BY <1>4 DEF Judge, Step, Settle, Count
<1>5. ASSUME NEW k \in Kind, ClaimDraft(k) PROVE PlansSound'
  BY <1>5 DEF ClaimDraft, Step, Settle
<1>6. ASSUME NEW k \in Kind, Regenerate(k) PROVE PlansSound'
  BY <1>6 DEF Regenerate, Step, Settle, AskForRedraft, Count
<1>7. ASSUME NEW k \in Kind, VaultRefuses(k) PROVE PlansSound'
  BY <1>7 DEF VaultRefuses, RunAgain, Forget, RecordFailure, FreeLock
<1>8. ASSUME NEW k \in Kind, InstallDraft(k) PROVE PlansSound'
  BY <1>8 DEF InstallDraft, Step
<1>9. ASSUME NEW k \in Kind, RecheckBrand(k) PROVE PlansSound'
  BY <1>9 DEF RecheckBrand, Step, Count
<1>10. ASSUME NEW k \in Kind, RecheckFacts(k) PROVE PlansSound'
  BY <1>10 DEF RecheckFacts, Step, Settle, Conclude
<1>11. ASSUME NEW k \in Kind, StoreVerdict(k) PROVE PlansSound'
  BY <1>11 DEF StoreVerdict, Step
<1>12. ASSUME NEW k \in Kind, MoveTask(k) PROVE PlansSound'
  BY <1>12 DEF MoveTask, Step, AfterTask, Leave
<1>13. ASSUME NEW k \in Kind, AdvanceFriday(k) PROVE PlansSound'
  BY <1>13 DEF AdvanceFriday, AfterTask, Leave
<1>14. ASSUME NEW k \in Kind, SendCard(k) PROVE PlansSound'
  BY <1>14 DEF SendCard, Leave
<1>15. ASSUME NEW k \in Kind, ReleaseDraft(k) PROVE PlansSound'
  BY <1>15 DEF ReleaseDraft, Step, FreeLock
<1>16. ASSUME NEW k \in Kind, Reconcile(k) PROVE PlansSound'
  BY <1>16 DEF Reconcile, Step, RecordFailure
<1>17. ASSUME NEW k \in Kind, HandlerRaises(k) PROVE PlansSound'
  BY <1>17 DEF HandlerRaises, GoesWrong, Mishap
<1>18. ASSUME NEW k \in Kind, WorkerCrashes(k) PROVE PlansSound'
  BY <1>18 DEF WorkerCrashes, GoesWrong, Mishap
<1>19. ASSUME NEW k \in Kind, MessageExpires(k) PROVE PlansSound'
  BY <1>19 DEF MessageExpires, GoesWrong, Mishap
<1>20. ASSUME NEW k \in Kind, LoseLockSession(k) PROVE PlansSound'
  BY <1>20 DEF LoseLockSession, GoesWrong, Mishap
<1>21. CASE EditGatePolicy
  BY <1>21 DEF EditGatePolicy
<1>22. CASE FridayIsBlocked
  BY <1>22 DEF FridayIsBlocked
<1>23. CASE FridayStarts
  BY <1>23 DEF FridayStarts
<1>24. CASE FridayReads
  BY <1>24 DEF FridayReads
<1>25. CASE FridaySchedules
  BY <1>25 DEF FridaySchedules
<1>26. CASE UNCHANGED qaVars
  BY <1>26 DEF qaVars
<1> QED
  BY <1>1, <1>2, <1>3, <1>4, <1>5, <1>6, <1>7, <1>8, <1>9, <1>10, <1>11, <1>12, <1>13,
     <1>14, <1>15, <1>16, <1>17, <1>18, <1>19, <1>20, <1>21, <1>22, <1>23, <1>24, <1>25,
     <1>26
     DEF QaNext, ReviewStep, ReviewMishap, FridayStep

\* A card that is planned is sent.
LEMMA CardStep ==
  ASSUME HandlerTypes, GivenTypes, PlansSound, CardIsComing, mishaps' = 0, [QaNext]_qaVars
  PROVE  carded' \/ CardIsComing'
<1> USE DEF taskVars, draftVars, loopVars, planVars, lockVars, fridayVars, givenVars,
          gateVars, faultVars, StayReviewed,
          HandlerTypes, GivenTypes, PlansSound, Settling, CardIsComing, Kind, Other, HandlerSteps
<1>1. ASSUME NEW k \in Kind, CheckState(k) PROVE carded' \/ CardIsComing'
  BY <1>1 DEF CheckState, Step
<1>2. ASSUME NEW k \in Kind, StartReview(k) PROVE carded' \/ CardIsComing'
  BY <1>2 DEF StartReview, Step
<1>3. ASSUME NEW k \in Kind, LookAtDraft(k) PROVE carded' \/ CardIsComing'
  BY <1>3 DEF LookAtDraft, Step, Settle
<1>4. ASSUME NEW k \in Kind, Judge(k) PROVE carded' \/ CardIsComing'
  BY <1>4 DEF Judge, Step, Settle, Count
<1>5. ASSUME NEW k \in Kind, ClaimDraft(k) PROVE carded' \/ CardIsComing'
  BY <1>5 DEF ClaimDraft, Step, Settle
<1>6. ASSUME NEW k \in Kind, Regenerate(k) PROVE carded' \/ CardIsComing'
  BY <1>6 DEF Regenerate, Step, Settle, AskForRedraft, Count
<1>7. ASSUME NEW k \in Kind, VaultRefuses(k) PROVE carded' \/ CardIsComing'
  BY <1>7 DEF VaultRefuses, RunAgain, Forget, RecordFailure, FreeLock
<1>8. ASSUME NEW k \in Kind, InstallDraft(k) PROVE carded' \/ CardIsComing'
  BY <1>8 DEF InstallDraft, Step
<1>9. ASSUME NEW k \in Kind, RecheckBrand(k) PROVE carded' \/ CardIsComing'
  BY <1>9 DEF RecheckBrand, Step, Count
<1>10. ASSUME NEW k \in Kind, RecheckFacts(k) PROVE carded' \/ CardIsComing'
  BY <1>10 DEF RecheckFacts, Step, Settle, Conclude
<1>11. ASSUME NEW k \in Kind, StoreVerdict(k) PROVE carded' \/ CardIsComing'
  BY <1>11 DEF StoreVerdict, Step
<1>12. ASSUME NEW k \in Kind, MoveTask(k) PROVE carded' \/ CardIsComing'
  BY <1>12 DEF MoveTask, Step, AfterTask, Leave
<1>13. ASSUME NEW k \in Kind, AdvanceFriday(k) PROVE carded' \/ CardIsComing'
  BY <1>13 DEF AdvanceFriday, AfterTask, Leave
<1>14. ASSUME NEW k \in Kind, SendCard(k) PROVE carded' \/ CardIsComing'
  BY <1>14 DEF SendCard, Leave
<1>15. ASSUME NEW k \in Kind, ReleaseDraft(k) PROVE carded' \/ CardIsComing'
  BY <1>15 DEF ReleaseDraft, Step, FreeLock
<1>16. ASSUME NEW k \in Kind, Reconcile(k) PROVE carded' \/ CardIsComing'
  BY <1>16 DEF Reconcile, Step, RecordFailure
<1>17. ASSUME NEW k \in Kind, HandlerRaises(k) PROVE carded' \/ CardIsComing'
  BY <1>17 DEF HandlerRaises, GoesWrong, Mishap
<1>18. ASSUME NEW k \in Kind, WorkerCrashes(k) PROVE carded' \/ CardIsComing'
  BY <1>18 DEF WorkerCrashes, GoesWrong, Mishap
<1>19. ASSUME NEW k \in Kind, MessageExpires(k) PROVE carded' \/ CardIsComing'
  BY <1>19 DEF MessageExpires, GoesWrong, Mishap
<1>20. ASSUME NEW k \in Kind, LoseLockSession(k) PROVE carded' \/ CardIsComing'
  BY <1>20 DEF LoseLockSession, GoesWrong, Mishap
<1>21. CASE EditGatePolicy
  BY <1>21 DEF EditGatePolicy
<1>22. CASE FridayIsBlocked
  BY <1>22 DEF FridayIsBlocked
<1>23. CASE FridayStarts
  BY <1>23 DEF FridayStarts
<1>24. CASE FridayReads
  BY <1>24 DEF FridayReads
<1>25. CASE FridaySchedules
  BY <1>25 DEF FridaySchedules
<1>26. CASE UNCHANGED qaVars
  BY <1>26 DEF qaVars
<1> QED
  BY <1>1, <1>2, <1>3, <1>4, <1>5, <1>6, <1>7, <1>8, <1>9, <1>10, <1>11, <1>12, <1>13,
     <1>14, <1>15, <1>16, <1>17, <1>18, <1>19, <1>20, <1>21, <1>22, <1>23, <1>24, <1>25,
     <1>26
     DEF QaNext, ReviewStep, ReviewMishap, FridayStep

\* A review that fails plans its card; the one that completes last wakes Friday.
LEMMA NothingLostStep ==
  ASSUME HandlerTypes, SharedTypes, GivenTypes, HandlerKnows, VerdictFirst, StrikesLeft,
         PlansSound, NothingIsLost, ~CardIsComing, drafted = "asset", mishaps' = 0,
         [QaNext]_qaVars
  PROVE  carded' \/ CardIsComing' \/ NothingIsLost'
<1> USE DEF taskVars, draftVars, loopVars, planVars, lockVars, fridayVars, givenVars,
          gateVars, faultVars, StayReviewed,
          HandlerTypes, SharedTypes, GivenTypes, HandlerKnows, VerdictFirst, PlansSound, Settling,
          CardIsComing, NothingIsLost, HasSettled, Kind, Other, HandlerSteps,
          StrikesLeft, Terminal, DeadLetterStrike
<1>1. ASSUME NEW k \in Kind, CheckState(k) PROVE carded' \/ CardIsComing' \/ NothingIsLost'
  BY <1>1 DEF CheckState, Step
<1>2. ASSUME NEW k \in Kind, StartReview(k) PROVE carded' \/ CardIsComing' \/ NothingIsLost'
  BY <1>2 DEF StartReview, Step
<1>3. ASSUME NEW k \in Kind, LookAtDraft(k) PROVE carded' \/ CardIsComing' \/ NothingIsLost'
  BY <1>3 DEF LookAtDraft, Step, Settle
<1>4. ASSUME NEW k \in Kind, Judge(k) PROVE carded' \/ CardIsComing' \/ NothingIsLost'
  BY <1>4 DEF Judge, Step, Settle, Count
<1>5. ASSUME NEW k \in Kind, ClaimDraft(k) PROVE carded' \/ CardIsComing' \/ NothingIsLost'
  BY <1>5 DEF ClaimDraft, Step, Settle
<1>6. ASSUME NEW k \in Kind, Regenerate(k) PROVE carded' \/ CardIsComing' \/ NothingIsLost'
  BY <1>6 DEF Regenerate, Step, Settle, AskForRedraft, Count
<1>7. ASSUME NEW k \in Kind, VaultRefuses(k) PROVE carded' \/ CardIsComing' \/ NothingIsLost'
  <2>1. /\ pc[k] = "install" /\ UNCHANGED <<ref, friday, drafted>>
        /\ \A c \in Kind \ {k} : pc'[c] = pc[c] /\ settling'[c] = settling[c]
    BY <1>7 DEF VaultRefuses, RunAgain, Forget, RecordFailure
  <2>2. \A c \in Kind \ {k} : state'[c] = state[c]
    BY <1>7 DEF VaultRefuses, RunAgain, RecordFailure
  <2>3. CASE state[k] \in Terminal
    <3>1. state' = state /\ pc'[k] = "done" /\ state[k] = "completed"
      BY <1>7, <2>3 DEF VaultRefuses, RunAgain, RecordFailure
    <3> QED
      BY <2>1, <3>1
  <2>4. CASE state[k] \notin Terminal
    <3>1. strikes[k] + 1 < DeadLetterStrike \/ strikes[k] + 1 = DeadLetterStrike
      BY <2>4
    <3>2. CASE strikes[k] + 1 = DeadLetterStrike
      BY <1>7, <2>4, <3>2 DEF VaultRefuses, RunAgain, RecordFailure
    <3>3. CASE strikes[k] + 1 < DeadLetterStrike
      <4>1. state'[k] = "retry_pending" /\ pc'[k] = "look"
        BY <1>7, <2>4, <3>3 DEF VaultRefuses, RunAgain, RecordFailure
      <4> QED
        BY <2>1, <2>2, <4>1
    <3> QED
      BY <3>1, <3>2, <3>3
  <2> QED
    BY <2>3, <2>4
<1>8. ASSUME NEW k \in Kind, InstallDraft(k) PROVE carded' \/ CardIsComing' \/ NothingIsLost'
  BY <1>8 DEF InstallDraft, Step
<1>9. ASSUME NEW k \in Kind, RecheckBrand(k) PROVE carded' \/ CardIsComing' \/ NothingIsLost'
  BY <1>9 DEF RecheckBrand, Step, Count
<1>10. ASSUME NEW k \in Kind, RecheckFacts(k) PROVE carded' \/ CardIsComing' \/ NothingIsLost'
  BY <1>10 DEF RecheckFacts, Step, Settle, Conclude
<1>11. ASSUME NEW k \in Kind, StoreVerdict(k) PROVE carded' \/ CardIsComing' \/ NothingIsLost'
  BY <1>11 DEF StoreVerdict, Step
<1>12. ASSUME NEW k \in Kind, MoveTask(k) PROVE carded' \/ CardIsComing' \/ NothingIsLost'
  BY <1>12 DEF MoveTask, Step, AfterTask, Leave
<1>13. ASSUME NEW k \in Kind, AdvanceFriday(k) PROVE carded' \/ CardIsComing' \/ NothingIsLost'
  BY <1>13 DEF AdvanceFriday, AfterTask, Leave
<1>14. ASSUME NEW k \in Kind, SendCard(k) PROVE carded' \/ CardIsComing' \/ NothingIsLost'
  BY <1>14 DEF SendCard, Leave
<1>15. ASSUME NEW k \in Kind, ReleaseDraft(k) PROVE carded' \/ CardIsComing' \/ NothingIsLost'
  BY <1>15 DEF ReleaseDraft, Step, FreeLock
<1>16. ASSUME NEW k \in Kind, Reconcile(k) PROVE carded' \/ CardIsComing' \/ NothingIsLost'
  BY <1>16 DEF Reconcile, Step, RecordFailure
<1>17. ASSUME NEW k \in Kind, HandlerRaises(k) PROVE carded' \/ CardIsComing' \/ NothingIsLost'
  BY <1>17 DEF HandlerRaises, GoesWrong, Mishap
<1>18. ASSUME NEW k \in Kind, WorkerCrashes(k) PROVE carded' \/ CardIsComing' \/ NothingIsLost'
  BY <1>18 DEF WorkerCrashes, GoesWrong, Mishap
<1>19. ASSUME NEW k \in Kind, MessageExpires(k) PROVE carded' \/ CardIsComing' \/ NothingIsLost'
  BY <1>19 DEF MessageExpires, GoesWrong, Mishap
<1>20. ASSUME NEW k \in Kind, LoseLockSession(k) PROVE carded' \/ CardIsComing' \/ NothingIsLost'
  BY <1>20 DEF LoseLockSession, GoesWrong, Mishap
<1>21. CASE EditGatePolicy
  BY <1>21 DEF EditGatePolicy
<1>22. CASE FridayIsBlocked
  BY <1>22 DEF FridayIsBlocked
<1>23. CASE FridayStarts
  BY <1>23 DEF FridayStarts
<1>24. CASE FridayReads
  BY <1>24 DEF FridayReads, FridaySees
<1>25. CASE FridaySchedules
  BY <1>25 DEF FridaySchedules
<1>26. CASE UNCHANGED qaVars
  BY <1>26 DEF qaVars
<1> QED
  BY <1>1, <1>2, <1>3, <1>4, <1>5, <1>6, <1>7, <1>8, <1>9, <1>10, <1>11, <1>12, <1>13,
     <1>14, <1>15, <1>16, <1>17, <1>18, <1>19, <1>20, <1>21, <1>22, <1>23, <1>24, <1>25,
     <1>26, ZenonT(40)
     DEF QaNext, ReviewStep, ReviewMishap, FridayStep

\* Once a card is in Teams, it stays there.
LEMMA CardedStep ==
  ASSUME carded, carded \in BOOLEAN, mishaps' = 0, [QaNext]_qaVars
  PROVE  carded'
<1> USE DEF taskVars, draftVars, loopVars, planVars, lockVars, fridayVars, givenVars,
          gateVars, faultVars, StayReviewed,
          Kind
<1>1. ASSUME NEW k \in Kind, CheckState(k) PROVE carded'
  BY <1>1 DEF CheckState
<1>2. ASSUME NEW k \in Kind, StartReview(k) PROVE carded'
  BY <1>2 DEF StartReview
<1>3. ASSUME NEW k \in Kind, LookAtDraft(k) PROVE carded'
  BY <1>3 DEF LookAtDraft
<1>4. ASSUME NEW k \in Kind, Judge(k) PROVE carded'
  BY <1>4 DEF Judge
<1>5. ASSUME NEW k \in Kind, ClaimDraft(k) PROVE carded'
  BY <1>5 DEF ClaimDraft
<1>6. ASSUME NEW k \in Kind, Regenerate(k) PROVE carded'
  BY <1>6 DEF Regenerate
<1>7. ASSUME NEW k \in Kind, VaultRefuses(k) PROVE carded'
  BY <1>7 DEF VaultRefuses, RunAgain, RecordFailure
<1>8. ASSUME NEW k \in Kind, InstallDraft(k) PROVE carded'
  BY <1>8 DEF InstallDraft
<1>9. ASSUME NEW k \in Kind, RecheckBrand(k) PROVE carded'
  BY <1>9 DEF RecheckBrand
<1>10. ASSUME NEW k \in Kind, RecheckFacts(k) PROVE carded'
  BY <1>10 DEF RecheckFacts
<1>11. ASSUME NEW k \in Kind, StoreVerdict(k) PROVE carded'
  BY <1>11 DEF StoreVerdict
<1>12. ASSUME NEW k \in Kind, MoveTask(k) PROVE carded'
  BY <1>12 DEF MoveTask
<1>13. ASSUME NEW k \in Kind, AdvanceFriday(k) PROVE carded'
  BY <1>13 DEF AdvanceFriday
<1>14. ASSUME NEW k \in Kind, SendCard(k) PROVE carded'
  BY <1>14 DEF SendCard
<1>15. ASSUME NEW k \in Kind, ReleaseDraft(k) PROVE carded'
  BY <1>15 DEF ReleaseDraft
<1>16. ASSUME NEW k \in Kind, Reconcile(k) PROVE carded'
  BY <1>16 DEF Reconcile, RecordFailure
<1>17. ASSUME NEW k \in Kind, HandlerRaises(k) PROVE carded'
  BY <1>17 DEF HandlerRaises, RunAgain, RecordFailure
<1>18. ASSUME NEW k \in Kind, WorkerCrashes(k) PROVE carded'
  BY <1>18 DEF WorkerCrashes, GoesWrong, Mishap
<1>19. ASSUME NEW k \in Kind, MessageExpires(k) PROVE carded'
  BY <1>19 DEF MessageExpires, RecordFailure
<1>20. ASSUME NEW k \in Kind, LoseLockSession(k) PROVE carded'
  BY <1>20 DEF LoseLockSession, GoesWrong, Mishap
<1>21. CASE EditGatePolicy
  BY <1>21 DEF EditGatePolicy
<1>22. CASE FridayIsBlocked
  BY <1>22 DEF FridayIsBlocked
<1>23. CASE FridayStarts
  BY <1>23 DEF FridayStarts
<1>24. CASE FridayReads
  BY <1>24 DEF FridayReads
<1>25. CASE FridaySchedules
  BY <1>25 DEF FridaySchedules
<1>26. CASE UNCHANGED qaVars
  BY <1>26 DEF qaVars
<1> QED
  BY <1>1, <1>2, <1>3, <1>4, <1>5, <1>6, <1>7, <1>8, <1>9, <1>10, <1>11, <1>12, <1>13,
     <1>14, <1>15, <1>16, <1>17, <1>18, <1>19, <1>20, <1>21, <1>22, <1>23, <1>24, <1>25,
     <1>26
     DEF QaNext, ReviewStep, ReviewMishap, FridayStep

\* The third strike ends a review.
LEMMA StrikesStep ==
  ASSUME HandlerTypes, SharedTypes, StrikesLeft, [QaNext]_qaVars
  PROVE  StrikesLeft'
<1> USE DEF taskVars, draftVars, loopVars, planVars, lockVars, fridayVars, givenVars,
          gateVars, faultVars, StayReviewed,
          HandlerTypes, SharedTypes, StrikesLeft, Kind, Other, HandlerSteps, Terminal,
          DeadLetterStrike
<1>1. ASSUME NEW k \in Kind, CheckState(k) PROVE StrikesLeft'
  BY <1>1 DEF CheckState, Step
<1>2. ASSUME NEW k \in Kind, StartReview(k) PROVE StrikesLeft'
  BY <1>2 DEF StartReview, Step
<1>3. ASSUME NEW k \in Kind, LookAtDraft(k) PROVE StrikesLeft'
  BY <1>3 DEF LookAtDraft, Step, Settle
<1>4. ASSUME NEW k \in Kind, Judge(k) PROVE StrikesLeft'
  BY <1>4 DEF Judge, Step, Settle, Count
<1>5. ASSUME NEW k \in Kind, ClaimDraft(k) PROVE StrikesLeft'
  BY <1>5 DEF ClaimDraft, Step, Settle
<1>6. ASSUME NEW k \in Kind, Regenerate(k) PROVE StrikesLeft'
  BY <1>6 DEF Regenerate, Step, Settle, AskForRedraft, Count
<1>7. ASSUME NEW k \in Kind, VaultRefuses(k) PROVE StrikesLeft'
  BY <1>7 DEF VaultRefuses, RunAgain, Forget, RecordFailure, FreeLock
<1>8. ASSUME NEW k \in Kind, InstallDraft(k) PROVE StrikesLeft'
  BY <1>8 DEF InstallDraft, Step
<1>9. ASSUME NEW k \in Kind, RecheckBrand(k) PROVE StrikesLeft'
  BY <1>9 DEF RecheckBrand, Step, Count
<1>10. ASSUME NEW k \in Kind, RecheckFacts(k) PROVE StrikesLeft'
  BY <1>10 DEF RecheckFacts, Step, Settle, Conclude
<1>11. ASSUME NEW k \in Kind, StoreVerdict(k) PROVE StrikesLeft'
  BY <1>11 DEF StoreVerdict, Step
<1>12. ASSUME NEW k \in Kind, MoveTask(k) PROVE StrikesLeft'
  BY <1>12 DEF MoveTask, Step, AfterTask, Leave
<1>13. ASSUME NEW k \in Kind, AdvanceFriday(k) PROVE StrikesLeft'
  BY <1>13 DEF AdvanceFriday, AfterTask, Leave
<1>14. ASSUME NEW k \in Kind, SendCard(k) PROVE StrikesLeft'
  BY <1>14 DEF SendCard, Leave
<1>15. ASSUME NEW k \in Kind, ReleaseDraft(k) PROVE StrikesLeft'
  BY <1>15 DEF ReleaseDraft, Step, FreeLock
<1>16. ASSUME NEW k \in Kind, Reconcile(k) PROVE StrikesLeft'
  BY <1>16 DEF Reconcile, Step, RecordFailure
<1>17. ASSUME NEW k \in Kind, HandlerRaises(k) PROVE StrikesLeft'
  BY <1>17 DEF HandlerRaises, RunAgain, Forget, RecordFailure, FreeLock, GoesWrong, Mishap
<1>18. ASSUME NEW k \in Kind, WorkerCrashes(k) PROVE StrikesLeft'
  BY <1>18 DEF WorkerCrashes, FreeLock, Forget, GoesWrong, Mishap
<1>19. ASSUME NEW k \in Kind, MessageExpires(k) PROVE StrikesLeft'
  BY <1>19 DEF MessageExpires, RecordFailure, GoesWrong, Mishap
<1>20. ASSUME NEW k \in Kind, LoseLockSession(k) PROVE StrikesLeft'
  BY <1>20 DEF LoseLockSession, GoesWrong, Mishap
<1>21. CASE EditGatePolicy
  BY <1>21 DEF EditGatePolicy
<1>22. CASE FridayIsBlocked
  BY <1>22 DEF FridayIsBlocked
<1>23. CASE FridayStarts
  BY <1>23 DEF FridayStarts
<1>24. CASE FridayReads
  BY <1>24 DEF FridayReads
<1>25. CASE FridaySchedules
  BY <1>25 DEF FridaySchedules
<1>26. CASE UNCHANGED qaVars
  BY <1>26 DEF qaVars
<1> QED
  BY <1>1, <1>2, <1>3, <1>4, <1>5, <1>6, <1>7, <1>8, <1>9, <1>10, <1>11, <1>12, <1>13,
     <1>14, <1>15, <1>16, <1>17, <1>18, <1>19, <1>20, <1>21, <1>22, <1>23, <1>24, <1>25,
     <1>26
     DEF QaNext, ReviewStep, ReviewMishap, FridayStep

\* A written draft stays heard of, or on its way.
LEMMA HeardStep ==
  ASSUME QaInv, [QaNext]_qaVars
  PROVE  HeardInv'
<1>1. HandlerTypes /\ SharedTypes /\ GivenTypes
  BY TypeParts DEF QaInv
<1>2. StrikesLeft'
  BY <1>1, StrikesStep DEF QaInv, HeardInv
<1>3. Heard'
  <2> SUFFICES ASSUME mishaps' = 0, drafted' = "asset"
               PROVE  PlansSound' /\ (carded' \/ CardIsComing' \/ NothingIsLost')
    BY DEF Heard
  <2>1. mishaps = 0 /\ drafted = "asset"
    BY <1>1, CalmBefore DEF GivenTypes
  <2>2. PlansSound /\ (carded \/ CardIsComing \/ NothingIsLost)
    BY <2>1 DEF QaInv, HeardInv, Heard
  <2>3. PlansSound'
    BY <1>1, <2>1, <2>2, PlansStep DEF QaInv, VerdictInv
  <2>4. carded' \/ CardIsComing' \/ NothingIsLost'
    <3>1. CASE carded
      BY <1>1, <3>1, CardedStep DEF GivenTypes
    <3>2. CASE CardIsComing
      BY <1>1, <2>2, <3>2, CardStep
    <3>3. CASE NothingIsLost /\ ~CardIsComing
      BY <1>1, <2>1, <2>2, <3>3, NothingLostStep DEF QaInv, VerdictInv, HeardInv
    <3> QED
      BY <2>2, <3>1, <3>2, <3>3
  <2> QED
    BY <2>3, <2>4
<1> QED
  BY <1>2, <1>3 DEF HeardInv

\* The initial states satisfy the invariants.
LEMMA QaStarts == QaInit => QaInv
<1> SUFFICES ASSUME QaInit PROVE QaInv
  OBVIOUS
<1> USE DEF QaInit, Kind
<1>1. HandlerTypes
  BY DEF HandlerTypes, Steps, FirstDraft, NothingFound, Findings, NoPlan, RefSays
<1>2. SharedTypes
  BY DEF SharedTypes, ReviewStates, NoRef, RefSays, FirstDraft, LastShell, NoOne
<1>3. AnswerTypes
  BY DEF AnswerTypes
<1>4. GivenTypes
  BY QaAssumption DEF GivenTypes
<1>5. CallsInOrder
  <2>1. \A n \in Nat : 0 <= n
    OBVIOUS
  <2>2. limit.attempts \in Nat
    BY <1>4 DEF GivenTypes, Bounds
  <2> QED
    BY <2>1, <2>2 DEF CallsInOrder, BeforeLoop
<1>6. AnswersCover /\ TextRendered
  BY DEF AnswersCover, TextRendered
<1>7. RoundsMatch
  <2>1. \A k \in Kind : answers[k] = <<>> /\ Len(<<>>) = 0
    OBVIOUS
  <2>2. \A a \in Nat : ~(3 * a + 2 <= 0) /\ ~(3 * a + 3 <= 0)
    OBVIOUS
  <2> HIDE DEF QaInit
  <2> QED
    BY <2>1, <2>2 DEF RoundsMatch
<1>8. HandlerKnows /\ PassIsEarned /\ VerdictFirst
  BY DEF HandlerKnows, Settling, PassIsEarned, VerdictFirst, NoRef
<1>9. FridayInv
  BY DEF FridayInv, FridayKnows, ScheduledIsReviewed
<1>10. MovedIsTerminal /\ StrikesLeft
  BY DEF MovedIsTerminal, Moved, StrikesLeft, DeadLetterStrike
<1>11. RedraftsPaid
  <2>1. [k \in Kind |-> 0] \in [Kind -> Nat]
    OBVIOUS
  <2>2. PaidFor([k \in Kind |-> 0])
    BY DEF PaidFor, LastShell
  <2> QED
    BY <2>1, <2>2 DEF RedraftsPaid
<1>12. Heard
  BY DEF Heard, PlansSound, NothingIsLost, HasSettled, Settling, NoRef
<1> QED
  BY <1>1, <1>2, <1>3, <1>4, <1>5, <1>6, <1>7, <1>8, <1>9, <1>10, <1>11, <1>12, TypeParts
     DEF QaInv, LoopInv, VerdictInv, PaidInv, HeardInv

\* Every step keeps what the loops, the verdicts and Friday rest on.
LEMMA QaInvStep == QaInv /\ [QaNext]_qaVars => QaInv'
<1> SUFFICES ASSUME QaInv, [QaNext]_qaVars PROVE QaInv'
  OBVIOUS
<1>1. QaTypeOK'
  BY TypesStep DEF QaInv
<1>2. HandlerTypes /\ SharedTypes /\ AnswerTypes /\ GivenTypes
  BY TypeParts DEF QaInv
<1>3. LoopInv'
  BY <1>2, CallsStep, CoverStep, RoundsStep, TextStep DEF QaInv, LoopInv
<1>4. VerdictInv'
  BY <1>2, KnowsStep, EarnedStep, FirstStep DEF QaInv, VerdictInv
<1>5. FridayInv'
  BY <1>2, FridayStepSafe DEF QaInv, VerdictInv
<1>6. PaidInv'
  <2>1. AnswerTypes'
    BY <1>1 DEF QaTypeOK, AnswerTypes
  <2> QED
    BY <1>2, <2>1, MovedStep, PaidStep DEF QaInv, PaidInv
<1>7. HeardInv'
  BY HeardStep
<1> QED
  BY <1>1, <1>3, <1>4, <1>5, <1>6, <1>7 DEF QaInv

\* So they hold in every reachable state.
LEMMA QaInvariants == QaSpec => []QaInv
  BY QaStarts, QaInvStep, PTL DEF QaSpec

\* Task rows, locals, lock, answers and cards keep their types, for every bound.
THEOREM QaTypes == QaSpec => []QaTypeOK
<1>1. QaInv => QaTypeOK
  BY DEF QaInv
<1> QED
  BY <1>1, QaInvariants, PTL

\* A review says "passed" only of bytes its own kind was shown and found clean,
\* a redraft loop only of bytes both kinds were shown and found clean, whatever
\* stored answers, its sibling's loop, retries and crashes do in between; the one
\* exception is a review that keeps its first verdict when it is run again.
THEOREM PassEarned == QaSpec => []PassIsEarned
<1>1. QaInv => PassIsEarned
  BY DEF QaInv, VerdictInv
<1> QED
  BY <1>1, QaInvariants, PTL

\* Friday asks for approval only of bytes the brand steward has passed, or whose
\* brand review kept its first verdict when it was run again.
THEOREM ScheduledReviewed == QaSpec => []ScheduledIsReviewed
<1>1. QaInv => ScheduledIsReviewed
  BY DEF QaInv, FridayInv
<1> QED
  BY <1>1, QaInvariants, PTL

\* Both reviews have ended, nothing went wrong and Teams has no card: both have
\* completed, and Friday is on its way with bytes that passed.
LEMMA EndIsHeard ==
  ASSUME QaInv
  PROVE  NothingEndsSilently
<1> SUFFICES ASSUME mishaps = 0, drafted = "asset", ~carded, \A k \in Kind : pc[k] = "done"
             PROVE  /\ \A k \in Kind : state[k] = "completed"
                    /\ friday \in {"dispatchable", "running"} /\ FridaySees.says = "passed"
  BY DEF NothingEndsSilently
<1>1. NothingIsLost
  BY DEF QaInv, HeardInv, Heard, CardIsComing
<1>2. \A k \in Kind : state[k] = "completed"
  BY <1>1 DEF NothingIsLost, HasSettled
<1>3. friday \in {"dispatchable", "running"}
  BY <1>1, <1>2 DEF NothingIsLost
<1>4. \A k \in Kind : ref[k].says = "passed"
  BY <1>1, <1>2 DEF NothingIsLost, QaInv, VerdictInv, VerdictFirst
<1> QED
  BY <1>2, <1>3, <1>4 DEF FridaySees, Kind

\* A written draft never ends unheard of: both reviews over without a card in
\* Teams means that Friday is about to put up what passed.
THEOREM NothingSilent == QaSpec => []NothingEndsSilently
<1>1. QaInv => NothingEndsSilently
  BY EndIsHeard
<1> QED
  BY <1>1, QaInvariants, PTL

\* The redrafts that were paid for are bounded by the attempts.
LEMMA PaidIsBounded ==
  ASSUME QaInv
  PROVE  RedraftsArePaidOnce
<1>1. PICK p \in [Kind -> Nat] : PaidFor(p)
  BY DEF QaInv, PaidInv, RedraftsPaid
<1> DEFINE b == p["brand_steward"]
           f == p["fact_check"]
           m == limit.attempts
<1>2. b \in Nat /\ f \in Nat /\ m \in Nat /\ newest \in Nat /\ newest <= LastShell + b + f
  BY <1>1 DEF Kind, PaidFor, QaInv, QaTypeOK, Bounds
<1>3. (b > 0 => b + 1 <= m) /\ (f > 0 => f + 1 <= m)
  BY <1>1 DEF Kind, PaidFor
<1> HIDE DEF b, f
<1>4. newest <= LastShell + IF m = 0 THEN 0 ELSE 2 * (m - 1)
  BY <1>2, <1>3 DEF LastShell
<1> QED
  BY <1>4 DEF RedraftsArePaidOnce

\* However often the handlers are run again, no attempt's redraft is paid for
\* twice, and the first attempt's is not paid for at all.
THEOREM PaidOnce == QaSpec => []RedraftsArePaidOnce
<1>1. QaInv => RedraftsArePaidOnce
  BY PaidIsBounded
<1> QED
  BY <1>1, QaInvariants, PTL
=============================================================================
