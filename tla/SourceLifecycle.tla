--------------------------- MODULE SourceLifecycle ---------------------------
(***************************************************************************)
(* The functions that look after the scanned sources: discovery, nightly   *)
(* yield and retire pass (Fn 128, source_lifecycle.py), allowlist review   *)
(* and its monthly pass (Fn 129, web_reach.py).  They remember nothing but *)
(* what the signals table of the Vault shows them, its newest Lookback     *)
(* rows, and put their proposals into the options inbox.                   *)
(*                                                                         *)
(* scan-profiles.yaml and the bootstrap candidates are files: constants.   *)
(* A url may be listed by several profiles: each listing is a source of    *)
(* its own to both passes.                                                 *)
(***************************************************************************)
EXTENDS OptionsInbox

CONSTANTS
  Live,        \* the urls that the scan profiles list, in file order
  Class,       \* signal classes
  ClassOf,     \* the class of the profile of each listing
  Pool,        \* the candidates of each class that are neither live nor a client's
  ReviewBy,    \* last day of a provisional source, beyond all days for others
  Floor,       \* YIELD_FLOOR_CONSECUTIVE_FAILURES (5)
  Lookback,    \* LIFECYCLE_SIGNAL_LOOKBACK (500)
  RetireDays,  \* RETIRE_PASS_MIN_DAYS (28)
  ReviewDays   \* ALLOWLIST_REVIEW_PASS_MIN_DAYS and review_by_days (60)

Listings == 1..Len(Live)
LiveUrls == {Live[n] : n \in Listings}
Candidates == UNION {Pool[c] : c \in Class}

ASSUME SourceAssumption ==
  /\ Live \in Seq(LiveUrls)
  /\ Pool \in [Class -> SUBSET Candidates]
  /\ ClassOf \in [Listings -> Class]
  /\ LiveUrls \cap Candidates = {} /\ Draft \cap (LiveUrls \cup Candidates \cup Class) = {}
  /\ ReviewBy \in [LiveUrls -> Nat]
  /\ Floor \in Nat \ {0} /\ Lookback \in Nat
  /\ RetireDays \in Nat \ {0} /\ ReviewDays \in Nat \ {0}

VARIABLES
  signals,   \* the signals table, newest first: [type, of, day]; "of" is the
             \* listings that a yield found up, or the one that is retired
  retire,    \* [pc, todo, at] of source-retire-monthly: listings
  review     \* candidates that an allowlist review has still to judge

sourceVars == <<signals, retire, review>>
vars == <<inboxVars, sourceVars>>

SignalTypes == {"yield", "retired", "retire_marker", "widened", "review_marker", "other"}
NoPass == [pc |-> "idle", todo |-> {}, at |-> 0]

Init ==
  /\ InboxInit
  /\ signals = <<>>
  /\ retire = NoPass
  /\ review = {}

\* list_signals: most recent first, no filter.
Recent ==
  SubSeq(signals, 1, IF Len(signals) < Lookback THEN Len(signals) ELSE Lookback)

\* POST /signals.
Signal(type, of) ==
  /\ Len(signals) < limit.signals
  /\ signals' = <<[type |-> type, of |-> of, day |-> day]>> \o signals

\* Self-gating: some marker that the handler still sees is too young.
\* Definitions named "Bug..." are seeded bugs, used by no behaviour.
BugGated(type, days) ==
  Recent # <<>> /\ Recent[1].type = type /\ day - Recent[1].day < days
Gated(type, days) ==
  \E n \in 1..Len(Recent) : Recent[n].type = type /\ day - Recent[n].day < days

-----------------------------------------------------------------------------
(* source_yield_handler, and every other function that writes signals *)

\* Every listing is probed, up or not; what raises counts as down.
Yield ==
  /\ \E up \in SUBSET Listings : Signal("yield", up)
  /\ UNCHANGED <<inboxVars, retire, review>>

OtherSignal == Signal("other", {}) /\ UNCHANGED <<inboxVars, retire, review>>

-----------------------------------------------------------------------------
(* source_retire_handler *)

\* yield_history_by_url: the checks of a url, one for every listing in every
\* yield that is read.  Yields are read newest first.
Checks(url) ==
  {c \in (1..Len(Recent)) \X Listings : Recent[c[1]].type = "yield" /\ Live[c[2]] = url}
Behind(d, c) == d[1] > c[1] \/ (d[1] = c[1] /\ d[2] > c[2])
Down(c) == c[2] \notin Recent[c[1]].of

BugFloorBreached(url) ==
  Cardinality(Checks(url)) >= Floor /\ \E c \in Checks(url) : Down(c)

\* history[-Floor:] of checks that are newest first: the Floor at its end.
FloorBreached(url) ==
  /\ Cardinality(Checks(url)) >= Floor
  /\ \A c \in Checks(url) :
       Cardinality({d \in Checks(url) : Behind(d, c)}) < Floor => Down(c)

\* A source to retire needs a replacement, of the class of its profile.
ToRetire(n) ==
  /\ FloorBreached(Live[n]) \/ ReviewBy[Live[n]] < day
  /\ Pool[ClassOf[n]] # {}

StartRetire ==
  /\ retire.pc = "idle"
  /\ IF Gated("retire_marker", RetireDays)
     THEN UNCHANGED retire
     ELSE retire' = [NoPass EXCEPT !.pc = "next",
                                   !.todo = {n \in Listings : ToRetire(n)}]
  /\ UNCHANGED <<inboxVars, signals, review>>

\* The next listing, in file order: the model is asked for candidates, and a
\* signal tells how they were probed.
Ask ==
  /\ retire.pc = "next"
  /\ \E n \in retire.todo :
       /\ \A m \in retire.todo : n <= m
       /\ retire' = [pc |-> "asked", todo |-> retire.todo \ {n}, at |-> n]
  /\ Signal("other", {})
  /\ UNCHANGED <<inboxVars, review>>

BugTooFewReplacements ==
  /\ retire.pc = "asked"
  /\ Signal("retired", {retire.at})
  /\ retire' = [retire EXCEPT !.pc = "next"]
  /\ UNCHANGED <<inboxVars, review>>

\* The model names fewer than two candidates: the run fails, the pass goes on.
TooFewReplacements ==
  /\ retire.pc = "asked"
  /\ retire' = [retire EXCEPT !.pc = "next"]
  /\ UNCHANGED <<inboxVars, signals, review>>

Offers(class) == {S \in SUBSET Pool[class] : Cardinality(S) \in 2..3}

ProposeRetirement ==
  /\ retire.pc = "asked"
  /\ \E offers \in Offers(ClassOf[retire.at]) :
       BuildCard("source.retire", Live[retire.at], offers)
  /\ retire' = [retire EXCEPT !.pc = "carded"]
  /\ UNCHANGED <<compose, day, limit, mishaps, signals, review>>

MarkRetired ==
  /\ retire.pc = "carded" /\ ~OnItsWay(Live[retire.at])
  /\ Signal("retired", {retire.at})
  /\ retire' = [retire EXCEPT !.pc = "next"]
  /\ UNCHANGED <<inboxVars, review>>

MarkPass ==
  /\ retire.pc = "next" /\ retire.todo = {}
  /\ Signal("retire_marker", {})
  /\ retire' = [retire EXCEPT !.pc = "marked"]
  /\ UNCHANGED <<inboxVars, review>>

\* update_agent_run, set_result_ref, COMPLETED.
EndPass ==
  /\ retire.pc = "marked"
  /\ retire' = NoPass
  /\ UNCHANGED <<inboxVars, signals, review>>

\* Any call of the handler raises; the next attempt starts from the top.
RetireRaises ==
  /\ retire.pc # "idle"
  /\ GoesWrong("step_raises")
  /\ retire' = NoPass
  /\ Abandon(LiveUrls)
  /\ UNCHANGED <<compose, day, limit, signals, review>>

RetireStep ==
  \/ StartRetire \/ Ask \/ TooFewReplacements \/ ProposeRetirement
  \/ MarkRetired \/ MarkPass \/ EndPass

-----------------------------------------------------------------------------
(* The source-discovery tasks; the same step again after it raised *)

Discover(class) ==
  /\ Pool[class] # {}
  /\ Signal("other", {})
  /\ \/ \E offers \in Offers(class) : BuildCard("source.promote", class, offers)
     \/ UNCHANGED cardVars
  /\ UNCHANGED <<compose, day, limit, mishaps, retire, review>>

-----------------------------------------------------------------------------
(* The web-reach-allowlist tasks *)

StartReview(class) ==
  /\ review = {}
  /\ review' = Pool[class]
  /\ UNCHANGED <<inboxVars, signals, retire>>

\* The rule allows the domain (a signal, no card), excludes it, or asks.
ReviewCandidate(url) ==
  /\ \A candidate \in Candidates : ~OnItsWay(candidate)
  /\ \/ Signal("widened", {}) /\ UNCHANGED cardVars
     \/ UNCHANGED <<signals, cardVars>>
     \/ BuildCard("source.allowlist", url, {"A", "B"}) /\ UNCHANGED signals
  /\ review' = review \ {url}
  /\ UNCHANGED <<compose, day, limit, mishaps, retire>>

ReviewRaises ==
  /\ review # {}
  /\ GoesWrong("step_raises")
  /\ review' = {}
  /\ Abandon(Candidates)
  /\ UNCHANGED <<compose, day, limit, signals, retire>>

\* web_reach_allowlist_monthly_review_handler: the reverts that it proposes
\* are a list in its result_ref; what it changes is its marker.
MonthlyReview ==
  /\ ~Gated("review_marker", ReviewDays)
  /\ Signal("review_marker", {})
  /\ UNCHANGED <<inboxVars, retire, review>>

-----------------------------------------------------------------------------
SourceStep ==
  \/ Yield /\ Fired("yield")
  \/ OtherSignal /\ Fired("other")
  \/ (RetireStep \/ RetireRaises) /\ Fired("retire")
  \/ \E c \in Class : Discover(c) /\ Fired("discover")
  \/ \E c \in Class : StartReview(c) /\ Fired("review")
  \/ \E u \in review : ReviewCandidate(u)
  \/ ReviewRaises
  \/ MonthlyReview /\ Fired("monthly")

Next == (InboxStep /\ UNCHANGED sourceVars) \/ SourceStep

Spec == Init /\ [][Next]_vars

-----------------------------------------------------------------------------
(* Properties *)

\* source_lifecycle.py, "never a bare drop": a source that the signals call
\* retired has a card that offers its replacement, wherever the pass broke off.
NeverABareDrop ==
  \A n \in 1..Len(signals) : signals[n].type = "retired" =>
    \E i \in 1..Len(cards) :
      cards[i].kind = "source.retire" /\ {Live[l] : l \in signals[n].of} = {cards[i].about}

\* A url that is put up for retirement has failed Floor checks, or its review
\* date is past: no other rows, days, exceptions or retries of the pass retire a
\* healthy one.  Checks, not nights: a night has one for each profile that lists
\* the url (source_yield_handler), and history counts them all.
RetirementIsFounded ==
  \A i \in 1..Len(cards) : cards[i].kind = "source.retire" =>
    \/ ReviewBy[cards[i].about] < day
    \/ Cardinality({c \in (1..Len(signals)) \X Listings :
          /\ signals[c[1]].type = "yield" /\ Live[c[2]] = cards[i].about
          /\ c[2] \notin signals[c[1]].of}) >= Floor

\* Two passes are as far apart as the handler says, as long as the marker of
\* the first is among the rows that the second one reads.
PassesAreSpaced ==
  \A m, n \in 1..Len(signals) :
    m < n /\ n - m <= Lookback /\ signals[m].type = signals[n].type =>
      /\ signals[m].type = "retire_marker" => signals[m].day - signals[n].day >= RetireDays
      /\ signals[m].type = "review_marker" => signals[m].day - signals[n].day >= ReviewDays

\* source_retire_handler: a source is below the floor when "its last
\* YIELD_FLOOR_CONSECUTIVE_FAILURES nightly checks ... were ALL unreachable".
LastChecks(url) ==
  \A c \in Checks(url) :
    Cardinality({d \in Checks(url) : Behind(c, d)}) < Floor => Down(c)
OnlyDeadSourcesRetire ==
  [][retire.pc = "idle" /\ retire'.pc = "next" =>
       \A n \in retire'.todo : ReviewBy[Live[n]] < day \/ LastChecks(Live[n])]_vars
=============================================================================
