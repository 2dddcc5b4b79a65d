------------------------- MODULE MCSourceLifecycle -------------------------
(* SourceLifecycle for TLC: behaviours about cards and clicks, behaviours   *)
(* about signals and passes.                                                *)
EXTENDS SourceLifecycle, TLC

CONSTANTS d1, d2, k1, k2

\* Two urls, "web" in two profiles: "old" is provisional, only the class of the
\* first two listings has candidates.
TwoSources == <<"web", "old">>
ListedTwice == <<"web", "old", "web">>
Classes == [n \in Listings |-> IF n = 3 THEN "talk" ELSE "news"]
TwoCandidates == [c \in Class |-> IF c = "news" THEN {"new1", "new2"} ELSE {}]
OldIsProvisional == [u \in LiveUrls |-> IF u = "old" THEN 0 ELSE 9]

Bounds(tasks, days, nCards, nSignals, nMishaps) ==
  [tasks |-> tasks, days |-> days, cards |-> nCards, signals |-> nSignals,
   mishaps |-> nMishaps]
CardsAndSignals ==
  {Bounds({"compose", "digest"}, 1, 2, 0, 0),
   Bounds({"compose"}, 1, 3, 0, 1),
   Bounds({"digest", "discover", "review"}, 2, 2, 2, 1),
   Bounds({"yield", "retire"}, 1, 2, 4, 1),
   Bounds({"retire", "other"}, 3, 2, 5, 1),
   Bounds({"yield", "retire", "other", "monthly"}, 2, 1, 3, 0)}
ThreeNights == {Bounds({"yield", "retire"}, 0, 1, 4, 0)}
Alike == Permutations({d1, d2}) \cup Permutations({k1, k2})
=============================================================================
