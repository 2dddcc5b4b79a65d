----------------------------- MODULE MCQaRetry -----------------------------
(* QaRetry for TLC: two rounds when nothing goes wrong, one when one thing does, *)
(* and two rounds that fail run again on their stored answers.                   *)
EXTENDS QaRetry

Bound(rounds, edits, wrong, given) ==
  [attempts |-> rounds, flips |-> edits, mishaps |-> wrong, verdicts |-> given]

CalmOrShaken == {Bound(2, 1, 0, {"pass", "codes"}), Bound(1, 1, 0, Verdicts),
                 Bound(1, 0, 1, {"pass", "codes"}), Bound(2, 0, 1, {"codes"})}
OneRound == {Bound(1, 0, 0, Verdicts)}
=============================================================================
