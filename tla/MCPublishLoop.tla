---------------------------- MODULE MCPublishLoop ----------------------------
EXTENDS PublishLoop, TLC

CONSTANTS p1, p2, p3

OneRow == {<<FALSE>>}
NoneOrOne == {<<>>, <<FALSE>>}
\* Level 1 asks a human, 4 mints without asking, 0 is blocked always.
Levels == [p \in Post |-> CASE p = p1 -> 1 [] p = p2 -> 4 [] p = p3 -> 0]
Tokens == [jti : 1..MaxTokens, asset : Post]

\* Behaviours about mishaps, with one toggle, and behaviours about two of them.
MishapOrToggles == mishaps = 0 \/ toggled <= 1
Alike == Permutations(Click) \cup Permutations(Operator) \cup Permutations(Sweep)
=============================================================================
