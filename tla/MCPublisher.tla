----------------------------- MODULE MCPublisher -----------------------------
EXTENDS Publisher, TLC

CONSTANTS a1, a2

OneRow == {<<FALSE>>, <<TRUE>>}
FourTokens == {[jti |-> 1, asset |-> a1], [jti |-> 2, asset |-> a1],
               [jti |-> 3, asset |-> a1], [jti |-> 4, asset |-> a2]}

\* Behaviours about replayed tokens and failures, and behaviours about the switch.
RacesOrSwitch ==
  toggled = 0 \/ (mishaps = 0 /\ \A q \in Request : req[q].token.jti <= 2)
=============================================================================
