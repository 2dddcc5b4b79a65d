------------------------------- MODULE Release -------------------------------
(***************************************************************************)
(* What governance and publishing promise about a post: a human is asked,  *)
(* approves or refuses, and what is approved goes out exactly once.        *)
(***************************************************************************)
EXTENDS Naturals

CONSTANTS Post

VARIABLES
  verdict,   \* "open", "approved" or "refused"
  copies     \* times the post has been handed to Buffer

vars == <<verdict, copies>>

Init == verdict = [p \in Post |-> "open"] /\ copies = [p \in Post |-> 0]

Decide(p) ==
  /\ verdict[p] = "open"
  /\ \E v \in {"approved", "refused"} : verdict' = [verdict EXCEPT ![p] = v]
  /\ UNCHANGED copies

GoOut(p) ==
  /\ verdict[p] = "approved" /\ copies[p] = 0
  /\ copies' = [copies EXCEPT ![p] = 1]
  /\ UNCHANGED verdict

Next == \E p \in Post : Decide(p) \/ GoOut(p)

Spec == Init /\ [][Next]_vars

\* The sweep comes back until every approved post is out.
FairSpec == Spec /\ \A p \in Post : WF_vars(GoOut(p))
=============================================================================
