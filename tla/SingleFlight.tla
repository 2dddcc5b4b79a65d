---------------------------- MODULE SingleFlight ----------------------------
(***************************************************************************)
(* What the model gateway promises its callers about task_ref: each task   *)
(* reference gets at most one answer, chosen once, and whoever is answered *)
(* for that reference, on any replica and at any time, gets that answer.   *)
(***************************************************************************)
EXTENDS Naturals

CONSTANTS Ref, NoRef, Request

VARIABLES
  answer,   \* the answer of each reference, 0 for none yet
  ask,      \* the reference each request is about
  got       \* what each request was answered, 0 for nothing (yet)

vars == <<answer, ask, got>>

Init ==
  /\ answer = [x \in Ref |-> 0]
  /\ ask = [r \in Request |-> NoRef]
  /\ got = [r \in Request |-> 0]

Decide(x) ==
  /\ answer[x] = 0
  /\ \A y \in Ref \ {x} : answer'[y] = answer[y]
  /\ UNCHANGED <<ask, got>>

Ask(r, x) ==
  /\ ask' = [ask EXCEPT ![r] = x]
  /\ got' = [got EXCEPT ![r] = 0]
  /\ UNCHANGED answer

Give(r) ==
  /\ ask[r] \in Ref
  /\ answer[ask[r]] # 0
  /\ got' = [got EXCEPT ![r] = answer[ask[r]]]
  /\ UNCHANGED <<answer, ask>>

Next ==
  \/ \E x \in Ref : Decide(x)
  \/ \E r \in Request, x \in Ref \cup {NoRef} : Ask(r, x)
  \/ \E r \in Request : Give(r)

Spec == Init /\ [][Next]_vars
=============================================================================
