--------------------------- MODULE MCTaskDispatch ---------------------------
(* Small instances of TaskDispatch: the loops, the bounds on the faults.   *)
EXTENDS TaskDispatch, TLC

\* a -> b, a -> c, {b, c} -> d, listed in the loop file from d to a.
FanTasks == {"a", "b", "c", "d"}
FanDeps == [t \in FanTasks |-> CASE t = "a" -> {} [] t = "b" -> {"a"}
                                 [] t = "c" -> {"a"} [] t = "d" -> {"b", "c"}]
FanOrder == [t \in FanTasks |-> CASE t = "a" -> 4 [] t = "b" -> 3
                                  [] t = "c" -> 2 [] t = "d" -> 1]

\* Two independent tasks and one that waits for both.
JoinTasks == {"a", "b", "d"}
JoinDeps == [t \in JoinTasks |-> IF t = "d" THEN {"a", "b"} ELSE {}]
JoinOrder == [t \in JoinTasks |-> CASE t = "a" -> 1 [] t = "b" -> 2 [] t = "d" -> 3]

Replicas == Permutations(Replica)

OneExpiry == [k \in FaultKinds |-> IF k = "lock" THEN 1 ELSE 0]
CrashAndRaise == [k \in FaultKinds |-> IF k = "lock" THEN 0 ELSE 1]
=============================================================================
