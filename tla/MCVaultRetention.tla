-------------------------- MODULE MCVaultRetention --------------------------
(* VaultRetention for TLC: an agent run, two assets with the same bytes, the *)
(* first of which references the run.  The runs of the others never expire.  *)
EXTENDS VaultRetention

CONSTANTS run, a1, a2

SameContent == [a \in Asset |-> "bytes"]
FirstNeedsRun == [o \in Object |-> IF o = a1 THEN {run} ELSE {}]
=============================================================================
