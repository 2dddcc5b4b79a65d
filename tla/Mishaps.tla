------------------------------ MODULE Mishaps ------------------------------
(***************************************************************************)
(* What goes wrong around gatekeeper, publisher, publish loop, model       *)
(* gateway, QA retry, options inbox and Vault.  A model names the kinds it *)
(* lets happen, and a bound on all of them together.                       *)
(***************************************************************************)
EXTENDS Naturals

CONSTANTS Mishaps, MaxMishaps

MishapKinds == {"gate_fails", "answer_lost", "click_fails", "link_expires",
                "token_expires", "vault_down", "count_fails", "count_unread",
                "draft_fails", "record_fails", "timeout", "crash",
                "select_fails", "provider_fails", "store_fails", "session_lost",
                "replica_crash", "step_raises", "worker_crash",
                "message_expires", "lock_session_lost", "post_fails",
                "insert_fails", "blob_fails", "sweep_dies"}

ASSUME MishapAssumption == Mishaps \subseteq MishapKinds /\ MaxMishaps \in Nat

VARIABLE mishaps

Mishap(kind) ==
  /\ kind \in Mishaps
  /\ mishaps < MaxMishaps
  /\ mishaps' = mishaps + 1
=============================================================================
