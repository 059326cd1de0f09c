---------------------------- MODULE MCOnboarding ----------------------------
(***************************************************************************)
(* Small instances of Onboarding for TLC.                                  *)
(***************************************************************************)
EXTENDS Onboarding, TLC

(* Two people, and one who shares an email or a document with each. *)
People == {[email |-> e, document |-> d] : e \in {"e1", "e2"}, d \in {"d1", "d2"}}

Symmetry == Permutations(CustomerIDs) \cup Permutations(AccountIDs)
=============================================================================
