----------------------------- MODULE MCSessions -----------------------------
(***************************************************************************)
(* A small instance of Sessions for TLC.                                   *)
(***************************************************************************)
EXTENDS Sessions, TLC

Person(e, d, p) == [email |-> e, document |-> d, password |-> p]

(* Two people; the first has the email of an administrator. *)
People == {Person("e1", "d1", "p1"), Person("e2", "d2", "p2")}

Symmetry == Permutations(CustomerIDs) \cup Permutations(AccountIDs)
            \cup Permutations(Tokens) \cup Permutations(Requests)
=============================================================================
