--------------------------- MODULE MCTransferSaga ---------------------------
(***************************************************************************)
(* Small instances of TransferSaga for TLC.                                *)
(***************************************************************************)
EXTENDS SagaProperties, TLC

CONSTANTS a1, a2, a3

Cmd(s, d, k, m) == [src |-> s, dst |-> d, key |-> k, amount |-> m]

(* Two transfers that together exceed the seeded balance of a1. *)
Competing == {Cmd(a1, a2, "k1", 3), Cmd(a1, a2, "k2", 2)}

(* One that a1 can pay. *)
Single == {Cmd(a1, a2, "k1", 3)}

(* A competing pair, and requests that are refused, conflict or fail: the  *)
(* key of the second reused for another destination, which may not be open *)
(* yet, a transfer to oneself, and one below the minimum.                  *)
Requests == Competing \cup
    {Cmd(a1, a3, "k2", 2), Cmd(a1, a1, "k2", 2), Cmd(a2, a1, "k3", 0)}

Seed == (a1 :> 5) @@ (a2 :> 1)

FlatFee(amount) == 1
NoFee(amount)   == 0

AlwaysApproved(c)   == {"approved"}
ByAmount(c)         == {IF c.amount > 2 THEN "rejected" ELSE "approved"}
AnyVerdict(c)       == Verdicts

Symmetry == Permutations(TransferIDs) \cup Permutations(Workers)
=============================================================================
