-------------------------- MODULE MCAccountStreams --------------------------
(***************************************************************************)
(* Small instances of AccountStreams for TLC.                              *)
(***************************************************************************)
EXTENDS AccountStreams

CONSTANTS t1, t2, t3

Order(s, d, m, f) == [src |-> s, dst |-> d, amount |-> m, fee |-> f]

(* One transfer with a fee, and two that cross each other. *)
Orders == (t1 :> Order(2, 1, 1, 1)) @@ (t2 :> Order(1, 2, 2, 0)) @@ (t3 :> Order(2, 1, 1, 0))

StepsOf(ids) == {op \in TransferOps : op.id \in ids}

Cash     == CashOps \cup StepsOf({t1})
Crossing == StepsOf({t2, t3})

CashOrCrossing == ("cash" :> Cash) @@ ("crossing" :> Crossing)
CashOnly       == "cash" :> Cash

SomeProcesses == Permutations(Processes)
=============================================================================
