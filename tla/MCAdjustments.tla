---------------------------- MODULE MCAdjustments ---------------------------
(***************************************************************************)
(* Small instances of Adjustments for TLC.                                 *)
(***************************************************************************)
EXTENDS Adjustments

CONSTANTS a1, a2, t1

PaidTransfer == t1 :> [src |-> a1, dst |-> a2, amount |-> 2, fee |-> 1]

(* Two requests as documented, and three that name what manual requests    *)
(* are not for: the transfer with a negative fee, the transfer with one    *)
(* account twice and an event, and an event alone.                         *)
SomeForms ==
    {Form(a1, "debit", 1, 0, NoID, NoID, NoEvent),
     Form(a2, "credit", 1, 0, NoID, NoID, NoEvent),
     Form(a1, "credit", 1, -2, a2, t1, NoEvent),
     Form(a2, "debit", 1, 0, a2, t1, EventAt(a1, 2)),
     Form(a2, "debit", 1, 0, NoID, NoID, EventAt(a1, 2))}

Symmetry == Permutations(Admins) \cup Permutations(RequestIDs)
=============================================================================
