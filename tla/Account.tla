------------------------------ MODULE Account ------------------------------
(***************************************************************************)
(* The account aggregate.  An account is never stored: it is the fold of   *)
(* its event stream.  This module is that fold, one event at a time; an    *)
(* event is a record with its type and its amount, the only fields the     *)
(* fold reads.                                                             *)
(***************************************************************************)
EXTENDS Integers

EventTypes == {"AccountOpened", "MoneyCredited", "MoneyDebited",
               "FundsReserved", "ReservationCaptured", "ReservationReleased"}

Events == [type : EventTypes, amount : Nat]

Accounts == [opened : BOOLEAN, balance : Int, reserved : Int]

(* The fold of the empty stream.  Every service reads len(events) == 0 as  *)
(* "no such account", which is what opened = FALSE stands for.             *)
NoAccount == [opened |-> FALSE, balance |-> 0, reserved |-> 0]

(* variant: holds are forgotten *)
BalanceOnly(a) == a.balance

(* AvailableBalance is derived after the fold, never stored. *)
AvailableBalance(a) == a.balance - a.reserved

(* Opening sets the balance and leaves the holds alone, as the code does. *)
Fold(a, ev) ==
    CASE ev.type = "AccountOpened" ->
            [opened |-> TRUE, balance |-> ev.amount, reserved |-> a.reserved]
      [] ev.type = "MoneyCredited" ->
            [a EXCEPT !.balance = @ + ev.amount]
      [] ev.type = "MoneyDebited" ->
            [a EXCEPT !.balance = @ - ev.amount]
      [] ev.type = "FundsReserved" ->
            [a EXCEPT !.reserved = @ + ev.amount]
      [] ev.type \in {"ReservationCaptured", "ReservationReleased"} ->
            [a EXCEPT !.reserved = @ - ev.amount]
=============================================================================
