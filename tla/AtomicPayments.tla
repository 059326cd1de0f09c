--------------------------- MODULE AtomicPayments ---------------------------
(***************************************************************************)
(* What the bank promises of a transfer, without holds, workers, retries   *)
(* or compliance: an accepted payment is either paid in one atomic step,   *)
(* once, out of money that is there, and then completes; or it fails and   *)
(* no money of it ever moves.                                              *)
(***************************************************************************)
EXTENDS Integers

CONSTANTS
    AccountIDs,
    PaymentIDs,
    Orders,          \* what a payment may be: records [src, dst, amount, fee]
    CashAmounts,     \* what may be paid in or out at the counter
    InitialBalance   \* [AccountIDs -> Int]

VARIABLES
    balance,   \* [AccountIDs -> Int]
    order,     \* [PaymentIDs -> Orders \cup {NoOrder}]
    status,    \* [PaymentIDs -> {"absent", "pending", "completed", "failed"}]
    paid       \* the payments whose money has moved

payVars == <<balance, order, status, paid>>

NoOrder == [src |-> "none"]

PayInit ==
    /\ balance = InitialBalance
    /\ order = [p \in PaymentIDs |-> NoOrder]
    /\ status = [p \in PaymentIDs |-> "absent"]
    /\ paid = {}

Accept(p) ==
    /\ status[p] = "absent"
    /\ status' = [status EXCEPT ![p] = "pending"]
    /\ \E o \in Orders : order' = [order EXCEPT ![p] = o]
    /\ UNCHANGED <<balance, paid>>

Pay(p) ==
    LET o == order[p] IN
    /\ status[p] = "pending" /\ p \notin paid
    /\ balance[o.src] >= o.amount + o.fee
    /\ balance' = [balance EXCEPT ![o.src] = @ - (o.amount + o.fee), ![o.dst] = @ + o.amount]
    /\ paid' = paid \cup {p}
    /\ UNCHANGED <<order, status>>

Complete(p) ==
    /\ status[p] = "pending" /\ p \in paid
    /\ status' = [status EXCEPT ![p] = "completed"]
    /\ UNCHANGED <<balance, order, paid>>

Fail(p) ==
    /\ status[p] = "pending" /\ p \notin paid
    /\ status' = [status EXCEPT ![p] = "failed"]
    /\ UNCHANGED <<balance, order, paid>>

PayIn(a, m) ==
    /\ balance' = [balance EXCEPT ![a] = @ + m]
    /\ UNCHANGED <<order, status, paid>>

PayOut(a, m) ==
    /\ balance[a] >= m
    /\ balance' = [balance EXCEPT ![a] = @ - m]
    /\ UNCHANGED <<order, status, paid>>

PayNext ==
    \/ \E p \in PaymentIDs : Accept(p) \/ Pay(p) \/ Complete(p) \/ Fail(p)
    \/ \E a \in AccountIDs, m \in CashAmounts : PayIn(a, m) \/ PayOut(a, m)

PaySpec == PayInit /\ [][PayNext]_payVars
=============================================================================
