---------------------------- MODULE AtomicStreams ---------------------------
(***************************************************************************)
(* What the event store promises its callers: every operation on account   *)
(* streams happens in one step, on the streams as they are at that step.   *)
(* TransferSaga builds on these steps.                                     *)
(***************************************************************************)
EXTENDS Account, SequencesExt

CONSTANTS
    AccountIDs,   \* account ids; numbers, for their order
    Transfers,    \* [transfer ids -> [src, dst, amount, fee]]
    CashAmounts,  \* amounts deposited and withdrawn
    OpeningBalance

ASSUME StreamsAssumption ==
    /\ AccountIDs \subseteq Nat
    /\ \A t \in DOMAIN Transfers :
          /\ Transfers[t].src \in AccountIDs /\ Transfers[t].dst \in AccountIDs
          /\ Transfers[t].src # Transfers[t].dst
          /\ Transfers[t].amount \in Nat /\ Transfers[t].fee \in Nat
    /\ CashAmounts \subseteq Nat /\ OpeningBalance \in Nat
    /\ AccountIDs \cap DOMAIN Transfers = {}   \* rows and accounts have locks of their own

VARIABLES
    streams,     \* [AccountIDs -> Seq(Events)]: the events table
    hold,        \* account_reservations: the state of a transfer's hold
    posted,      \* ledger_postings
    reversed     \* the transfers whose reversal request is approved

rows == <<hold, posted, reversed>>

TransferIDs == DOMAIN Transfers
HoldStates  == {"none", "reserved", "captured", "released"}

Ev(type, m)  == [type |-> type, amount |-> m]
Total(t)     == Transfers[t].amount + Transfers[t].fee
Replay(s)    == FoldLeft(Fold, NoAccount, s)
Available(s) == AvailableBalance(Replay(s))

(* The fee is an event of its own, and only when there is one. *)
SourceEntries(t) ==
    LET fee == Transfers[t].fee IN
    (IF fee > 0 THEN <<Ev("MoneyDebited", fee)>> ELSE <<>>)
        \o <<Ev("MoneyDebited", Transfers[t].amount)>>

Add(a, evs) == streams' = [streams EXCEPT ![a] = @ \o evs]

Move(a, evs, b, evs2) ==
    streams' = [streams EXCEPT ![a] = @ \o evs, ![b] = @ \o evs2]

(* An account is open from the start, or it has no events. *)
AtomicInit ==
    /\ streams \in [AccountIDs -> {<<>>, <<Ev("AccountOpened", OpeningBalance)>>}]
    /\ hold = [t \in TransferIDs |-> "none"]
    /\ posted = {}
    /\ reversed = {}

-----------------------------------------------------------------------------

DepositStep(a, m) ==
    /\ streams[a] # <<>>
    /\ Add(a, <<Ev("MoneyCredited", m)>>)
    /\ UNCHANGED rows

WithdrawStep(a, m) ==
    /\ streams[a] # <<>>
    /\ Available(streams[a]) >= m
    /\ Add(a, <<Ev("MoneyDebited", m)>>)
    /\ UNCHANGED rows

ReserveStep(t) ==
    LET src == Transfers[t].src IN
    /\ hold[t] = "none"
    /\ streams[src] # <<>> /\ streams[Transfers[t].dst] # <<>>
    /\ Available(streams[src]) >= Total(t)
    /\ Add(src, <<Ev("FundsReserved", Total(t))>>)
    /\ hold' = [hold EXCEPT ![t] = "reserved"]
    /\ UNCHANGED <<posted, reversed>>

PostStep(t) ==
    /\ t \notin posted
    /\ Move(Transfers[t].src, SourceEntries(t),
            Transfers[t].dst, <<Ev("MoneyCredited", Transfers[t].amount)>>)
    /\ posted' = posted \cup {t}
    /\ UNCHANGED <<hold, reversed>>

EndHoldStep(t, type, target) ==
    /\ hold[t] = "reserved"
    /\ Add(Transfers[t].src, <<Ev(type, Total(t))>>)
    /\ hold' = [hold EXCEPT ![t] = target]
    /\ UNCHANGED <<posted, reversed>>

ReverseStep(t) ==
    LET dst == Transfers[t].dst IN
    /\ t \in posted /\ t \notin reversed
    /\ Available(streams[dst]) >= Transfers[t].amount
    /\ Move(dst, <<Ev("MoneyDebited", Transfers[t].amount)>>,
            Transfers[t].src, <<Ev("MoneyCredited", Total(t))>>)
    /\ reversed' = reversed \cup {t}
    /\ UNCHANGED <<hold, posted>>

(* Every operation adds events. *)
AtomicNext ==
    /\ streams' # streams
    /\ \/ \E a \in AccountIDs, m \in CashAmounts : DepositStep(a, m) \/ WithdrawStep(a, m)
       \/ \E t \in TransferIDs :
             \/ ReserveStep(t)
             \/ PostStep(t)
             \/ EndHoldStep(t, "ReservationCaptured", "captured")
             \/ EndHoldStep(t, "ReservationReleased", "released")
             \/ ReverseStep(t)

AtomicSpec == AtomicInit /\ [][AtomicNext]_<<streams, hold, posted, reversed>>
=============================================================================
