----------------------------- MODULE Adjustments ----------------------------
(***************************************************************************)
(* Manual corrections and reversals under dual control.  One administrator *)
(* asks, another approves or rejects.  In the PostgreSQL store a request   *)
(* is created in two steps: what it refers to is looked up, and the row is *)
(* inserted later against two unique indexes; between them other requests  *)
(* are created and reviewed.  A review is one transaction with the request *)
(* row and the accounts locked, and one step here (module AccountStreams). *)
(* A review whose answer is lost is a review that happened or one that did *)
(* not, and the administrator may ask again.                               *)
(*                                                                         *)
(* A request carries what its client wrote: the fields the store does not  *)
(* overwrite are stored and used as they came, also where they make no     *)
(* sense for the type of the request.  Reason and case reference are left  *)
(* out; a request without them is refused before it reaches the store.     *)
(***************************************************************************)
EXTENDS Account, SequencesExt

CONSTANTS
    AccountIDs,      \* accounts, open from the start
    Admins,          \* administrators
    RequestIDs,      \* adjustment ids (random, unique)
    Transfers,       \* [transfer ids -> [src, dst, amount, fee]]
    Amounts,         \* amounts of deposits and withdrawals
    Forms,           \* the manual requests clients may send
    OpeningBalance,
    NoID,            \* "no transfer", "no request", "nobody"
    MaxEvents        \* bound: no step of customers or manual request on a
                     \* stream this long

(* The event at position n of the stream of account a, or no event: an     *)
(* account without a position, or a position without an account, is not in *)
(* the index and stands for no event.                                      *)
EventAt(a, n) == [acct |-> a, n |-> n]

NoEvent == EventAt(NoID, 0)

EventNames == {NoEvent} \cup [acct : AccountIDs, n : Nat]

ASSUME AdjustmentsAssumption ==
    /\ IsFiniteSet(DOMAIN Transfers)
    /\ \A t \in DOMAIN Transfers :
          /\ {Transfers[t].src, Transfers[t].dst} \subseteq AccountIDs
          /\ Transfers[t].src # Transfers[t].dst
          /\ Transfers[t].amount \in Nat \ {0} /\ Transfers[t].fee \in Nat
    /\ \A f \in Forms :
          /\ f.account \in AccountIDs /\ f.direction \in {"credit", "debit"}
          /\ f.amount \in Nat \ {0} /\ f.fee \in Int
          /\ f.counterparty \in AccountIDs \cup {NoID}
          /\ f.transfer \in DOMAIN Transfers \cup {NoID}
          /\ f.event \in EventNames
    /\ Amounts \subseteq Nat \ {0}
    /\ OpeningBalance \in Nat /\ MaxEvents \in Nat
    /\ NoID \notin AccountIDs \cup RequestIDs \cup Admins \cup DOMAIN Transfers

VARIABLES
    streams,     \* [AccountIDs -> Seq(entries)]
    transfers,   \* [TransferIDs -> TransferStates]: how far each has come
    requests,    \* the adjustment_requests table
    drafts       \* per administrator: the request looked up and not inserted

vars == <<streams, transfers, requests, drafts>>

TransferIDs == DOMAIN Transfers

(* An event with what it belongs to: a transfer, an adjustment, or neither. *)
Entry(type, m, t, r) == [type |-> type, amount |-> m, transfer |-> t, adjustment |-> r]

Entries == [type : EventTypes, amount : Int,
            transfer : TransferIDs \cup {NoID}, adjustment : RequestIDs \cup {NoID}]

Available(a) == AvailableBalance(FoldLeft(Fold, NoAccount, streams[a]))

Absent == [status |-> "absent", transfer |-> NoID, event |-> NoEvent]

(* What a client asks for: amounts, accounts and originals.  The store     *)
(* overwrites some of these fields and keeps the others.                   *)
Form(a, dir, m, fee, counterparty, t, ev) ==
    [account |-> a, direction |-> dir, amount |-> m, fee |-> fee,
     counterparty |-> counterparty, transfer |-> t, event |-> ev]

Request(type, f, maker) ==
    [type |-> type, status |-> "waiting_for_approval", account |-> f.account,
     direction |-> f.direction, amount |-> f.amount, fee |-> f.fee,
     counterparty |-> f.counterparty, transfer |-> f.transfer, event |-> f.event,
     createdBy |-> maker, reviewedBy |-> NoID]

Waiting(r) == requests[r].status = "waiting_for_approval"

Init ==
    /\ streams = [a \in AccountIDs |->
                     <<Entry("AccountOpened", OpeningBalance, NoID, NoID)>>]
    /\ transfers = [t \in TransferIDs |-> "none"]
    /\ requests = [r \in RequestIDs |-> Absent]
    /\ drafts = [d \in Admins |-> NoID]

-----------------------------------------------------------------------------
(* Customers and their transfers *)

Deposit(a, m) ==
    /\ Len(streams[a]) < MaxEvents
    /\ streams' = [streams EXCEPT ![a] = Append(@, Entry("MoneyCredited", m, NoID, NoID))]
    /\ UNCHANGED <<transfers, requests, drafts>>

Withdraw(a, m) ==
    /\ Len(streams[a]) < MaxEvents
    /\ Available(a) >= m
    /\ streams' = [streams EXCEPT ![a] = Append(@, Entry("MoneyDebited", m, NoID, NoID))]
    /\ UNCHANGED <<transfers, requests, drafts>>

Total(t) == Transfers[t].amount + Transfers[t].fee

HoldTransfer(t) ==
    LET src == Transfers[t].src IN
    /\ transfers[t] = "none"
    /\ Available(src) >= Total(t)
    /\ streams' = [streams EXCEPT ![src] =
                      Append(@, Entry("FundsReserved", Total(t), t, NoID))]
    /\ transfers' = [transfers EXCEPT ![t] = "held"]
    /\ UNCHANGED <<requests, drafts>>

FeeEntries(t) ==
    LET fee == Transfers[t].fee IN
    IF fee > 0 THEN <<Entry("MoneyDebited", fee, t, NoID)>> ELSE <<>>

(* The posting looks neither at the hold nor at the balance: a transfer is *)
(* "loose" when it is posted and its hold released, in either order.       *)
AfterPosting == [held |-> "posted", released |-> "loose"]
AfterRelease == [held |-> "released", posted |-> "loose"]

PostTransfer(t) ==
    LET o == Transfers[t] IN
    /\ transfers[t] \in DOMAIN AfterPosting
    /\ streams' = [streams EXCEPT
          ![o.src] = Append(@ \o FeeEntries(t), Entry("MoneyDebited", o.amount, t, NoID)),
          ![o.dst] = Append(@, Entry("MoneyCredited", o.amount, t, NoID))]
    /\ transfers' = [transfers EXCEPT ![t] = AfterPosting[@]]
    /\ UNCHANGED <<requests, drafts>>

(* The end of a hold, and where it leaves the transfer. *)
FinishReservation(t, type, next) ==
    /\ streams' = [streams EXCEPT ![Transfers[t].src] =
                      Append(@, Entry(type, Total(t), t, NoID))]
    /\ transfers' = [transfers EXCEPT ![t] = next]
    /\ UNCHANGED <<requests, drafts>>

CaptureTransfer(t) ==
    /\ transfers[t] = "posted"
    /\ FinishReservation(t, "ReservationCaptured", "captured")

(* After a rejection, and when the saga gives up. *)
ReleaseTransfer(t) ==
    /\ transfers[t] \in DOMAIN AfterRelease
    /\ FinishReservation(t, "ReservationReleased", AfterRelease[transfers[t]])

CompleteTransfer(t) ==
    /\ transfers[t] = "captured"
    /\ transfers' = [transfers EXCEPT ![t] = "completed"]
    /\ UNCHANGED <<streams, requests, drafts>>

-----------------------------------------------------------------------------
(* Creating a request *)

(* A request that is not rejected names this transfer, or this event. *)
ActiveTransfer(t) ==
    \E r \in RequestIDs : requests[r].transfer = t /\ requests[r].status # "rejected"

ActiveEvent(ev) ==
    \E r \in RequestIDs : requests[r].event = ev /\ requests[r].status # "rejected"

Draft(d, request) ==
    /\ drafts[d] = NoID
    /\ drafts' = [drafts EXCEPT ![d] = request]
    /\ UNCHANGED <<streams, transfers, requests>>

(* Only the account is looked up, and every field stays what the client    *)
(* wrote, a transfer or event included.                                    *)
CreateManual(d, f) ==
    /\ Len(streams[f.account]) < MaxEvents
    /\ Draft(d, Request("manual", f, d))

(* Accounts and amounts are the transfer's; an event stays the client's. *)
CreateTransferReversal(d, t, ev) ==
    LET o == Transfers[t] IN
    /\ transfers[t] = "completed"
    /\ ~ActiveTransfer(t)
    /\ Draft(d, Request("reversal",
                        Form(o.src, "reversal", o.amount, o.fee, o.dst, t, ev), d))

(* Neither a leg or fee of a transfer nor an earlier adjustment. *)
CustomerOriginated(e) == e.transfer = NoID /\ e.adjustment = NoID

(* Nothing reads the client's fee and counterparty later. *)
CreateEventReversal(d, a, n) ==
    LET e == streams[a][n] IN
    /\ ~ActiveEvent(EventAt(a, n))
    /\ e.type \in {"MoneyCredited", "MoneyDebited"}
    /\ CustomerOriginated(e)
    /\ Draft(d, Request("reversal",
                        Form(a, IF e.type = "MoneyCredited" THEN "debit" ELSE "credit",
                             e.amount, 0, NoID, NoID, EventAt(a, n)), d))

(* variant: the indexes are about reversals only *)
TakenByReversal(request) ==
    /\ request.type = "reversal"
    /\ \/ request.transfer # NoID /\ ActiveTransfer(request.transfer)
       \/ request.event # NoEvent /\ ActiveEvent(request.event)

(* The unique indexes, over requests of both types that are not rejected. *)
Taken(request) ==
    \/ request.transfer # NoID /\ ActiveTransfer(request.transfer)
    \/ request.event # NoEvent /\ ActiveEvent(request.event)

InsertRequest(d) ==
    /\ drafts[d] # NoID
    /\ \/ Taken(drafts[d]) /\ UNCHANGED requests      \* ErrAlreadyReversed
       \/ /\ ~Taken(drafts[d])
          /\ \E r \in RequestIDs :
                /\ requests[r] = Absent
                /\ requests' = [requests EXCEPT ![r] = drafts[d]]
    /\ drafts' = [drafts EXCEPT ![d] = NoID]
    /\ UNCHANGED <<streams, transfers>>

(* The insert fails, or the process ends before it. *)
DropDraft(d) ==
    /\ drafts[d] # NoID
    /\ drafts' = [drafts EXCEPT ![d] = NoID]
    /\ UNCHANGED <<streams, transfers, requests>>

-----------------------------------------------------------------------------
(* Reviewing a request *)

MayReview(d, r) == Waiting(r) /\ requests[r].createdBy # d

(* The approval of a reversal looks for another approved request with the  *)
(* same transfer, or without one with the same event; that of a manual     *)
(* request does not.                                                       *)
FirstApproval(r) ==
    requests[r].type = "reversal" =>
        \A s \in RequestIDs \ {r} :
            requests[s].status = "approved" =>
                IF requests[r].transfer # NoID
                THEN requests[s].transfer # requests[r].transfer
                ELSE requests[s].event # requests[r].event

(* variant: the fee stays with the bank *)
AmountOnly(q) == q.amount

(* What the account of a request that names a transfer is paid. *)
Refund(q) == q.amount + q.fee

(* variant: the balance is not compared *)
AlwaysCovered(a, m) == TRUE

(* An account nobody opened has nothing available. *)
Covered(a, m) == a \in AccountIDs /\ Available(a) >= m

(* A request that names a transfer, of either type, debits its             *)
(* counterparty and then credits its account; the sum it credits, which    *)
(* may be negative, is not compared with anything.                         *)
Adjust(r) ==
    LET q == requests[r]
        Credited(m) == Entry("MoneyCredited", m, NoID, r)
        Debited     == Entry("MoneyDebited", q.amount, NoID, r)
        Added(str, a, e) == [str EXCEPT ![a] = Append(@, e)]
    IN
    IF q.transfer # NoID
    THEN /\ Covered(q.counterparty, q.amount)
         /\ streams' = Added(Added(streams, q.counterparty, Debited),
                             q.account, Credited(Refund(q)))
    ELSE IF q.direction = "credit"
    THEN streams' = Added(streams, q.account, Credited(q.amount))
    ELSE /\ Covered(q.account, q.amount)
         /\ streams' = Added(streams, q.account, Debited)

(* variant: the reviewer is not recorded *)
Unsigned(r, d, status) == requests' = [requests EXCEPT ![r].status = status]

Reviewed(r, d, status) ==
    requests' = [requests EXCEPT ![r].status = status, ![r].reviewedBy = d]

ApproveAdjustment(d, r) ==
    /\ MayReview(d, r)
    /\ FirstApproval(r)
    /\ Adjust(r)
    /\ Reviewed(r, d, "approved")
    /\ UNCHANGED <<transfers, drafts>>

RejectAdjustment(d, r) ==
    /\ MayReview(d, r)
    /\ Reviewed(r, d, "rejected")
    /\ UNCHANGED <<streams, transfers, drafts>>

-----------------------------------------------------------------------------

Customer ==
    \/ \E a \in AccountIDs, m \in Amounts : Deposit(a, m) \/ Withdraw(a, m)
    \/ \E t \in TransferIDs :
          \/ HoldTransfer(t) \/ PostTransfer(t) \/ CaptureTransfer(t)
          \/ ReleaseTransfer(t) \/ CompleteTransfer(t)

Maker(d) ==
    \/ \E f \in Forms : CreateManual(d, f)
    \/ \E t \in TransferIDs, f \in Forms : CreateTransferReversal(d, t, f.event)
    \/ \E a \in AccountIDs : \E n \in DOMAIN streams[a] : CreateEventReversal(d, a, n)
    \/ InsertRequest(d)
    \/ DropDraft(d)

Checker(d) == \E r \in RequestIDs : ApproveAdjustment(d, r) \/ RejectAdjustment(d, r)

Next == Customer \/ \E d \in Admins : Maker(d) \/ Checker(d)

Spec == Init /\ [][Next]_vars

-----------------------------------------------------------------------------
(* Properties *)

TransferStates ==
    {"none", "held", "posted", "captured", "completed", "released", "loose"}

RequestRows ==
    [type : {"manual", "reversal"},
     status : {"waiting_for_approval", "approved", "rejected"},
     account : AccountIDs, direction : {"credit", "debit", "reversal"}, amount : Nat,
     fee : Int, counterparty : AccountIDs \cup {NoID}, transfer : TransferIDs \cup {NoID},
     event : EventNames,
     createdBy : Admins, reviewedBy : Admins \cup {NoID}]

TypeOK ==
    /\ streams \in [AccountIDs -> Seq(Entries)]
    /\ transfers \in [TransferIDs -> TransferStates]
    /\ requests \in [RequestIDs -> {Absent} \cup RequestRows]
    /\ drafts \in [Admins -> {NoID} \cup RequestRows]
    /\ \A r \in RequestIDs :
          requests[r] # Absent => ((requests[r].reviewedBy = NoID) <=> Waiting(r))

Approved(r) == requests[r].status = "approved"

Reversal(r) == Approved(r) /\ requests[r].type = "reversal"

(* The approved reversal r undoes the n-th event of the stream of a: a     *)
(* reversal of a transfer undoes every money event of that transfer.       *)
Undoes(r, a, n) ==
    LET e == streams[a][n]  q == requests[r] IN
    /\ Reversal(r)
    /\ IF q.transfer # NoID
       THEN e.transfer = q.transfer /\ e.type \in {"MoneyDebited", "MoneyCredited"}
       ELSE q.event = EventAt(a, n)

(* Request s names what the reversal r is for. *)
SameOriginal(r, s) ==
    IF requests[r].transfer # NoID
    THEN requests[s].transfer = requests[r].transfer
    ELSE requests[s].event = requests[r].event

(* A movement of money is undone by at most one reversal, of its event or  *)
(* of its transfer; what an adjustment moved is never undone; and no other *)
(* request, a manual one included, is approved for the transfer or event   *)
(* of a reversal: whatever requests are created and reviewed at the same   *)
(* time, and whatever their clients write in them (CreateAdjustment,       *)
(* ApproveAdjustment and the unique indexes).                              *)
UndoneOnce ==
    /\ \A a \in AccountIDs : \A n \in DOMAIN streams[a] :
          /\ \A r, s \in RequestIDs : Undoes(r, a, n) /\ Undoes(s, a, n) => r = s
          /\ streams[a][n].adjustment # NoID => \A r \in RequestIDs : ~Undoes(r, a, n)
    /\ \A r, s \in RequestIDs :
          Reversal(r) /\ Approved(s) /\ SameOriginal(r, s) => r = s

Effect(e) == CASE e.type = "MoneyCredited" -> e.amount
               [] e.type = "MoneyDebited"  -> -e.amount
               [] OTHER                    -> 0

(* What request r and transfer t (or none) have moved, together, on the    *)
(* account of stream s.                                                    *)
Weight(e, r, t) ==
    IF e.adjustment = r \/ (t # NoID /\ e.transfer = t) THEN Effect(e) ELSE 0

Net(s, r, t) == FoldLeft(LAMBDA sum, e : sum + Weight(e, r, t), 0, s)

On(a, b, m) == IF a = b THEN m ELSE 0

(* What the row of a request says it moves on account a. *)
Ordered(q, a) ==
    IF q.transfer # NoID
    THEN On(a, q.account, q.amount + q.fee) - On(a, q.counterparty, q.amount)
    ELSE On(a, q.account, IF q.direction = "credit" THEN q.amount ELSE -q.amount)

(* What an approved reversal restores: the transfer or the event and the   *)
(* request together move nothing on any account, the fee included.  A      *)
(* request that is not approved has moved nothing at all, and an approved  *)
(* manual one exactly what its row says, fee and counterparty of its       *)
(* client included: approval and effect are one (ApproveAdjustment).       *)
ReversalRestores ==
    \A r \in RequestIDs, a \in AccountIDs :
        LET q == requests[r] IN
        /\ ~Approved(r) => Net(streams[a], r, NoID) = 0
        /\ Approved(r) /\ q.type = "manual" => Net(streams[a], r, NoID) = Ordered(q, a)
        /\ Reversal(r) /\ q.transfer # NoID => Net(streams[a], r, q.transfer) = 0
        /\ Reversal(r) /\ q.transfer = NoID =>
              Net(streams[a], r, NoID)
                 = On(a, q.event.acct, -Effect(streams[q.event.acct][q.event.n]))

(* Money that is debited and still held: between the posting of a transfer *)
(* and its capture its total counts twice.                                 *)
CountedTwice(a) ==
    SumFunction([t \in TransferIDs |->
                    IF transfers[t] = "posted" THEN On(a, Transfers[t].src, Total(t)) ELSE 0])

(* What overdraws an account without a comparison: a posting on a released *)
(* hold, and a manual request that names a transfer with a fee below       *)
(* minus its amount.                                                       *)
UncheckedDebit(a) ==
    \/ \E t \in TransferIDs : transfers[t] = "loose" /\ Transfers[t].src = a
    \/ \E r \in RequestIDs :
          /\ Approved(r)
          /\ requests[r].type = "manual" /\ requests[r].transfer # NoID
          /\ requests[r].account = a /\ Refund(requests[r]) < 0

(* Withdrawals, holds, postings, corrections and reversals, in any order,  *)
(* never spend money that is not there or that a transfer holds, but for   *)
(* the two debits nobody checks (ApproveAdjustment and WithdrawAvailable   *)
(* compare the available balance, PostTransferLedger relies on the hold).  *)
DebitsAreCovered ==
    \A a \in AccountIDs : UncheckedDebit(a) \/ Available(a) + CountedTwice(a) >= 0
=============================================================================
