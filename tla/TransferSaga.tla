---------------------------- MODULE TransferSaga ----------------------------
(***************************************************************************)
(* The money-transfer saga of the bank: the HTTP side that accepts a       *)
(* transfer, and the workers (one per server process) that poll for due    *)
(* transfers and carry each through                                        *)
(*                                                                         *)
(*   created -> funds_reserved -> compliance_approved -> ledger_posted     *)
(*           -> reservation_captured -> completed, or failed on the way    *)
(*                                                                         *)
(* Every store call is one transaction of the store and one step here;     *)
(* between two calls of a worker anything may happen: a step of another    *)
(* worker, a deposit, a withdrawal, a new transfer, a crash.  A call may   *)
(* also fail: "lost" (nothing happened, the caller sees an error) or       *)
(* "unacked" (it committed, and the caller still sees an error, as when    *)
(* the connection breaks or the 10-second timeout expires during COMMIT).  *)
(*                                                                         *)
(* An account stream is represented by its fold (module Account).          *)
(***************************************************************************)
EXTENDS Account, FiniteSetsExt

CONSTANTS
    AccountIDs,            \* the account ids that occur
    TransferIDs,           \* the transfer ids the API can draw (random, unique)
    Workers,               \* the running server processes, one worker each
    Commands,              \* the transfer requests clients may send, any number
                           \* of times: records [src, dst, key, amount]
    SeedBalances,          \* [subset of AccountIDs -> Nat]: accounts at start
    OpeningDeposit,        \* the requested deposit of an approved application
    CashAmounts,           \* amounts deposited and withdrawn at the counter
    InitialCash,           \* money outside the bank; bounds the deposits
    CalculateFee(_),       \* the fee policy
    ComplianceVerdicts(_), \* what the compliance checker may answer to a command
    MinTransfer,           \* the smallest amount accepted (100 minor units)
    MaxAttempts,           \* attempts at a step before the saga fails (5)
    BatchLimit,            \* transfers fetched by one poll (100)
    FaultKinds,            \* which faults happen, a subset of Faults
    MaxFaults              \* bound: how many faults happen in a behaviour

Verdicts == {"approved", "rejected", "error"}
Faults   == {"lost", "unacked", "crash"}

ASSUME FiniteAssumption ==                  \* ids have a fixed length
    IsFiniteSet(AccountIDs) /\ IsFiniteSet(TransferIDs)
ASSUME CommandsAssumption ==
    Commands \subseteq [src : AccountIDs, dst : AccountIDs, key : STRING, amount : Nat]
ASSUME MoneyAssumption ==
    /\ DOMAIN SeedBalances \subseteq AccountIDs
    /\ \A a \in DOMAIN SeedBalances : SeedBalances[a] \in Nat
    /\ CashAmounts \subseteq Nat
    /\ OpeningDeposit \in Nat /\ InitialCash \in Nat
    /\ \A c \in Commands : CalculateFee(c.amount) \in Nat
ASSUME ComplianceAssumption ==
    \A c \in Commands : ComplianceVerdicts(c) \subseteq Verdicts
ASSUME LimitsAssumption ==
    /\ MinTransfer \in Nat
    /\ MaxAttempts \in Nat \ {0} /\ BatchLimit \in Nat \ {0}
ASSUME FaultsAssumption ==
    FaultKinds \subseteq Faults /\ MaxFaults \in Nat

VARIABLES
    accounts,       \* [AccountIDs -> Accounts]: the folds of the event streams
    transfers,      \* the transfers table
    holds,          \* the reservations table: the state of a transfer's hold
    decisions,      \* the compliance decisions table
    ledgerPostings, \* the transfers whose posting is in the ledger
    published,      \* how often TransferCompleted was published, per transfer
    queue,          \* per worker: fetched and not yet processed, as fetched
    job,            \* per worker: where it stands in Process
    receipts,       \* history: the answers clients have received
    cash,           \* history: money outside the bank
    faults          \* history: faults so far, to bound them

tables == <<transfers, holds, decisions, ledgerPostings>>
store  == <<accounts, transfers, holds, decisions, ledgerPostings>>
local  == <<queue, job>>
vars   == <<accounts, transfers, holds, decisions, ledgerPostings, published,
            queue, job, receipts, cash, faults>>

-----------------------------------------------------------------------------
(* Types *)

Steps    == {"created", "funds_reserved", "compliance_approved",
             "ledger_posted", "reservation_captured"}
Statuses == {"pending", "completed", "failed"}
Failures == {"", "account_not_found", "insufficient_funds",
             "compliance_rejected", "retry_exhausted"}
Results  == {"nil", "stale", "account_not_found", "insufficient_funds",
             "conflict", "unavailable"}

Absent == [status |-> "absent"]

(* A row of the table.  due: its next_attempt_at has come. *)
Rows == [cmd : Commands, fee : Nat, status : Statuses, step : Steps,
         failure : Failures, attempts : 0..MaxAttempts, due : BOOLEAN]

(* TransferSagaUpdate, without the ExpectedStep, which is the item's step. *)
Updates == [status : Statuses, step : Steps, failure : Failures,
            attempts : 0..MaxAttempts, due : BOOLEAN]

(* A fetched copy of a row.  Its other fields never change, so they are    *)
(* read from the table.                                                    *)
Items == [id : TransferIDs, step : Steps, attempts : 0..MaxAttempts]

Idle == [pc |-> "idle"]
Jobs == {Idle} \cup
        [pc : {"reject", "release", "update"}, item : Items, upd : Updates] \cup
        [pc : {"publish"}, item : Items]

(* Every variable has its type; balances may be negative. *)
TypeOK ==
    /\ accounts \in [AccountIDs -> Accounts]
    /\ transfers \in [TransferIDs -> Rows \cup {Absent}]
    /\ holds \in [TransferIDs -> {"none", "reserved", "captured", "released"}]
    /\ decisions \in [TransferIDs -> {"none", "approved", "rejected"}]
    /\ ledgerPostings \subseteq TransferIDs
    /\ published \in [TransferIDs -> Nat]
    /\ queue \in [Workers -> SUBSET Items]
    /\ job \in [Workers -> Jobs]
    /\ receipts \subseteq [cmd : Commands, id : TransferIDs]
    /\ cash \in Int
    /\ faults \in Nat

-----------------------------------------------------------------------------
(* Accounts and transfers at start: seedIfEmpty, empty tables. *)

Opened(a, amount) == Fold(a, [type |-> "AccountOpened", amount |-> amount])

Init ==
    /\ accounts = [a \in AccountIDs |->
            IF a \in DOMAIN SeedBalances THEN Opened(NoAccount, SeedBalances[a])
                                         ELSE NoAccount]
    /\ transfers = [t \in TransferIDs |-> Absent]
    /\ holds = [t \in TransferIDs |-> "none"]
    /\ decisions = [t \in TransferIDs |-> "none"]
    /\ ledgerPostings = {}
    /\ published = [t \in TransferIDs |-> 0]
    /\ queue = [w \in Workers |-> {}]
    /\ job = [w \in Workers |-> Idle]
    /\ receipts = {}
    /\ cash = InitialCash
    /\ faults = 0

-----------------------------------------------------------------------------
(* Faults *)

Fault(kind) ==
    /\ kind \in FaultKinds
    /\ faults < MaxFaults
    /\ faults' = faults + 1

(* A store call Op, which returns res when the store answers.  The store    *)
(* fails before the transaction, or after it.                              *)
StoreCall(Op(_), res) ==
    \/ Op(res) /\ UNCHANGED faults
    \/ res = "unavailable" /\ Fault("lost") /\ UNCHANGED store
    \/ res = "unavailable" /\ Fault("unacked") /\ \E r \in Results : Op(r)

-----------------------------------------------------------------------------
(* Counter and onboarding operations on the same streams.  Each is atomic: *)
(* Append checks the version it loaded, WithdrawAvailable holds the lock.  *)

Apply(a, type, amount) ==
    accounts' = [accounts EXCEPT ![a] = Fold(@, [type |-> type, amount |-> amount])]

Deposit(a, amount) ==
    /\ accounts[a].opened
    /\ amount <= cash
    /\ Apply(a, "MoneyCredited", amount)
    /\ cash' = cash - amount
    /\ UNCHANGED <<tables, local, published, receipts, faults>>

Withdraw(a, amount) ==
    /\ accounts[a].opened
    /\ AvailableBalance(accounts[a]) >= amount
    /\ Apply(a, "MoneyDebited", amount)
    /\ cash' = cash + amount
    /\ UNCHANGED <<tables, local, published, receipts, faults>>

(* ApproveApplication gives a new customer an account with a fresh id. *)
OpenAccount(a) ==
    /\ ~accounts[a].opened
    /\ OpeningDeposit <= cash
    /\ Apply(a, "AccountOpened", OpeningDeposit)
    /\ cash' = cash - OpeningDeposit
    /\ UNCHANGED <<tables, local, published, receipts, faults>>

-----------------------------------------------------------------------------
(* Accepting a transfer *)

Present == {t \in TransferIDs : transfers[t] # Absent}

SameKey(c) ==
    {t \in Present : transfers[t].cmd.src = c.src /\ transfers[t].cmd.key = c.key}

(* variant: the destination is forgotten *)
SameAmount(t, c) == transfers[t].cmd.amount = c.amount

SameDetails(t, c) ==
    transfers[t].cmd.amount = c.amount /\ transfers[t].cmd.dst = c.dst

NewRow(c) ==
    [cmd |-> c, fee |-> CalculateFee(c.amount), status |-> "pending",
     step |-> "created", failure |-> "", attempts |-> 0, due |-> TRUE]

(* The store inserts the row unless the customer's key is taken; a replay  *)
(* of the same request gets the existing row, another one is refused.      *)
CreateTransfer(c, t) ==
    \/ /\ SameKey(c) = {}
       /\ transfers[t] = Absent
       /\ transfers' = [transfers EXCEPT ![t] = NewRow(c)]
    \/ /\ t \in SameKey(c) /\ SameDetails(t, c)
       /\ UNCHANGED transfers

ValidCommand(c) == c.amount >= MinTransfer /\ c.src # c.dst

(* The client gets its receipt, or the answer is lost and it may ask again. *)
Transfer(c) ==
    /\ ValidCommand(c)
    /\ \E t \in TransferIDs :
        /\ CreateTransfer(c, t)
        /\ \/ receipts' = receipts \cup {[cmd |-> c, id |-> t]} /\ UNCHANGED faults
           \/ Fault("unacked") /\ UNCHANGED receipts
    /\ UNCHANGED <<accounts, holds, decisions, ledgerPostings, local, published, cash>>

-----------------------------------------------------------------------------
(* Store operations of the saga: each is one transaction *)

(* variant: a repeated call is not recognised *)
NeverReserved(t) == FALSE

Reserved(t) == holds[t] # "none"

(* A hold already there, in any state, makes the call succeed. *)
ReserveTransferFunds(t, res) ==
    LET c     == transfers[t].cmd
        total == c.amount + transfers[t].fee
        known == accounts[c.src].opened /\ accounts[c.dst].opened
        funds == AvailableBalance(accounts[c.src]) >= total
    IN  /\ \/ /\ Reserved(t)
              /\ res = "nil"
              /\ UNCHANGED <<accounts, holds>>
           \/ /\ ~Reserved(t) /\ ~known
              /\ res = "account_not_found"
              /\ UNCHANGED <<accounts, holds>>
           \/ /\ ~Reserved(t) /\ known /\ ~funds
              /\ res = "insufficient_funds"
              /\ UNCHANGED <<accounts, holds>>
           \/ /\ ~Reserved(t) /\ known /\ funds
              /\ res = "nil"
              /\ Apply(c.src, "FundsReserved", total)
              /\ holds' = [holds EXCEPT ![t] = "reserved"]
        /\ UNCHANGED <<transfers, decisions, ledgerPostings>>

(* The first decision stays; a different one is a conflict. *)
RecordComplianceDecision(t, decision, res) ==
    /\ \/ /\ decisions[t] \in {"none", decision}
          /\ res = "nil"
          /\ decisions' = [decisions EXCEPT ![t] = decision]
       \/ /\ decisions[t] \notin {"none", decision}
          /\ res = "conflict"
          /\ UNCHANGED decisions
    /\ UNCHANGED <<accounts, transfers, holds, ledgerPostings>>

(* variant: a repeated call is not recognised *)
NeverPosted(t) == FALSE

Posted(t) == t \in ledgerPostings

(* Both new streams are computed from the streams as they were read.  The  *)
(* posting looks neither at the hold nor at the balance.                   *)
PostTransferLedger(t, res) ==
    LET c   == transfers[t].cmd
        fee == [type |-> "MoneyDebited", amount |-> transfers[t].fee]
        src == Fold(Fold(accounts[c.src], fee), [type |-> "MoneyDebited", amount |-> c.amount])
        dst == Fold(accounts[c.dst], [type |-> "MoneyCredited", amount |-> c.amount])
        known == accounts[c.src].opened /\ accounts[c.dst].opened
    IN  /\ \/ /\ Posted(t)
              /\ res = "nil"
              /\ UNCHANGED <<accounts, ledgerPostings>>
           \/ /\ ~Posted(t) /\ ~known
              /\ res = "account_not_found"
              /\ UNCHANGED <<accounts, ledgerPostings>>
           \/ /\ ~Posted(t) /\ known
              /\ res = "nil"
              /\ accounts' = [accounts EXCEPT ![c.src] = src, ![c.dst] = dst]
              /\ ledgerPostings' = ledgerPostings \cup {t}
        /\ UNCHANGED <<transfers, holds, decisions>>

(* variant: a repeated call is not recognised *)
NothingHeld(t, target) == ~Reserved(t)

Finished(t, target) == holds[t] \in {"none", target}

(* variant: a hold can be closed again in the other way *)
Reopenable(t) == Reserved(t)

Open(t) == holds[t] = "reserved"

(* CaptureTransferReservation and ReleaseTransferReservation: target is    *)
(* "captured" or "released".                                               *)
FinishReservation(t, target, res) ==
    LET total == transfers[t].cmd.amount + transfers[t].fee
        event == IF target = "captured" THEN "ReservationCaptured"
                                        ELSE "ReservationReleased"
    IN  /\ \/ /\ Finished(t, target)
              /\ res = "nil"
              /\ UNCHANGED <<accounts, holds>>
           \/ /\ ~Finished(t, target) /\ ~Open(t)
              /\ res = "conflict"
              /\ UNCHANGED <<accounts, holds>>
           \/ /\ ~Finished(t, target) /\ Open(t)
              /\ res = "nil"
              /\ Apply(transfers[t].cmd.src, event, total)
              /\ holds' = [holds EXCEPT ![t] = target]
        /\ UNCHANGED <<transfers, decisions, ledgerPostings>>

(* variant: the expected step is not compared *)
StillPending(t, expected) == transfers[t].status = "pending"

Current(t, expected) == transfers[t].status = "pending" /\ transfers[t].step = expected

Written(row, u) ==
    [cmd |-> row.cmd, fee |-> row.fee, status |-> u.status, step |-> u.step,
     failure |-> u.failure, attempts |-> u.attempts, due |-> u.due]

(* Compare-and-set: the row must still be pending, at the step the worker  *)
(* read.                                                                   *)
UpdateTransferSaga(t, expected, u, res) ==
    /\ \/ /\ Current(t, expected)
          /\ res = "nil"
          /\ transfers' = [transfers EXCEPT ![t] = Written(transfers[t], u)]
       \/ /\ ~Current(t, expected)
          /\ res = "stale"
          /\ UNCHANGED transfers
    /\ UNCHANGED <<accounts, holds, decisions, ledgerPostings>>

(* The same operations as a worker calls them, over a store that may fail. *)
CallReserve(t, res)            == StoreCall(LAMBDA r : ReserveTransferFunds(t, r), res)
CallRecord(t, decision, res)   == StoreCall(LAMBDA r : RecordComplianceDecision(t, decision, r), res)
CallPost(t, res)               == StoreCall(LAMBDA r : PostTransferLedger(t, r), res)
CallFinish(t, target, res)     == StoreCall(LAMBDA r : FinishReservation(t, target, r), res)
CallUpdate(t, expected, u, res) == StoreCall(LAMBDA r : UpdateTransferSaga(t, expected, u, r), res)

-----------------------------------------------------------------------------
(* What a worker decides after a call: the update it writes next, and      *)
(* whether it first releases the hold, ignoring the answer.                *)

AdvanceTo(step) ==
    [status |-> "pending", step |-> step, failure |-> "", attempts |-> 0, due |-> TRUE]

Completed(it) ==
    [status |-> "completed", step |-> it.step, failure |-> "", attempts |-> 0, due |-> TRUE]

Failed(it, code, attempts) ==
    [status |-> "failed", step |-> it.step, failure |-> code, attempts |-> attempts, due |-> TRUE]

TryLater(it, attempts) ==
    [status |-> "pending", step |-> it.step, failure |-> "", attempts |-> attempts, due |-> FALSE]

Update(it, u)  == [pc |-> "update", item |-> it, upd |-> u]
Release(it, u) == [pc |-> "release", item |-> it, upd |-> u]

Exhausted(attempt, afterLedger) == ~afterLedger /\ attempt >= MaxAttempts

(* attempts is counted up to MaxAttempts: the code only compares it with    *)
(* that bound and derives the delay from it.                               *)
Retry(it, afterLedger) ==
    LET attempt == IF it.attempts < MaxAttempts THEN it.attempts + 1 ELSE MaxAttempts
        failed  == Failed(it, "retry_exhausted", attempt)
    IN  IF ~Exhausted(attempt, afterLedger) THEN Update(it, TryLater(it, attempt))
        ELSE IF it.step = "created" THEN Update(it, failed)
        ELSE Release(it, failed)

(* variant: every error is final *)
AnyError(err) == err # "nil"

Permanent(err) == err \in {"account_not_found", "insufficient_funds"}

HandleStepError(it, err, reserved) ==
    IF ~Permanent(err) THEN Retry(it, FALSE)
    ELSE IF reserved THEN Release(it, Failed(it, err, 0))
    ELSE Update(it, Failed(it, err, 0))

AfterReserve(it, res) ==
    IF res = "nil" THEN Update(it, AdvanceTo("funds_reserved"))
                   ELSE HandleStepError(it, res, FALSE)

(* variant: the decision may not have been recorded *)
AfterVerdict(it, verdict, res) ==
    IF verdict = "approved" THEN Update(it, AdvanceTo("compliance_approved"))
                            ELSE HandleStepError(it, res, TRUE)

(* A rejection goes on to release the hold before it is written. *)
AfterDecision(it, verdict, res) ==
    IF res # "nil" THEN HandleStepError(it, res, TRUE)
    ELSE IF verdict = "approved" THEN Update(it, AdvanceTo("compliance_approved"))
    ELSE [pc |-> "reject", item |-> it, upd |-> Failed(it, "compliance_rejected", 0)]

(* variant: the answer to the release is ignored *)
RejectAnyway(it, u, res) == Update(it, u)

AfterReject(it, u, res) ==
    IF res = "nil" THEN Update(it, u) ELSE HandleStepError(it, res, TRUE)

AfterPost(it, res) ==
    IF res = "nil" THEN Update(it, AdvanceTo("ledger_posted"))
                   ELSE HandleStepError(it, res, TRUE)

(* variant: the answer to the capture is ignored *)
CapturedAnyway(it, res) == Update(it, AdvanceTo("reservation_captured"))

(* Money is posted: the capture is retried for ever. *)
AfterCapture(it, res) ==
    IF res = "nil" THEN Update(it, AdvanceTo("reservation_captured"))
                   ELSE Retry(it, TRUE)

(* variant: whether the update took effect is not looked at *)
PublishIfNoError(it, res) ==
    IF res # "unavailable" THEN [pc |-> "publish", item |-> it] ELSE Idle

(* Only the worker whose update took effect, and knows it, publishes. *)
AfterComplete(it, res) ==
    IF res = "nil" THEN [pc |-> "publish", item |-> it] ELSE Idle

-----------------------------------------------------------------------------
(* The worker *)

Due == {t \in Present : transfers[t].status = "pending" /\ transfers[t].due}

Fetch(t) == [id |-> t, step |-> transfers[t].step, attempts |-> transfers[t].attempts]

(* A poll: copies of due rows, all of them or BatchLimit of them.  Which   *)
(* ones, and their order, follow from clock readings (PostgreSQL) or from  *)
(* the iteration over a map (memory): here any choice and any order.       *)
ListDueTransfers(w) ==
    /\ job[w] = Idle /\ queue[w] = {} /\ Due # {}
    /\ \E batch \in SUBSET Due :
        /\ Cardinality(batch) = Min({Cardinality(Due), BatchLimit})
        /\ queue' = [queue EXCEPT ![w] = {Fetch(t) : t \in batch}]
    /\ UNCHANGED <<store, job, published, receipts, cash, faults>>

(* Worker w takes item it, at the given step, out of its queue. *)
Take(w, it, step) ==
    /\ job[w] = Idle /\ it \in queue[w] /\ it.step = step
    /\ queue' = [queue EXCEPT ![w] = @ \ {it}]

Goto(w, j) == job' = [job EXCEPT ![w] = j]

ProcessCreated(w, it) ==
    /\ Take(w, it, "created")
    /\ \E res \in Results :
        /\ CallReserve(it.id, res)
        /\ Goto(w, AfterReserve(it, res))
    /\ UNCHANGED <<published, receipts, cash>>

(* The checker answers, then the decision is recorded. *)
ProcessFundsReserved(w, it) ==
    /\ Take(w, it, "funds_reserved")
    /\ \/ /\ "error" \in ComplianceVerdicts(transfers[it.id].cmd)
          /\ Goto(w, HandleStepError(it, "unavailable", TRUE))
          /\ UNCHANGED store /\ UNCHANGED faults
       \/ \E verdict \in ComplianceVerdicts(transfers[it.id].cmd) \ {"error"}, res \in Results :
          /\ CallRecord(it.id, verdict, res)
          /\ Goto(w, AfterDecision(it, verdict, res))
    /\ UNCHANGED <<published, receipts, cash>>

ProcessComplianceApproved(w, it) ==
    /\ Take(w, it, "compliance_approved")
    /\ \E res \in Results :
        /\ CallPost(it.id, res)
        /\ Goto(w, AfterPost(it, res))
    /\ UNCHANGED <<published, receipts, cash>>

ProcessLedgerPosted(w, it) ==
    /\ Take(w, it, "ledger_posted")
    /\ \E res \in Results :
        /\ CallFinish(it.id, "captured", res)
        /\ Goto(w, AfterCapture(it, res))
    /\ UNCHANGED <<published, receipts, cash>>

ProcessReservationCaptured(w, it) ==
    /\ Take(w, it, "reservation_captured")
    /\ \E res \in Results :
        /\ CallUpdate(it.id, it.step, Completed(it), res)
        /\ Goto(w, AfterComplete(it, res))
    /\ UNCHANGED <<published, receipts, cash>>

(* The release of a rejected transfer's hold, whose answer counts. *)
RejectRelease(w) ==
    /\ job[w].pc = "reject"
    /\ \E res \in Results :
        /\ CallFinish(job[w].item.id, "released", res)
        /\ Goto(w, AfterReject(job[w].item, job[w].upd, res))
    /\ UNCHANGED <<published, queue, receipts, cash>>

(* The release of a failing transfer's hold, whose answer is discarded. *)
FailRelease(w) ==
    /\ job[w].pc = "release"
    /\ \E res \in Results : CallFinish(job[w].item.id, "released", res)
    /\ Goto(w, Update(job[w].item, job[w].upd))
    /\ UNCHANGED <<published, queue, receipts, cash>>

(* advance: an error is returned to ProcessDue, which drops it. *)
Advance(w) ==
    /\ job[w].pc = "update"
    /\ \E res \in Results :
        CallUpdate(job[w].item.id, job[w].item.step, job[w].upd, res)
    /\ Goto(w, Idle)
    /\ UNCHANGED <<published, queue, receipts, cash>>

Publish(w) ==
    /\ job[w].pc = "publish"
    /\ published' = [published EXCEPT ![job[w].item.id] = @ + 1]
    /\ Goto(w, Idle)
    /\ UNCHANGED <<store, queue, receipts, cash, faults>>

(* The process dies and is restarted: what it had fetched is forgotten. *)
Crash(w) ==
    /\ job[w] # Idle \/ queue[w] # {}
    /\ Fault("crash")
    /\ queue' = [queue EXCEPT ![w] = {}]
    /\ Goto(w, Idle)
    /\ UNCHANGED <<store, published, receipts, cash>>

(* The delay of a retry is over. *)
BackoffElapses(t) ==
    /\ t \in Present /\ transfers[t].status = "pending" /\ ~transfers[t].due
    /\ transfers' = [transfers EXCEPT ![t].due = TRUE]
    /\ UNCHANGED <<accounts, holds, decisions, ledgerPostings, local, published,
                   receipts, cash, faults>>

-----------------------------------------------------------------------------
Process(w) ==
    \/ \E it \in queue[w] :
        \/ ProcessCreated(w, it)
        \/ ProcessFundsReserved(w, it)
        \/ ProcessComplianceApproved(w, it)
        \/ ProcessLedgerPosted(w, it)
        \/ ProcessReservationCaptured(w, it)
    \/ RejectRelease(w)
    \/ FailRelease(w)
    \/ Advance(w)
    \/ Publish(w)

WorkerStep(w) == ListDueTransfers(w) \/ Process(w)

Next ==
    \/ \E c \in Commands : Transfer(c)
    \/ \E w \in Workers : WorkerStep(w) \/ Crash(w)
    \/ \E t \in TransferIDs : BackoffElapses(t)
    \/ \E a \in AccountIDs, m \in CashAmounts : Deposit(a, m) \/ Withdraw(a, m)
    \/ \E a \in AccountIDs : OpenAccount(a)

Spec == Init /\ [][Next]_vars

(* The worker loop polls every 250 ms and always finishes a batch; time    *)
(* passes.  Nothing is assumed of clients, deposits, crashes or faults.    *)
Fairness ==
    /\ \A w \in Workers : WF_vars(WorkerStep(w))
    /\ \A t \in TransferIDs : WF_vars(BackoffElapses(t))

FairSpec == Spec /\ Fairness
=============================================================================
