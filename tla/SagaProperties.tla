--------------------------- MODULE SagaProperties ---------------------------
(***************************************************************************)
(* What the transfer saga guarantees, and under which conditions.          *)
(***************************************************************************)
EXTENDS TransferSaga

Total(t) == transfers[t].cmd.amount + transfers[t].fee

OpenHolds(a) == {t \in Present : transfers[t].cmd.src = a /\ holds[t] = "reserved"}

(* What must be true of transfer t before anything may record that it has  *)
(* reached a step.                                                         *)
StepFacts(t, step) ==
    /\ step # "created" => holds[t] # "none"
    /\ step \in {"compliance_approved", "ledger_posted", "reservation_captured"}
          => decisions[t] = "approved"
    /\ step \in {"ledger_posted", "reservation_captured"} => t \in ledgerPostings
    /\ step = "reservation_captured" => holds[t] = "captured"

(* The row never runs ahead of the effects: whatever worker wrote          *)
(* current_step, however stale its copy and whatever failed, the hold, the *)
(* approval, the posting and the capture the step stands for are there.    *)
StepReflectsEffects ==
    \A t \in Present : StepFacts(t, transfers[t].step)

(* A completed transfer was approved, posted, and its hold captured: no    *)
(* customer is told "completed" while the money is held or unmoved.        *)
CompletedMeansSettled ==
    \A t \in Present : transfers[t].status = "completed" =>
        /\ decisions[t] = "approved"
        /\ t \in ledgerPostings
        /\ holds[t] = "captured"

(* Money is neither made nor lost: account balances, posted fees and cash  *)
(* always add up to what there was, although a posting writes two streams  *)
(* and may be retried, repeated by another worker or cut short.            *)
Conservation ==
      SumFunction([a \in AccountIDs |-> accounts[a].balance])
    + SumFunction([t \in ledgerPostings |-> transfers[t].fee])
    + cash
    = SumFunction(SeedBalances) + InitialCash

(* The reserved balance of an account, which decides what may be spent, is *)
(* the sum of the holds that are really open: none is counted twice after  *)
(* a retried reservation, none dropped twice after a repeated release.     *)
HoldsMatchReserved ==
    \A a \in AccountIDs :
        accounts[a].reserved = SumFunction([t \in OpenHolds(a) |-> Total(t)])

(* No posting happens without the approval recorded, and no hold is        *)
(* captured before its money was posted.                                   *)
PostedAfterApproval ==
    \A t \in TransferIDs :
        /\ t \in ledgerPostings => decisions[t] = "approved" /\ holds[t] # "none"
        /\ holds[t] = "captured" => t \in ledgerPostings

(* As long as no transfer was posted on a released hold, every account     *)
(* covers its open, unposted holds: reservations, withdrawals and postings *)
(* of concurrent workers never overspend together.                         *)
CoveredUnlessPostedOnReleasedHold ==
    (\A t \in ledgerPostings : holds[t] # "released") =>
        \A a \in AccountIDs :
            accounts[a].balance >=
                SumFunction([t \in OpenHolds(a) \ ledgerPostings |-> Total(t)])

(* TransferCompleted is published at most once per transfer, and only when *)
(* the transfer is completed: two workers at the last step do not both     *)
(* announce it.                                                            *)
PublishedOnce ==
    \A t \in TransferIDs :
        /\ published[t] <= 1
        /\ published[t] = 1 => transfers[t].status = "completed"

(* A receipt names a transfer with exactly the details the client sent,    *)
(* and all receipts for a customer's key name the same transfer: asking    *)
(* again after a lost answer never pays twice.                             *)
ReceiptsHonoured ==
    /\ \A r \in receipts : r.id \in Present /\ transfers[r.id].cmd = r.cmd
    /\ \A t, u \in Present :
        (transfers[t].cmd.src = transfers[u].cmd.src /\ transfers[t].cmd.key = transfers[u].cmd.key)
            => t = u

Rank == [created |-> 0, funds_reserved |-> 1, compliance_approved |-> 2,
         ledger_posted |-> 3, reservation_captured |-> 4]

MovesForward(old, new) ==
    /\ new.cmd = old.cmd /\ new.fee = old.fee
    /\ Rank[new.step] - Rank[old.step] \in {0, 1}
    /\ old.status # "pending" => new = old

RowsMoveForward ==
    \A t \in Present : transfers'[t] # Absent /\ MovesForward(transfers[t], transfers'[t])

(* A row is never deleted, keeps its command and fee, moves at most one    *)
(* step forward at a time, and once completed or failed never changes: a   *)
(* stale worker cannot reopen a transfer, skip a step or take one back.    *)
SagaMovesForward == [][RowsMoveForward]_vars

EffectsKept ==
    \A t \in TransferIDs :
        /\ \/ holds'[t] = holds[t]
           \/ holds[t] = "none" /\ holds'[t] = "reserved"
           \/ holds[t] = "reserved" /\ holds'[t] \in {"captured", "released"}
        /\ decisions[t] # "none" => decisions'[t] = decisions[t]
        /\ t \in ledgerPostings => t \in ledgerPostings'

(* A hold is opened once and closed once, captured and released exclude    *)
(* each other for good; a decision and a posting are never taken back,     *)
(* whichever worker repeats a step that was already done.                  *)
EffectsAreFinal == [][EffectsKept]_vars

-----------------------------------------------------------------------------
(* Why the row never runs ahead: neither does anything a worker carries.   *)

Supported(t, step) == t \in Present /\ StepFacts(t, step)

RowsSupported ==
    \A t \in Present :
        /\ StepFacts(t, transfers[t].step)
        /\ transfers[t].status = "completed" => transfers[t].step = "reservation_captured"

QueuesSupported ==
    \A w \in Workers : \A it \in queue[w] : Supported(it.id, it.step)

JobSupported(j) ==
    j # Idle =>
        /\ Supported(j.item.id, j.item.step)
        /\ j.pc # "publish" =>
              /\ Supported(j.item.id, j.upd.step)
              /\ Rank[j.upd.step] - Rank[j.item.step] \in {0, 1}
              /\ j.upd.status # "completed"

JobsSupported == \A w \in Workers : JobSupported(job[w])

(* The effects a step stands for are there for every copy of a step that   *)
(* is around: the row's, those a worker fetched a while ago, and those it  *)
(* is about to write.  Effects are final, so a copy never loses support by *)
(* being old; this is why stale workers are harmless.                      *)
SagaInv ==
    /\ TypeOK
    /\ PostedAfterApproval
    /\ RowsSupported
    /\ QueuesSupported
    /\ JobsSupported

-----------------------------------------------------------------------------
(* No account is ever overdrawn. *)
NoOverdraft == \A a \in AccountIDs : accounts[a].balance >= 0

(* A failed transfer holds no money: its reservation was released. *)
FailedMeansReleased ==
    \A t \in Present : transfers[t].status = "failed" => holds[t] # "reserved"

(* Every accepted transfer ends, or its money was posted on a hold that a  *)
(* failing attempt had released: the only way to be stuck.                 *)
SagaEndsUnlessPostedOnReleasedHold ==
    \A t \in TransferIDs :
        transfers[t].status = "pending" ~>
            \/ transfers[t].status \in {"completed", "failed"}
            \/ t \in ledgerPostings /\ holds[t] = "released"

-----------------------------------------------------------------------------
(* When faults are few.  A store fails or a worker dies less often than a  *)
(* step may be attempted, and the compliance checker answers, always the   *)
(* same for the same command (the server's only checker, which approves    *)
(* everything, does): then no transfer is given up after its hold.         *)

FewFaults == MaxFaults < MaxAttempts

SteadyCompliance ==
    \A c \in Commands :
        /\ "error" \notin ComplianceVerdicts(c)
        /\ \A u, v \in ComplianceVerdicts(c) : u = v

OneWorker == \A v, w \in Workers : v = w

(* The steps at which a transfer may still fail. *)
Early == {"created", "funds_reserved"}

(* A copy counts no more attempts than there were faults, and is never     *)
(* ahead of its row.                                                       *)
CopyCalm(it) ==
    /\ it.attempts <= faults
    /\ Rank[it.step] <= Rank[transfers[it.id].step]

JobCalm(j) ==
    j # Idle =>
        /\ CopyCalm(j.item)
        /\ j.pc # "release"
        /\ j.pc = "reject" => decisions[j.item.id] = "rejected"
        /\ j.pc # "publish" =>
              /\ j.upd.attempts <= faults
              /\ j.upd.status = "failed" => j.upd.step = j.item.step /\ j.upd.step \in Early

RowCalm(t) ==
    /\ transfers[t].attempts <= faults
    /\ transfers[t].fee = CalculateFee(transfers[t].cmd.amount)
    /\ transfers[t].status = "failed" => transfers[t].step \in Early
    /\ t \in ledgerPostings => transfers[t].step \notin Early

EffectCalm(t) ==
    /\ decisions[t] # "none" =>
          t \in Present /\ decisions[t] \in ComplianceVerdicts(transfers[t].cmd)
    /\ holds[t] = "released" => decisions[t] = "rejected"
    /\ holds[t] # "none" =>
          /\ t \in Present
          /\ accounts[transfers[t].cmd.src].opened
          /\ accounts[transfers[t].cmd.dst].opened

(* With few faults and a steady checker, nobody gives up: no worker is     *)
(* about to release the hold of a failing transfer, a transfer fails at an *)
(* early step only, a hold is released on a rejection only, and whatever   *)
(* was posted is past the early steps, so that failing and posting exclude *)
(* each other whichever stale copy a worker acts on.                       *)
CalmInv ==
    /\ faults <= MaxFaults
    /\ \A t \in Present : RowCalm(t)
    /\ \A t \in TransferIDs : EffectCalm(t)
    /\ \A w \in Workers : JobCalm(job[w]) /\ \A it \in queue[w] : CopyCalm(it)

-----------------------------------------------------------------------------
(* The saga as an atomic payment: the ledger posting is the payment. *)

OrderOf(c) == [src |-> c.src, dst |-> c.dst, amount |-> c.amount, fee |-> CalculateFee(c.amount)]

Atomic == INSTANCE AtomicPayments WITH
    PaymentIDs     <- TransferIDs,
    Orders         <- {OrderOf(c) : c \in Commands},
    CashAmounts    <- CashAmounts \cup {OpeningDeposit},
    InitialBalance <- [a \in AccountIDs |->
                         IF a \in DOMAIN SeedBalances THEN SeedBalances[a] ELSE 0],
    balance <- [a \in AccountIDs |-> accounts[a].balance],
    order   <- [t \in TransferIDs |->
                  IF transfers[t] = Absent THEN [src |-> "none"] ELSE OrderOf(transfers[t].cmd)],
    status  <- [t \in TransferIDs |-> transfers[t].status],
    paid    <- ledgerPostings

(* Seen from outside, the saga with its holds, retries and workers is one  *)
(* atomic payment out of available money, or none.                         *)
ImplementsAtomicPayments == Atomic!PaySpec
=============================================================================
