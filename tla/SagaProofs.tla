----------------------------- MODULE SagaProofs -----------------------------
(***************************************************************************)
(* Proofs about the transfer saga, for any accounts, workers, commands,    *)
(* fee policy, compliance checker, number of faults and limits: one        *)
(* transfer at a time first, then that the saga moves money and makes      *)
(* none, with the sums over all accounts and all holds, for any finite     *)
(* sets of accounts and transfers.                                         *)
(***************************************************************************)
EXTENDS SagaProperties, FoldTheorems

-----------------------------------------------------------------------------
(* The operators the model is built from *)

(* Folding an event into an account gives an account. *)
LEMMA FoldType ==
    ASSUME NEW a \in Accounts, NEW type \in EventTypes, NEW amount \in Nat
    PROVE  Fold(a, [type |-> type, amount |-> amount]) \in Accounts
<1>1. CASE type = "AccountOpened"
    BY <1>1 DEF Fold, Accounts
<1>2. CASE type = "MoneyCredited"
    BY <1>2 DEF Fold, Accounts
<1>3. CASE type = "MoneyDebited"
    BY <1>3 DEF Fold, Accounts
<1>4. CASE type = "FundsReserved"
    BY <1>4 DEF Fold, Accounts
<1>5. CASE type = "ReservationCaptured"
    BY <1>5 DEF Fold, Accounts
<1>6. CASE type = "ReservationReleased"
    BY <1>6 DEF Fold, Accounts
<1>. QED
    BY <1>1, <1>2, <1>3, <1>4, <1>5, <1>6 DEF EventTypes

(* So folding one into the stream of an account gives accounts. *)
LEMMA ApplyType ==
    ASSUME accounts \in [AccountIDs -> Accounts],
           NEW a \in AccountIDs, NEW type \in EventTypes, NEW amount \in Nat,
           Apply(a, type, amount)
    PROVE  accounts' \in [AccountIDs -> Accounts]
BY FoldType DEF Apply

(* What a worker plans is a job: an update of the item's transfer, to its  *)
(* own step or the next.                                                   *)
Plans(it, j, steps) ==
    /\ j \in Jobs /\ j # Idle /\ j.item = it
    /\ j.pc # "publish" => j.upd.step \in steps /\ j.upd.status # "completed"

LEMMA RetryPlans ==
    ASSUME NEW it \in Items, NEW afterLedger \in BOOLEAN
    PROVE  Plans(it, Retry(it, afterLedger), {it.step})
<1> DEFINE attempt == IF it.attempts < MaxAttempts THEN it.attempts + 1 ELSE MaxAttempts
<1>1. attempt \in 0..MaxAttempts
    BY LimitsAssumption DEF Items
<1>2. /\ Failed(it, "retry_exhausted", attempt) \in Updates
      /\ TryLater(it, attempt) \in Updates
    BY <1>1 DEF Failed, TryLater, Updates, Items, Statuses, Failures
<1>2a. /\ TryLater(it, attempt).step = it.step
       /\ TryLater(it, attempt).status = "pending"
    BY DEF TryLater
<1>. HIDE DEF attempt
<1>3. Retry(it, afterLedger) \in {Update(it, TryLater(it, attempt)),
        Update(it, Failed(it, "retry_exhausted", attempt)),
        Release(it, Failed(it, "retry_exhausted", attempt))}
    BY DEF Retry, attempt
<1>4. CASE Retry(it, afterLedger) = Update(it, TryLater(it, attempt))
    BY <1>2, <1>2a, <1>4 DEF Plans, Jobs, Idle, Update
<1>5. CASE Retry(it, afterLedger) = Update(it, Failed(it, "retry_exhausted", attempt))
    BY <1>2, <1>5 DEF Plans, Jobs, Idle, Update, Failed
<1>6. CASE Retry(it, afterLedger) = Release(it, Failed(it, "retry_exhausted", attempt))
    BY <1>2, <1>6 DEF Plans, Jobs, Idle, Release, Failed
<1>. QED
    BY <1>3, <1>4, <1>5, <1>6

LEMMA HandleStepErrorPlans ==
    ASSUME NEW it \in Items, NEW err \in Results, NEW reserved \in BOOLEAN
    PROVE  Plans(it, HandleStepError(it, err, reserved), {it.step})
<1>1. ASSUME Permanent(err) PROVE Failed(it, err, 0) \in Updates
  <2>1. 0 \in 0..MaxAttempts
    BY LimitsAssumption
  <2>2. err \in Failures /\ it.step \in Steps
    BY <1>1 DEF Permanent, Failures, Items
  <2>. QED
    BY <2>1, <2>2 DEF Failed, Updates, Statuses
<1>2. CASE ~Permanent(err)
    BY <1>2, RetryPlans DEF HandleStepError
<1>3. CASE Permanent(err)
    BY <1>1, <1>3 DEF HandleStepError, Plans, Jobs, Idle, Update, Release, Failed
<1>. QED
    BY <1>2, <1>3

LEMMA AdvancePlans ==
    ASSUME NEW it \in Items, NEW step \in Steps
    PROVE  Plans(it, Update(it, AdvanceTo(step)), {step})
<1>1. AdvanceTo(step) \in Updates
    BY LimitsAssumption DEF AdvanceTo, Updates, Statuses, Failures
<1>. QED
    BY <1>1 DEF Plans, Jobs, Idle, Update, AdvanceTo

-----------------------------------------------------------------------------
(* The store *)

StoreTypeOK ==
    /\ accounts \in [AccountIDs -> Accounts]
    /\ transfers \in [TransferIDs -> Rows \cup {Absent}]
    /\ holds \in [TransferIDs -> {"none", "reserved", "captured", "released"}]
    /\ decisions \in [TransferIDs -> {"none", "approved", "rejected"}]
    /\ ledgerPostings \subseteq TransferIDs

(* What every step of the saga on the store keeps. *)
StoreKept ==
    /\ StoreTypeOK'
    /\ EffectsKept
    /\ PostedAfterApproval'

(* A present transfer is a row, and its command names accounts. *)
LEMMA RowType ==
    ASSUME StoreTypeOK, NEW t \in Present
    PROVE  /\ t \in TransferIDs
           /\ transfers[t] \in Rows
           /\ transfers[t].cmd \in Commands
           /\ transfers[t].cmd.src \in AccountIDs
           /\ transfers[t].cmd.dst \in AccountIDs
           /\ transfers[t].cmd.amount \in Nat
           /\ transfers[t].fee \in Nat
           /\ transfers[t].cmd.amount + transfers[t].fee \in Nat
<1>1. t \in TransferIDs /\ transfers[t] \in Rows
    BY DEF StoreTypeOK, Present
<1>2. transfers[t].cmd \in Commands /\ transfers[t].fee \in Nat
    BY <1>1 DEF Rows
<1>. QED
    BY <1>1, <1>2, CommandsAssumption

LEMMA UnchangedStore ==
    ASSUME StoreTypeOK, PostedAfterApproval, UNCHANGED store
    PROVE  StoreKept
BY DEF StoreKept, StoreTypeOK, EffectsKept, PostedAfterApproval, store

LEMMA ReserveKeeps ==
    ASSUME StoreTypeOK, PostedAfterApproval, NEW t \in Present, NEW res,
           ReserveTransferFunds(t, res)
    PROVE  StoreKept /\ transfers' = transfers /\ (res = "nil" => holds'[t] # "none")
<1>1. UNCHANGED <<transfers, decisions, ledgerPostings>>
    BY DEF ReserveTransferFunds
<1>2. CASE UNCHANGED <<accounts, holds>> /\ (res = "nil" => holds[t] # "none")
    BY <1>1, <1>2, UnchangedStore DEF store
<1>3. CASE /\ ~Reserved(t)
           /\ Apply(transfers[t].cmd.src, "FundsReserved", transfers[t].cmd.amount + transfers[t].fee)
           /\ holds' = [holds EXCEPT ![t] = "reserved"]
  <2>1. accounts' \in [AccountIDs -> Accounts]
    BY <1>3, RowType, ApplyType DEF StoreTypeOK, EventTypes
  <2>2. /\ StoreTypeOK' /\ holds'[t] = "reserved"
    BY <1>1, <1>3, <2>1, RowType DEF StoreTypeOK
  <2>3. EffectsKept /\ PostedAfterApproval'
    BY <1>1, <1>3, RowType DEF StoreTypeOK, EffectsKept, PostedAfterApproval, Reserved
  <2>. QED
    BY <1>1, <2>2, <2>3 DEF StoreKept
<1>. QED
    BY <1>2, <1>3 DEF ReserveTransferFunds, Reserved

LEMMA RecordKeeps ==
    ASSUME StoreTypeOK, PostedAfterApproval, NEW t \in Present, NEW res,
           NEW decision \in {"approved", "rejected"},
           RecordComplianceDecision(t, decision, res)
    PROVE  StoreKept /\ transfers' = transfers /\ (res = "nil" => decisions'[t] = decision)
<1>1. UNCHANGED <<accounts, transfers, holds, ledgerPostings>>
    BY DEF RecordComplianceDecision
<1>2. CASE UNCHANGED decisions /\ res # "nil"
    BY <1>1, <1>2, UnchangedStore DEF store
<1>3. CASE decisions[t] \in {"none", decision} /\ decisions' = [decisions EXCEPT ![t] = decision]
  <2>1. StoreTypeOK' /\ decisions'[t] = decision
    BY <1>1, <1>3, RowType DEF StoreTypeOK
  <2>2. EffectsKept /\ PostedAfterApproval'
    BY <1>1, <1>3, RowType DEF StoreTypeOK, EffectsKept, PostedAfterApproval
  <2>. QED
    BY <1>1, <2>1, <2>2 DEF StoreKept
<1>. QED
    BY <1>2, <1>3 DEF RecordComplianceDecision

LEMMA PostKeeps ==
    ASSUME StoreTypeOK, PostedAfterApproval, NEW t \in Present, NEW res,
           StepFacts(t, "compliance_approved"),
           PostTransferLedger(t, res)
    PROVE  StoreKept /\ transfers' = transfers /\ (res = "nil" => t \in ledgerPostings')
<1> DEFINE c   == transfers[t].cmd
           fee == [type |-> "MoneyDebited", amount |-> transfers[t].fee]
           src == Fold(Fold(accounts[c.src], fee), [type |-> "MoneyDebited", amount |-> c.amount])
           dst == Fold(accounts[c.dst], [type |-> "MoneyCredited", amount |-> c.amount])
<1>1. UNCHANGED <<transfers, holds, decisions>>
    BY DEF PostTransferLedger
<1>2. CASE UNCHANGED <<accounts, ledgerPostings>> /\ (res = "nil" => t \in ledgerPostings)
    BY <1>1, <1>2, UnchangedStore DEF store
<1>3. CASE /\ accounts' = [accounts EXCEPT ![c.src] = src, ![c.dst] = dst]
           /\ ledgerPostings' = ledgerPostings \cup {t}
  <2>1. src \in Accounts /\ dst \in Accounts
    <3>1. Fold(accounts[c.src], fee) \in Accounts
      BY RowType, FoldType DEF StoreTypeOK, EventTypes
    <3>. QED
      BY <3>1, RowType, FoldType DEF StoreTypeOK, EventTypes
  <2>. HIDE DEF src, dst
  <2>2. accounts' \in [AccountIDs -> Accounts]
    BY <1>3, <2>1, RowType DEF StoreTypeOK
  <2>3. StoreTypeOK' /\ EffectsKept
    BY <1>1, <1>3, <2>2, RowType DEF StoreTypeOK, EffectsKept
  <2>4. PostedAfterApproval'
    BY <1>1, <1>3, RowType DEF StoreTypeOK, PostedAfterApproval, StepFacts
  <2>. QED
    BY <1>1, <1>3, <2>3, <2>4 DEF StoreKept
<1>. QED
    BY <1>2, <1>3 DEF PostTransferLedger, Posted

LEMMA FinishKeeps ==
    ASSUME StoreTypeOK, PostedAfterApproval, NEW t \in Present, NEW res,
           NEW target \in {"captured", "released"},
           target = "captured" => StepFacts(t, "ledger_posted"),
           FinishReservation(t, target, res)
    PROVE  StoreKept /\ transfers' = transfers
           /\ (res = "nil" => holds'[t] \in {"none", target})
<1> DEFINE event == IF target = "captured" THEN "ReservationCaptured" ELSE "ReservationReleased"
<1>1. UNCHANGED <<transfers, decisions, ledgerPostings>>
    BY DEF FinishReservation
<1>2. CASE UNCHANGED <<accounts, holds>> /\ (res = "nil" => holds[t] \in {"none", target})
    BY <1>1, <1>2, UnchangedStore DEF store
<1>3. CASE /\ holds[t] = "reserved"
           /\ Apply(transfers[t].cmd.src, event, transfers[t].cmd.amount + transfers[t].fee)
           /\ holds' = [holds EXCEPT ![t] = target]
  <2>1. accounts' \in [AccountIDs -> Accounts]
    BY <1>3, RowType, ApplyType DEF StoreTypeOK, EventTypes
  <2>2. StoreTypeOK' /\ holds'[t] = target
    BY <1>1, <1>3, <2>1, RowType DEF StoreTypeOK
  <2>3. EffectsKept /\ PostedAfterApproval'
    BY <1>1, <1>3, RowType DEF StoreTypeOK, EffectsKept, PostedAfterApproval, StepFacts
  <2>. QED
    BY <1>1, <2>2, <2>3 DEF StoreKept
<1>. QED
    BY <1>2, <1>3 DEF FinishReservation, Finished, Open

-----------------------------------------------------------------------------
(* The same operations over a store that may fail *)

LEMMA CallReserveKeeps ==
    ASSUME StoreTypeOK, PostedAfterApproval, faults \in Nat, NEW t \in Present, NEW res,
           CallReserve(t, res)
    PROVE  /\ StoreKept /\ transfers' = transfers /\ faults' \in Nat
           /\ res = "nil" => holds'[t] # "none"
BY ReserveKeeps, UnchangedStore DEF CallReserve, StoreCall, Fault, store

LEMMA CallRecordKeeps ==
    ASSUME StoreTypeOK, PostedAfterApproval, faults \in Nat, NEW t \in Present, NEW res,
           NEW decision \in {"approved", "rejected"},
           CallRecord(t, decision, res)
    PROVE  /\ StoreKept /\ transfers' = transfers /\ faults' \in Nat
           /\ res = "nil" => decisions'[t] = decision
BY RecordKeeps, UnchangedStore DEF CallRecord, StoreCall, Fault, store

LEMMA CallPostKeeps ==
    ASSUME StoreTypeOK, PostedAfterApproval, faults \in Nat, NEW t \in Present, NEW res,
           StepFacts(t, "compliance_approved"),
           CallPost(t, res)
    PROVE  /\ StoreKept /\ transfers' = transfers /\ faults' \in Nat
           /\ res = "nil" => t \in ledgerPostings'
BY PostKeeps, UnchangedStore DEF CallPost, StoreCall, Fault, store

LEMMA CallFinishKeeps ==
    ASSUME StoreTypeOK, PostedAfterApproval, faults \in Nat, NEW t \in Present, NEW res,
           NEW target \in {"captured", "released"},
           target = "captured" => StepFacts(t, "ledger_posted"),
           CallFinish(t, target, res)
    PROVE  /\ StoreKept /\ transfers' = transfers /\ faults' \in Nat
           /\ res = "nil" => holds'[t] \in {"none", target}
BY FinishKeeps, UnchangedStore DEF CallFinish, StoreCall, Fault, store

-----------------------------------------------------------------------------
(* Rows *)

(* What a step supports stays supported. *)
SupportKept ==
    \A t \in Present, step \in Steps :
        StepFacts(t, step) => t \in Present' /\ StepFacts(t, step)'

LEMMA SupportIsKept ==
    ASSUME StoreTypeOK, EffectsKept, RowsMoveForward
    PROVE  SupportKept
<1> SUFFICES ASSUME NEW t \in Present, NEW step \in Steps, StepFacts(t, step)
             PROVE  t \in Present' /\ StepFacts(t, step)'
    BY DEF SupportKept
<1>1. t \in TransferIDs
    BY DEF Present
<1>2. t \in Present'
    BY <1>1 DEF RowsMoveForward, Present
<1>3. StepFacts(t, step)'
    BY <1>1 DEF StepFacts, EffectsKept, StoreTypeOK
<1>. QED
    BY <1>2, <1>3

LEMMA UnchangedRows ==
    ASSUME StoreTypeOK, RowsSupported, EffectsKept, transfers' = transfers
    PROVE  RowsMoveForward /\ RowsSupported'
<1>1. \A t \in Present : transfers[t].step \in Steps
    BY RowType DEF Rows
<1>2. RowsMoveForward
    BY <1>1 DEF RowsMoveForward, MovesForward, Rank, Steps, Present
<1>3. SupportKept
    BY <1>2, SupportIsKept
<1>4. Present' = Present
    BY DEF Present
<1>. QED
    BY <1>1, <1>2, <1>3, <1>4 DEF SupportKept, RowsSupported

LEMMA UpdateKeeps ==
    ASSUME StoreTypeOK, PostedAfterApproval, RowsSupported, faults \in Nat,
           NEW t \in Present, NEW expected \in Steps, NEW u \in Updates, NEW res,
           StepFacts(t, u.step),
           Rank[u.step] - Rank[expected] \in {0, 1},
           u.status = "completed" => u.step = "reservation_captured",
           CallUpdate(t, expected, u, res)
    PROVE  /\ StoreKept /\ faults' \in Nat
           /\ RowsMoveForward /\ RowsSupported'
<1>1. faults' \in Nat
    BY DEF CallUpdate, StoreCall, Fault
<1>2. CASE UNCHANGED store
    BY <1>1, <1>2, UnchangedStore, UnchangedRows DEF store, StoreKept
<1>3. CASE /\ Current(t, expected)
           /\ transfers' = [transfers EXCEPT ![t] = Written(transfers[t], u)]
           /\ UNCHANGED <<accounts, holds, decisions, ledgerPostings>>
  <2>1. Written(transfers[t], u) \in Rows
    BY RowType DEF Written, Rows, Updates
  <2>2. Written(transfers[t], u) # Absent
    BY <2>1 DEF Rows, Statuses, Absent
  <2>3. StoreTypeOK'
    BY <1>3, <2>1, RowType DEF StoreTypeOK
  <2>4. EffectsKept /\ PostedAfterApproval'
    BY <1>3 DEF EffectsKept, PostedAfterApproval
  <2>5. MovesForward(transfers[t], Written(transfers[t], u))
    BY <1>3 DEF MovesForward, Written, Current
  <2>6. \A s \in Present : s # t => MovesForward(transfers[s], transfers[s])
    <3>1. \A s \in Present : transfers[s].step \in Steps
      BY RowType DEF Rows
    <3>. QED
      BY <3>1 DEF MovesForward, Rank, Steps
  <2>7. RowsMoveForward
    BY <1>3, <2>2, <2>5, <2>6, RowType DEF RowsMoveForward, StoreTypeOK, Present
  <2>8. Present' = Present
    BY <1>3, <2>2, RowType DEF Present, StoreTypeOK
  <2>9. \A s \in Present, step \in Steps : StepFacts(s, step)' <=> StepFacts(s, step)
    BY <1>3 DEF StepFacts
  <2>10. RowsSupported'
    <3>1. \A s \in Present : s # t => transfers'[s] = transfers[s]
      BY <1>3, RowType DEF StoreTypeOK
    <3>2. transfers'[t] = Written(transfers[t], u)
      BY <1>3, RowType DEF StoreTypeOK
    <3>3. transfers'[t].step = u.step /\ transfers'[t].status = u.status
      BY <3>2 DEF Written
    <3>4. u.step \in Steps /\ \A s \in Present : transfers[s].step \in Steps
      BY RowType DEF Updates, Rows
    <3>. QED
      BY <2>8, <2>9, <3>1, <3>3, <3>4 DEF RowsSupported
  <2>. QED
    BY <1>1, <2>3, <2>4, <2>7, <2>10 DEF StoreKept
<1>. QED
    BY <1>2, <1>3 DEF CallUpdate, StoreCall, UpdateTransferSaga, store

-----------------------------------------------------------------------------
(* What the workers carry *)

LEMMA QueuesShrink ==
    ASSUME TypeOK, QueuesSupported, SupportKept,
           queue' \in [Workers -> SUBSET Items],
           \A w \in Workers : queue'[w] \subseteq queue[w]
    PROVE  QueuesSupported'
BY DEF QueuesSupported, Supported, SupportKept, TypeOK, Items

LEMMA PlanSupported ==
    ASSUME NEW it \in Items, NEW steps \in SUBSET Steps, NEW j, Plans(it, j, steps),
           SupportKept, Supported(it.id, it.step),
           \A step \in steps :
              StepFacts(it.id, step)' /\ Rank[step] - Rank[it.step] \in {0, 1}
    PROVE  JobSupported(j)' /\ j \in Jobs
<1>1. it.step \in Steps
    BY DEF Items
<1>2. it.id \in Present' /\ StepFacts(it.id, it.step)'
    BY <1>1 DEF Supported, SupportKept
<1>. QED
    BY <1>2 DEF Plans, JobSupported, Supported

LEMMA JobsSet ==
    ASSUME TypeOK, JobsSupported, SupportKept, NEW w \in Workers, NEW j \in Jobs,
           JobSupported(j)', job' = [job EXCEPT ![w] = j]
    PROVE  JobsSupported' /\ job' \in [Workers -> Jobs]
<1>1. \A v \in Workers : JobSupported(job[v])'
  <2> SUFFICES ASSUME NEW v \in Workers, NEW k \in Jobs, JobSupported(k)
               PROVE  JobSupported(k)'
    BY DEF JobsSupported, TypeOK
  <2> QED
    BY DEF JobSupported, Supported, SupportKept, Jobs, Items, Updates
<1>. QED
    BY <1>1 DEF JobsSupported, TypeOK

-----------------------------------------------------------------------------
(* The actions *)

SagaStep == SagaInv' /\ EffectsKept /\ RowsMoveForward

LEMMA StoreTyped == ASSUME TypeOK PROVE StoreTypeOK
BY DEF TypeOK, StoreTypeOK

(* The end of every step of a worker: it has taken an item out of its      *)
(* queue, or not, called the store, and planned its next job.              *)
LEMMA WorkerStepKeeps ==
    ASSUME SagaInv, StoreKept, RowsMoveForward, RowsSupported', faults' \in Nat,
           UNCHANGED <<receipts, cash>>, published' \in [TransferIDs -> Nat],
           queue' \in [Workers -> SUBSET Items],
           \A v \in Workers : queue'[v] \subseteq queue[v],
           NEW w \in Workers, NEW j \in Jobs, JobSupported(j)', Goto(w, j)
    PROVE  SagaStep
<1>1. TypeOK /\ StoreTypeOK /\ QueuesSupported /\ JobsSupported
    BY StoreTyped DEF SagaInv
<1>2. EffectsKept /\ StoreTypeOK' /\ PostedAfterApproval'
    BY DEF StoreKept
<1>3. SupportKept
    BY <1>1, <1>2, SupportIsKept
<1>4. QueuesSupported'
    BY <1>1, <1>3, QueuesShrink
<1>5. JobsSupported' /\ job' \in [Workers -> Jobs]
    BY <1>1, <1>3, JobsSet DEF Goto
<1>6. TypeOK'
    BY <1>1, <1>2, <1>5 DEF TypeOK, StoreTypeOK
<1>. QED
    BY <1>2, <1>4, <1>5, <1>6 DEF SagaStep, SagaInv

(* What a worker has done when it plans: called the store about item it,   *)
(* and left the rows alone.                                                *)
Called(w, it) ==
    /\ StoreKept /\ transfers' = transfers /\ faults' \in Nat
    /\ UNCHANGED <<published, receipts, cash>>
    /\ queue' \in [Workers -> SUBSET Items]
    /\ \A v \in Workers : queue'[v] \subseteq queue[v]
    /\ it \in Items /\ Supported(it.id, it.step)

(* Then it is enough that the steps it plans to write are supported now,   *)
(* and adjacent.                                                           *)
LEMMA PlanKeeps ==
    ASSUME SagaInv, NEW w \in Workers, NEW it, Called(w, it),
           NEW j, NEW steps \in SUBSET Steps, Plans(it, j, steps), Goto(w, j),
           \A step \in steps :
              StepFacts(it.id, step)' /\ Rank[step] - Rank[it.step] \in {0, 1}
    PROVE  SagaStep
<1>1. StoreTypeOK /\ RowsSupported /\ EffectsKept
    BY StoreTyped DEF SagaInv, StoreKept, Called
<1>2. RowsMoveForward /\ RowsSupported'
    BY <1>1, UnchangedRows DEF Called
<1>3. SupportKept
    BY <1>1, <1>2, SupportIsKept
<1>4. JobSupported(j)' /\ j \in Jobs
    BY <1>3, PlanSupported DEF Called
<1>5. published' \in [TransferIDs -> Nat]
    BY DEF SagaInv, TypeOK, Called
<1>. QED
    BY <1>2, <1>4, <1>5, WorkerStepKeeps DEF Called

(* Staying at the item's step is supported. *)
LEMMA StayKeeps ==
    ASSUME SagaInv, NEW w \in Workers, NEW it, Called(w, it),
           NEW j, Plans(it, j, {it.step}), Goto(w, j)
    PROVE  SagaStep
<1>1. it.step \in Steps
    BY DEF Items, Called
<1>2. Rank[it.step] - Rank[it.step] \in {0, 1}
    BY <1>1 DEF Rank, Steps
<1>3. SupportKept
    BY StoreTyped, UnchangedRows, SupportIsKept DEF SagaInv, StoreKept, Called
<1>4. StepFacts(it.id, it.step)'
    BY <1>1, <1>3 DEF SupportKept, Supported, Called
<1>. QED
    BY <1>1, <1>2, <1>4, PlanKeeps

(* Advancing needs the facts of the next step. *)
LEMMA AdvanceKeeps ==
    ASSUME SagaInv, NEW w \in Workers, NEW it, Called(w, it),
           NEW step \in Steps, Rank[step] - Rank[it.step] \in {0, 1},
           StepFacts(it.id, step)', Goto(w, Update(it, AdvanceTo(step)))
    PROVE  SagaStep
<1>1. Plans(it, Update(it, AdvanceTo(step)), {step})
    BY AdvancePlans DEF Called
<1>. QED
    BY <1>1, PlanKeeps

LEMMA TakeItem ==
    ASSUME SagaInv, NEW w \in Workers, NEW it, NEW step, Take(w, it, step)
    PROVE  /\ it \in Items /\ it.step = step
           /\ it.id \in Present /\ StepFacts(it.id, step) /\ Supported(it.id, it.step)
           /\ queue' \in [Workers -> SUBSET Items]
           /\ \A v \in Workers : queue'[v] \subseteq queue[v]
BY DEF SagaInv, TypeOK, Take, QueuesSupported, Supported

LEMMA ProcessCreatedKeeps ==
    ASSUME SagaInv, NEW w \in Workers, NEW it, ProcessCreated(w, it)
    PROVE  SagaStep
<1>1. Take(w, it, "created") /\ UNCHANGED <<published, receipts, cash>>
    BY DEF ProcessCreated
<1>2. PICK res \in Results : CallReserve(it.id, res) /\ Goto(w, AfterReserve(it, res))
    BY DEF ProcessCreated
<1>3. StoreTypeOK /\ PostedAfterApproval /\ faults \in Nat
    BY StoreTyped DEF SagaInv, TypeOK
<1>4. Called(w, it) /\ (res = "nil" => holds'[it.id] # "none")
    BY <1>1, <1>2, <1>3, TakeItem, CallReserveKeeps DEF Called
<1>5. CASE res = "nil"
  <2>1. StepFacts(it.id, "funds_reserved")'
    BY <1>4, <1>5 DEF StepFacts
  <2>2. Rank["funds_reserved"] - Rank[it.step] \in {0, 1} /\ "funds_reserved" \in Steps
    BY <1>1, TakeItem DEF Rank, Steps
  <2>. QED
    BY <1>2, <1>4, <1>5, <2>1, <2>2, AdvanceKeeps DEF AfterReserve
<1>6. CASE res # "nil"
    BY <1>1, <1>2, <1>4, <1>6, TakeItem, HandleStepErrorPlans, StayKeeps DEF AfterReserve
<1>. QED
    BY <1>5, <1>6

LEMMA ProcessFundsReservedKeeps ==
    ASSUME SagaInv, NEW w \in Workers, NEW it, ProcessFundsReserved(w, it)
    PROVE  SagaStep
<1>1. Take(w, it, "funds_reserved") /\ UNCHANGED <<published, receipts, cash>>
    BY DEF ProcessFundsReserved
<1>2. StoreTypeOK /\ PostedAfterApproval /\ faults \in Nat
    BY StoreTyped DEF SagaInv, TypeOK
<1>3. CASE Goto(w, HandleStepError(it, "unavailable", TRUE)) /\ UNCHANGED store /\ UNCHANGED faults
  <2>1. Called(w, it)
    BY <1>1, <1>2, <1>3, TakeItem, UnchangedStore DEF Called, store
  <2>2. Plans(it, HandleStepError(it, "unavailable", TRUE), {it.step})
    BY <1>1, TakeItem, HandleStepErrorPlans DEF Results
  <2>. QED
    BY <1>3, <2>1, <2>2, StayKeeps
<1>4. ASSUME NEW verdict \in ComplianceVerdicts(transfers[it.id].cmd) \ {"error"}, NEW res \in Results,
             CallRecord(it.id, verdict, res), Goto(w, AfterDecision(it, verdict, res))
      PROVE  SagaStep
  <2>1. verdict \in {"approved", "rejected"}
    BY <1>1, <1>2, <1>4, TakeItem, RowType, ComplianceAssumption DEF Verdicts
  <2>2. Called(w, it) /\ (res = "nil" => decisions'[it.id] = verdict)
    BY <1>1, <1>2, <1>4, <2>1, TakeItem, CallRecordKeeps DEF Called
  <2>3. CASE res # "nil"
    BY <1>1, <1>4, <2>2, <2>3, TakeItem, HandleStepErrorPlans, StayKeeps DEF AfterDecision
  <2>4. CASE res = "nil" /\ verdict = "approved"
    <3>1. EffectsKept /\ it.id \in TransferIDs /\ StepFacts(it.id, "funds_reserved")
      BY <1>1, <2>2, TakeItem DEF Called, StoreKept, Present
    <3>2. StepFacts(it.id, "compliance_approved")'
      BY <2>2, <2>4, <3>1 DEF StepFacts, EffectsKept
    <3>3. Rank["compliance_approved"] - Rank[it.step] \in {0, 1} /\ "compliance_approved" \in Steps
      BY <1>1, TakeItem DEF Rank, Steps
    <3>. QED
      BY <1>4, <2>2, <2>4, <3>2, <3>3, AdvanceKeeps DEF AfterDecision
  <2>5. CASE res = "nil" /\ verdict = "rejected"
    <3> DEFINE u == Failed(it, "compliance_rejected", 0)
    <3>1. u \in Updates /\ u.step = it.step /\ u.status = "failed"
      <4>1. 0 \in 0..MaxAttempts
        BY LimitsAssumption
      <4>. QED
        BY <1>1, <4>1, TakeItem DEF Failed, Updates, Items, Statuses, Failures
    <3>2. AfterDecision(it, verdict, res) = [pc |-> "reject", item |-> it, upd |-> u]
      BY <2>5 DEF AfterDecision
    <3>. HIDE DEF u
    <3>3. Plans(it, AfterDecision(it, verdict, res), {it.step})
      BY <1>1, <3>1, <3>2, TakeItem DEF Plans, Jobs, Idle
    <3>. QED
      BY <1>4, <2>2, <3>3, StayKeeps
  <2>. QED
    BY <2>1, <2>3, <2>4, <2>5
<1>. QED
    BY <1>3, <1>4 DEF ProcessFundsReserved

LEMMA ProcessComplianceApprovedKeeps ==
    ASSUME SagaInv, NEW w \in Workers, NEW it, ProcessComplianceApproved(w, it)
    PROVE  SagaStep
<1>1. Take(w, it, "compliance_approved") /\ UNCHANGED <<published, receipts, cash>>
    BY DEF ProcessComplianceApproved
<1>2. PICK res \in Results : CallPost(it.id, res) /\ Goto(w, AfterPost(it, res))
    BY DEF ProcessComplianceApproved
<1>3. StoreTypeOK /\ PostedAfterApproval /\ faults \in Nat
    BY StoreTyped DEF SagaInv, TypeOK
<1>4. Called(w, it) /\ (res = "nil" => it.id \in ledgerPostings')
    BY <1>1, <1>2, <1>3, TakeItem, CallPostKeeps DEF Called
<1>5. CASE res = "nil"
  <2>1. EffectsKept /\ it.id \in TransferIDs /\ StepFacts(it.id, "compliance_approved")
    BY <1>1, <1>4, TakeItem DEF Called, StoreKept, Present
  <2>2. StepFacts(it.id, "ledger_posted")'
    BY <1>4, <1>5, <2>1 DEF StepFacts, EffectsKept
  <2>3. Rank["ledger_posted"] - Rank[it.step] \in {0, 1} /\ "ledger_posted" \in Steps
    BY <1>1, TakeItem DEF Rank, Steps
  <2>. QED
    BY <1>2, <1>4, <1>5, <2>2, <2>3, AdvanceKeeps DEF AfterPost
<1>6. CASE res # "nil"
    BY <1>1, <1>2, <1>4, <1>6, TakeItem, HandleStepErrorPlans, StayKeeps DEF AfterPost
<1>. QED
    BY <1>5, <1>6

LEMMA ProcessLedgerPostedKeeps ==
    ASSUME SagaInv, NEW w \in Workers, NEW it, ProcessLedgerPosted(w, it)
    PROVE  SagaStep
<1>1. Take(w, it, "ledger_posted") /\ UNCHANGED <<published, receipts, cash>>
    BY DEF ProcessLedgerPosted
<1>2. PICK res \in Results : CallFinish(it.id, "captured", res) /\ Goto(w, AfterCapture(it, res))
    BY DEF ProcessLedgerPosted
<1>3. StoreTypeOK /\ PostedAfterApproval /\ faults \in Nat
    BY StoreTyped DEF SagaInv, TypeOK
<1>4. Called(w, it) /\ (res = "nil" => holds'[it.id] \in {"none", "captured"})
    BY <1>1, <1>2, <1>3, TakeItem, CallFinishKeeps DEF Called
<1>5. CASE res = "nil"
  <2>1. EffectsKept /\ it.id \in TransferIDs /\ StepFacts(it.id, "ledger_posted")
    BY <1>1, <1>4, TakeItem DEF Called, StoreKept, Present
  <2>2. StepFacts(it.id, "reservation_captured")'
    BY <1>4, <1>5, <2>1 DEF StepFacts, EffectsKept
  <2>3. Rank["reservation_captured"] - Rank[it.step] \in {0, 1} /\ "reservation_captured" \in Steps
    BY <1>1, TakeItem DEF Rank, Steps
  <2>. QED
    BY <1>2, <1>4, <1>5, <2>2, <2>3, AdvanceKeeps DEF AfterCapture
<1>6. CASE res # "nil"
    BY <1>1, <1>2, <1>4, <1>6, TakeItem, RetryPlans, StayKeeps DEF AfterCapture
<1>. QED
    BY <1>5, <1>6

LEMMA ProcessReservationCapturedKeeps ==
    ASSUME SagaInv, NEW w \in Workers, NEW it, ProcessReservationCaptured(w, it)
    PROVE  SagaStep
<1>1. Take(w, it, "reservation_captured") /\ UNCHANGED <<published, receipts, cash>>
    BY DEF ProcessReservationCaptured
<1>2. PICK res \in Results : /\ CallUpdate(it.id, it.step, Completed(it), res)
                             /\ Goto(w, AfterComplete(it, res))
    BY DEF ProcessReservationCaptured
<1>3. /\ StoreTypeOK /\ PostedAfterApproval /\ RowsSupported /\ faults \in Nat
      /\ published \in [TransferIDs -> Nat]
    BY StoreTyped DEF SagaInv, TypeOK
<1>4. /\ Completed(it) \in Updates
      /\ Completed(it).step = it.step /\ it.step = "reservation_captured" /\ it.step \in Steps
  <2>1. 0 \in 0..MaxAttempts
    BY LimitsAssumption
  <2>. QED
    BY <1>1, <2>1, TakeItem DEF Completed, Updates, Items, Statuses, Failures
<1>5. Rank[it.step] - Rank[it.step] \in {0, 1}
    BY <1>4 DEF Rank
<1>6. StoreKept /\ faults' \in Nat /\ RowsMoveForward /\ RowsSupported'
    BY <1>1, <1>2, <1>3, <1>4, <1>5, TakeItem, UpdateKeeps
<1>7. SupportKept
    BY <1>3, <1>6, SupportIsKept DEF StoreKept
<1>8. AfterComplete(it, res) \in Jobs /\ JobSupported(AfterComplete(it, res))'
  <2>1. [pc |-> "publish", item |-> it] \in Jobs /\ Idle \in Jobs
    BY <1>1, TakeItem DEF Jobs
  <2>2. it.id \in Present' /\ StepFacts(it.id, it.step)'
    BY <1>1, <1>4, <1>7, TakeItem DEF SupportKept
  <2>3. JobSupported([pc |-> "publish", item |-> it])' /\ JobSupported(Idle)'
    BY <2>2 DEF JobSupported, Supported
  <2>. QED
    BY <2>1, <2>3 DEF AfterComplete
<1>. QED
    BY <1>1, <1>2, <1>3, <1>6, <1>8, TakeItem, WorkerStepKeeps

(* What a job that is under way carries. *)
LEMMA JobCarries ==
    ASSUME SagaInv, NEW w \in Workers, job[w].pc \in {"reject", "release", "update"}
    PROVE  /\ job[w].item \in Items /\ job[w].upd \in Updates
           /\ job[w].item.id \in Present /\ StepFacts(job[w].item.id, job[w].upd.step)
           /\ Supported(job[w].item.id, job[w].item.step)
           /\ Rank[job[w].upd.step] - Rank[job[w].item.step] \in {0, 1}
           /\ job[w].upd.status # "completed"
<1>1. job[w] \in Jobs /\ JobSupported(job[w])
    BY DEF SagaInv, TypeOK, JobsSupported
<1>2. job[w] # Idle /\ job[w].item \in Items /\ job[w].upd \in Updates
    BY <1>1 DEF Jobs, Idle
<1>. QED
    BY <1>1, <1>2 DEF JobSupported, Supported

(* Going on with the update that was planned. *)
LEMMA CarryOn ==
    ASSUME SagaInv, NEW w \in Workers, NEW it, Called(w, it), NEW u \in Updates,
           StepFacts(it.id, u.step), Rank[u.step] - Rank[it.step] \in {0, 1},
           u.status # "completed", Goto(w, Update(it, u))
    PROVE  SagaStep
<1>1. Plans(it, Update(it, u), {u.step}) /\ u.step \in Steps
    BY DEF Plans, Jobs, Idle, Update, Called, Updates
<1>2. SupportKept
    BY StoreTyped, UnchangedRows, SupportIsKept DEF SagaInv, StoreKept, Called
<1>3. StepFacts(it.id, u.step)'
    BY <1>1, <1>2 DEF SupportKept, Supported, Called
<1>. QED
    BY <1>1, <1>3, PlanKeeps

LEMMA RejectReleaseKeeps ==
    ASSUME SagaInv, NEW w \in Workers, RejectRelease(w)
    PROVE  SagaStep
<1>1. PICK it \in Items, u \in Updates : it = job[w].item /\ u = job[w].upd
    BY JobCarries DEF RejectRelease
<1>2. /\ it.id \in Present /\ StepFacts(it.id, u.step) /\ Supported(it.id, it.step)
      /\ Rank[u.step] - Rank[it.step] \in {0, 1} /\ u.status # "completed"
    BY <1>1, JobCarries DEF RejectRelease
<1>3. PICK res \in Results : CallFinish(it.id, "released", res) /\ Goto(w, AfterReject(it, u, res))
    BY <1>1 DEF RejectRelease
<1>4. StoreTypeOK /\ PostedAfterApproval /\ faults \in Nat /\ queue \in [Workers -> SUBSET Items]
    BY StoreTyped DEF SagaInv, TypeOK
<1>5. Called(w, it)
    BY <1>2, <1>3, <1>4, CallFinishKeeps DEF Called, RejectRelease
<1>6. CASE res = "nil"
    BY <1>2, <1>3, <1>5, <1>6, CarryOn DEF AfterReject
<1>7. CASE res # "nil"
    BY <1>3, <1>5, <1>7, HandleStepErrorPlans, StayKeeps DEF AfterReject
<1>. QED
    BY <1>6, <1>7

LEMMA FailReleaseKeeps ==
    ASSUME SagaInv, NEW w \in Workers, FailRelease(w)
    PROVE  SagaStep
<1>1. PICK it \in Items, u \in Updates : it = job[w].item /\ u = job[w].upd
    BY JobCarries DEF FailRelease
<1>2. /\ it.id \in Present /\ StepFacts(it.id, u.step) /\ Supported(it.id, it.step)
      /\ Rank[u.step] - Rank[it.step] \in {0, 1} /\ u.status # "completed"
    BY <1>1, JobCarries DEF FailRelease
<1>3. PICK res \in Results : CallFinish(it.id, "released", res)
    BY <1>1 DEF FailRelease
<1>4. StoreTypeOK /\ PostedAfterApproval /\ faults \in Nat /\ queue \in [Workers -> SUBSET Items]
    BY StoreTyped DEF SagaInv, TypeOK
<1>5. Called(w, it)
    BY <1>2, <1>3, <1>4, CallFinishKeeps DEF Called, FailRelease
<1>. QED
    BY <1>1, <1>2, <1>5, CarryOn DEF FailRelease

LEMMA IdleSupported == Idle \in Jobs /\ JobSupported(Idle)'
BY DEF Jobs, JobSupported

LEMMA AdvanceActionKeeps ==
    ASSUME SagaInv, NEW w \in Workers, Advance(w)
    PROVE  SagaStep
<1>1. PICK it \in Items, u \in Updates : it = job[w].item /\ u = job[w].upd
    BY JobCarries DEF Advance
<1>2. /\ it.id \in Present /\ StepFacts(it.id, u.step) /\ it.step \in Steps
      /\ Rank[u.step] - Rank[it.step] \in {0, 1} /\ u.status # "completed"
    BY <1>1, JobCarries DEF Advance, Items
<1>3. PICK res \in Results : CallUpdate(it.id, it.step, u, res)
    BY <1>1 DEF Advance
<1>4. /\ StoreTypeOK /\ PostedAfterApproval /\ RowsSupported /\ faults \in Nat
      /\ published \in [TransferIDs -> Nat] /\ queue \in [Workers -> SUBSET Items]
    BY StoreTyped DEF SagaInv, TypeOK
<1>5. StoreKept /\ faults' \in Nat /\ RowsMoveForward /\ RowsSupported'
    BY <1>2, <1>3, <1>4, UpdateKeeps
<1>. QED
    BY <1>4, <1>5, IdleSupported, WorkerStepKeeps DEF Advance

LEMMA PublishKeeps ==
    ASSUME SagaInv, NEW w \in Workers, Publish(w)
    PROVE  SagaStep
<1>1. /\ StoreTypeOK /\ PostedAfterApproval /\ RowsSupported /\ faults \in Nat
      /\ published \in [TransferIDs -> Nat] /\ queue \in [Workers -> SUBSET Items]
    BY StoreTyped DEF SagaInv, TypeOK
<1>2. StoreKept /\ RowsMoveForward /\ RowsSupported'
    BY <1>1, UnchangedStore, UnchangedRows DEF Publish, store, StoreKept
<1>3. job[w].item.id \in TransferIDs
  <2>1. job[w] \in Jobs
    BY DEF SagaInv, TypeOK
  <2>2. job[w].item \in Items
    BY <2>1 DEF Publish, Jobs, Idle
  <2>. QED
    BY <2>2 DEF Items
<1>4. published' \in [TransferIDs -> Nat]
    BY <1>1, <1>3 DEF Publish
<1>. QED
    BY <1>1, <1>2, <1>4, IdleSupported, WorkerStepKeeps DEF Publish

LEMMA CrashKeeps ==
    ASSUME SagaInv, NEW w \in Workers, Crash(w)
    PROVE  SagaStep
<1>1. /\ StoreTypeOK /\ PostedAfterApproval /\ RowsSupported /\ faults \in Nat
      /\ published \in [TransferIDs -> Nat] /\ queue \in [Workers -> SUBSET Items]
    BY StoreTyped DEF SagaInv, TypeOK
<1>2. StoreKept /\ RowsMoveForward /\ RowsSupported'
    BY <1>1, UnchangedStore, UnchangedRows DEF Crash, store, StoreKept
<1>3. faults' \in Nat /\ queue' \in [Workers -> SUBSET Items]
      /\ \A v \in Workers : queue'[v] \subseteq queue[v]
    BY <1>1 DEF Crash, Fault
<1>. QED
    BY <1>1, <1>2, <1>3, IdleSupported, WorkerStepKeeps DEF Crash

(* Fetched copies are as supported as the rows they were copied from. *)
LEMMA ListDueTransfersKeeps ==
    ASSUME SagaInv, NEW w \in Workers, ListDueTransfers(w)
    PROVE  SagaStep
<1>1. StoreTypeOK /\ PostedAfterApproval /\ RowsSupported
    BY StoreTyped DEF SagaInv
<1>2. StoreKept /\ RowsMoveForward /\ RowsSupported' /\ Present' = Present
    BY <1>1, UnchangedStore, UnchangedRows DEF ListDueTransfers, store, StoreKept, Present
<1>3. PICK batch \in SUBSET Due : queue' = [queue EXCEPT ![w] = {Fetch(t) : t \in batch}]
    BY DEF ListDueTransfers
<1>4. \A t \in Present : /\ Fetch(t) \in Items /\ Fetch(t).id = t /\ Fetch(t).step \in Steps
                         /\ StepFacts(t, Fetch(t).step)
    BY <1>1, RowType DEF Fetch, Items, Rows, RowsSupported
<1>5. \A t \in Present, step \in Steps : StepFacts(t, step) => StepFacts(t, step)'
    BY DEF ListDueTransfers, store, StepFacts
<1>6. queue' \in [Workers -> SUBSET Items]
    BY <1>3, <1>4 DEF SagaInv, TypeOK, Due
<1>7. SupportKept
    BY <1>1, <1>2, SupportIsKept DEF StoreKept
<1>8. QueuesSupported'
  <2> SUFFICES ASSUME NEW v \in Workers, NEW it \in queue'[v]
               PROVE  it.id \in Present' /\ StepFacts(it.id, it.step)'
    BY DEF QueuesSupported, Supported
  <2>1. CASE v = w
    <3>1. PICK t \in Present : it = Fetch(t)
      BY <1>3, <2>1 DEF SagaInv, TypeOK, Due
    <3>. QED
      BY <1>2, <1>4, <1>5, <3>1
  <2>2. CASE v # w
    <3>1. it \in queue[v] /\ it \in Items
      BY <1>3, <1>6, <2>2 DEF SagaInv, TypeOK
    <3>. QED
      BY <1>7, <3>1 DEF SagaInv, QueuesSupported, Supported, SupportKept, Items
  <2>. QED
    BY <2>1, <2>2
<1>9. JobsSupported'
  <2>1. \A v \in Workers : JobSupported(job[v]) /\ job[v] \in Jobs /\ job'[v] = job[v]
    BY DEF SagaInv, JobsSupported, TypeOK, ListDueTransfers
  <2>2. \A j \in Jobs : JobSupported(j) => JobSupported(j)'
    BY <1>7 DEF JobSupported, Supported, SupportKept, Jobs, Items, Updates
  <2>. QED
    BY <2>1, <2>2 DEF JobsSupported
<1>10. TypeOK'
    BY <1>2, <1>6 DEF SagaInv, TypeOK, StoreKept, StoreTypeOK, ListDueTransfers, store
<1>. QED
    BY <1>2, <1>8, <1>9, <1>10 DEF SagaStep, SagaInv, StoreKept

(* The end of every step that is not a worker's. *)
LEMMA OutsideStepKeeps ==
    ASSUME SagaInv, StoreKept, RowsMoveForward, RowsSupported', UNCHANGED local,
           published' \in [TransferIDs -> Nat], cash' \in Int, faults' \in Nat,
           receipts' \subseteq [cmd : Commands, id : TransferIDs]
    PROVE  SagaStep
<1>1. TypeOK /\ StoreTypeOK /\ QueuesSupported /\ JobsSupported
    BY StoreTyped DEF SagaInv
<1>2. SupportKept
    BY <1>1, SupportIsKept DEF StoreKept
<1>3. QueuesSupported'
    BY <1>1, <1>2, QueuesShrink DEF TypeOK, local
<1>4. JobsSupported'
  <2>1. \A j \in Jobs : JobSupported(j) => JobSupported(j)'
    BY <1>2 DEF JobSupported, Supported, SupportKept, Jobs, Items, Updates
  <2>2. \A v \in Workers : JobSupported(job[v]) /\ job[v] \in Jobs /\ job'[v] = job[v]
    BY <1>1 DEF JobsSupported, TypeOK, local
  <2>. QED
    BY <2>1, <2>2 DEF JobsSupported
<1>5. TypeOK'
    BY <1>1 DEF TypeOK, StoreKept, StoreTypeOK, local
<1>. QED
    BY <1>3, <1>4, <1>5 DEF SagaStep, SagaInv, StoreKept

LEMMA BackoffElapsesKeeps ==
    ASSUME SagaInv, NEW t \in TransferIDs, BackoffElapses(t)
    PROVE  SagaStep
<1> DEFINE row == [transfers[t] EXCEPT !.due = TRUE]
<1>1. StoreTypeOK /\ PostedAfterApproval /\ RowsSupported /\ t \in Present
    BY StoreTyped DEF SagaInv, BackoffElapses
<1>2. /\ row \in Rows /\ row.cmd = transfers[t].cmd /\ row.fee = transfers[t].fee
      /\ row.step = transfers[t].step /\ row.status = transfers[t].status
      /\ row.status = "pending" /\ row # Absent
    BY <1>1, RowType DEF Rows, Absent, BackoffElapses
<1>3. transfers' = [transfers EXCEPT ![t] = row]
    BY DEF BackoffElapses
<1>. HIDE DEF row
<1>4. UNCHANGED <<accounts, holds, decisions, ledgerPostings>>
    BY DEF BackoffElapses
<1>5. StoreKept
    BY <1>1, <1>2, <1>3, <1>4 DEF StoreKept, StoreTypeOK, EffectsKept, PostedAfterApproval
<1>6. Present' = Present /\ transfers'[t] = row /\ \A s \in Present : s # t => transfers'[s] = transfers[s]
    BY <1>1, <1>2, <1>3 DEF Present, StoreTypeOK
<1>7. \A s \in Present : transfers[s].step \in Steps
    BY <1>1, RowType DEF Rows
<1>8. RowsMoveForward
  <2>1. MovesForward(transfers[t], row)
    BY <1>1, <1>2, <1>7 DEF MovesForward, Rank, Steps
  <2>2. \A s \in Present : MovesForward(transfers[s], transfers[s]) /\ transfers[s] # Absent
    BY <1>7 DEF MovesForward, Rank, Steps, Present
  <2>. QED
    BY <1>2, <1>6, <2>1, <2>2 DEF RowsMoveForward
<1>9. \A s \in Present, step \in Steps : StepFacts(s, step) => StepFacts(s, step)'
    BY <1>4 DEF StepFacts
<1>10. RowsSupported'
    BY <1>1, <1>2, <1>6, <1>7, <1>9 DEF RowsSupported
<1>. QED
    BY <1>5, <1>8, <1>10, OutsideStepKeeps DEF BackoffElapses, SagaInv, TypeOK

LEMMA TransferKeeps ==
    ASSUME SagaInv, NEW c \in Commands, Transfer(c)
    PROVE  SagaStep
<1>1. StoreTypeOK /\ PostedAfterApproval /\ RowsSupported
    BY StoreTyped DEF SagaInv
<1>2. PICK t \in TransferIDs :
        /\ CreateTransfer(c, t)
        /\ \/ receipts' = receipts \cup {[cmd |-> c, id |-> t]} /\ UNCHANGED faults
           \/ Fault("unacked") /\ UNCHANGED receipts
    BY DEF Transfer
<1>3. faults' \in Nat /\ receipts' \subseteq [cmd : Commands, id : TransferIDs]
    BY <1>2 DEF Fault, SagaInv, TypeOK
<1>4. UNCHANGED <<accounts, holds, decisions, ledgerPostings, local, published, cash>>
    BY DEF Transfer
<1>5. CASE UNCHANGED transfers
  <2>1. StoreKept /\ RowsMoveForward /\ RowsSupported'
    BY <1>1, <1>4, <1>5, UnchangedStore, UnchangedRows DEF store, StoreKept
  <2>. QED
    BY <1>3, <1>4, <2>1, OutsideStepKeeps DEF SagaInv, TypeOK
<1>6. CASE transfers[t] = Absent /\ transfers' = [transfers EXCEPT ![t] = NewRow(c)]
  <2>1. /\ NewRow(c) \in Rows /\ NewRow(c).step = "created" /\ NewRow(c).status = "pending"
    <3>1. 0 \in 0..MaxAttempts /\ CalculateFee(c.amount) \in Nat
      BY LimitsAssumption, MoneyAssumption
    <3>. QED
      BY <3>1 DEF NewRow, Rows, Statuses, Steps, Failures
  <2>2. NewRow(c) # Absent
    BY <2>1 DEF Rows, Absent
  <2>3. StoreKept
    BY <1>1, <1>4, <1>6, <2>1 DEF StoreKept, StoreTypeOK, EffectsKept, PostedAfterApproval
  <2>4. /\ Present' = Present \cup {t} /\ t \notin Present
        /\ \A s \in Present : transfers'[s] = transfers[s] /\ transfers'[s] # Absent
        /\ transfers'[t] = NewRow(c)
    BY <1>1, <1>6, <2>2 DEF Present, StoreTypeOK
  <2>5. \A s \in Present : transfers[s].step \in Steps
    BY <1>1, RowType DEF Rows
  <2>6. RowsMoveForward
    BY <2>4, <2>5 DEF RowsMoveForward, MovesForward, Rank, Steps
  <2>7. \A s \in Present, step \in Steps : StepFacts(s, step) => StepFacts(s, step)'
    BY <1>4 DEF StepFacts
  <2>8. StepFacts(t, "created")'
    BY DEF StepFacts
  <2>9. RowsSupported'
    BY <1>1, <2>1, <2>4, <2>5, <2>7, <2>8 DEF RowsSupported
  <2>. QED
    BY <1>3, <1>4, <2>3, <2>6, <2>9, OutsideStepKeeps DEF SagaInv, TypeOK
<1>. QED
    BY <1>2, <1>5, <1>6 DEF CreateTransfer

(* Deposits, withdrawals and new accounts touch nothing of a saga. *)
LEMMA CounterKeeps ==
    ASSUME SagaInv, NEW a \in AccountIDs, NEW type \in EventTypes, NEW amount \in Nat,
           Apply(a, type, amount), cash' \in Int,
           UNCHANGED <<tables, local, published, receipts, faults>>
    PROVE  SagaStep
<1>1. StoreTypeOK /\ PostedAfterApproval /\ RowsSupported
    BY StoreTyped DEF SagaInv
<1>2. accounts' \in [AccountIDs -> Accounts]
    BY <1>1, ApplyType DEF StoreTypeOK
<1>3. StoreKept
    BY <1>1, <1>2 DEF StoreKept, StoreTypeOK, EffectsKept, PostedAfterApproval, tables
<1>4. RowsMoveForward /\ RowsSupported'
    BY <1>1, <1>3, UnchangedRows DEF StoreKept, tables
<1>. QED
    BY <1>3, <1>4, OutsideStepKeeps DEF SagaInv, TypeOK

-----------------------------------------------------------------------------
(* The theorems *)

LEMMA SagaInit == Init => SagaInv
<1> SUFFICES ASSUME Init PROVE SagaInv
    OBVIOUS
<1>1. accounts \in [AccountIDs -> Accounts]
  <2>1. NoAccount \in Accounts
    BY DEF NoAccount, Accounts
  <2>2. \A a \in DOMAIN SeedBalances : Opened(NoAccount, SeedBalances[a]) \in Accounts
    BY <2>1, FoldType, MoneyAssumption DEF Opened, EventTypes
  <2>. QED
    BY <2>1, <2>2 DEF Init
<1>2. Idle \in Jobs
    BY DEF Jobs
<1>3. TypeOK
    BY <1>1, <1>2, MoneyAssumption DEF Init, TypeOK
<1>4. Present = {}
    BY DEF Init, Present
<1>. QED
    BY <1>3, <1>4 DEF Init, SagaInv, PostedAfterApproval, RowsSupported, QueuesSupported,
                      JobsSupported, JobSupported

LEMMA SagaNext == SagaInv /\ [Next]_vars => SagaStep
<1> SUFFICES ASSUME SagaInv, [Next]_vars PROVE SagaStep
    OBVIOUS
<1>1. CASE \E c \in Commands : Transfer(c)
    BY <1>1, TransferKeeps
<1>2. ASSUME NEW w \in Workers, WorkerStep(w) \/ Crash(w) PROVE SagaStep
  <2>1. CASE ListDueTransfers(w)
    BY <2>1, ListDueTransfersKeeps
  <2>2. CASE \E it \in queue[w] : ProcessCreated(w, it)
    BY <2>2, ProcessCreatedKeeps
  <2>3. CASE \E it \in queue[w] : ProcessFundsReserved(w, it)
    BY <2>3, ProcessFundsReservedKeeps
  <2>4. CASE \E it \in queue[w] : ProcessComplianceApproved(w, it)
    BY <2>4, ProcessComplianceApprovedKeeps
  <2>5. CASE \E it \in queue[w] : ProcessLedgerPosted(w, it)
    BY <2>5, ProcessLedgerPostedKeeps
  <2>6. CASE \E it \in queue[w] : ProcessReservationCaptured(w, it)
    BY <2>6, ProcessReservationCapturedKeeps
  <2>7. CASE RejectRelease(w)
    BY <2>7, RejectReleaseKeeps
  <2>8. CASE FailRelease(w)
    BY <2>8, FailReleaseKeeps
  <2>9. CASE Advance(w)
    BY <2>9, AdvanceActionKeeps
  <2>10. CASE Publish(w)
    BY <2>10, PublishKeeps
  <2>11. CASE Crash(w)
    BY <2>11, CrashKeeps
  <2>. QED
    BY <1>2, <2>1, <2>2, <2>3, <2>4, <2>5, <2>6, <2>7, <2>8, <2>9, <2>10, <2>11
    DEF WorkerStep, Process
<1>3. CASE \E t \in TransferIDs : BackoffElapses(t)
    BY <1>3, BackoffElapsesKeeps
<1>4. ASSUME NEW a \in AccountIDs, NEW m \in CashAmounts, Deposit(a, m) \/ Withdraw(a, m)
      PROVE  SagaStep
  <2>1. m \in Nat /\ cash \in Int /\ {"MoneyCredited", "MoneyDebited"} \subseteq EventTypes
    BY MoneyAssumption DEF SagaInv, TypeOK, EventTypes
  <2>. QED
    BY <1>4, <2>1, CounterKeeps DEF Deposit, Withdraw
<1>5. ASSUME NEW a \in AccountIDs, OpenAccount(a) PROVE SagaStep
  <2>1. OpeningDeposit \in Nat /\ cash \in Int /\ "AccountOpened" \in EventTypes
    BY MoneyAssumption DEF SagaInv, TypeOK, EventTypes
  <2>. QED
    BY <1>5, <2>1, CounterKeeps DEF OpenAccount
<1>6. CASE UNCHANGED vars
  <2>1. StoreTypeOK /\ PostedAfterApproval /\ RowsSupported
    BY StoreTyped DEF SagaInv
  <2>2. StoreKept /\ RowsMoveForward /\ RowsSupported'
    BY <1>6, <2>1, UnchangedStore, UnchangedRows DEF vars, store, StoreKept
  <2>. QED
    BY <1>6, <2>2, OutsideStepKeeps DEF vars, local, SagaInv, TypeOK
<1>. QED
    BY <1>1, <1>2, <1>3, <1>4, <1>5, <1>6 DEF Next

(* The inductive invariant holds in every reachable state. *)
THEOREM SagaInvariant == Spec => []SagaInv
<1>1. SagaInv /\ [Next]_vars => SagaInv'
    BY SagaNext DEF SagaStep
<1>. QED
    BY <1>1, SagaInit, PTL DEF Spec

(* Every variable keeps its type: no worker ever carries an item of a      *)
(* transfer that does not exist, no attempt counter passes its bound.      *)
THEOREM TypeCorrect == Spec => []TypeOK
<1>1. SagaInv => TypeOK
    BY DEF SagaInv
<1>. QED
    BY <1>1, SagaInvariant, PTL

(* The row's step never runs ahead of the effects it stands for, whatever  *)
(* fails and however many workers run.                                     *)
THEOREM StepsReflectEffects == Spec => []StepReflectsEffects
<1>1. SagaInv => StepReflectsEffects
    BY DEF SagaInv, RowsSupported, StepReflectsEffects
<1>. QED
    BY <1>1, SagaInvariant, PTL

(* A transfer reported completed was approved, posted and its hold         *)
(* captured.                                                               *)
THEOREM CompletedIsSettled == Spec => []CompletedMeansSettled
<1>1. SagaInv => CompletedMeansSettled
    BY DEF SagaInv, RowsSupported, StepFacts, CompletedMeansSettled
<1>. QED
    BY <1>1, SagaInvariant, PTL

(* Nothing is posted without a recorded approval, nothing captured before  *)
(* it was posted.                                                          *)
THEOREM PostingNeedsApproval == Spec => []PostedAfterApproval
<1>1. SagaInv => PostedAfterApproval
    BY DEF SagaInv
<1>. QED
    BY <1>1, SagaInvariant, PTL

(* Rows only move forward, one step at a time, and terminal rows are       *)
(* frozen.                                                                 *)
THEOREM RowsOnlyMoveForward == Spec => SagaMovesForward
<1>1. SagaInv /\ [Next]_vars => [RowsMoveForward]_vars
    BY SagaNext DEF SagaStep
<1>. QED
    BY <1>1, SagaInvariant, PTL DEF Spec, SagaMovesForward

(* Holds, decisions and postings are final. *)
THEOREM EffectsStay == Spec => EffectsAreFinal
<1>1. SagaInv /\ [Next]_vars => [EffectsKept]_vars
    BY SagaNext DEF SagaStep
<1>. QED
    BY <1>1, SagaInvariant, PTL DEF Spec, EffectsAreFinal

-----------------------------------------------------------------------------
(* Clients: the rows their requests make, and their receipts *)

(* The step accepts command c as transfer t. *)
Accepts(c, t) ==
    /\ Transfer(c) /\ ValidCommand(c) /\ SameKey(c) = {}
    /\ transfers' = [transfers EXCEPT ![t] = NewRow(c)]
    /\ transfers'[t].cmd = c

(* Only an accepted command makes a row. *)
LEMMA RowsAppear ==
    ASSUME SagaInv, [Next]_vars, NEW t \in Present', t \notin Present
    PROVE  \E c \in Commands : Accepts(c, t)
<1>1. TypeOK /\ t \in TransferIDs /\ transfers[t] = Absent /\ transfers'[t] # Absent
    BY DEF SagaInv, Present
<1>2. transfers \in [TransferIDs -> Rows \cup {Absent}]
    BY <1>1 DEF TypeOK
<1>3. ASSUME NEW u \in TransferIDs, NEW expected, NEW upd, NEW res,
             CallUpdate(u, expected, upd, res)
      PROVE  FALSE
  <2>1. /\ transfers[u].status = "pending"
        /\ transfers' = [transfers EXCEPT ![u] = Written(transfers[u], upd)]
    BY <1>1, <1>3 DEF CallUpdate, StoreCall, UpdateTransferSaga, Current, store
  <2>2. u # t
    BY <1>1, <2>1 DEF Absent
  <2>. QED
    BY <1>1, <1>2, <2>1, <2>2
<1>4. \A w \in Workers : \A it \in queue[w] : it.id \in TransferIDs
    BY <1>1 DEF TypeOK, Items
<1>5. transfers' # transfers
    BY <1>1
<1>6. ASSUME NEW w \in Workers, WorkerStep(w) \/ Crash(w) PROVE FALSE
  <2>1. ASSUME NEW it \in queue[w], ProcessReservationCaptured(w, it) PROVE FALSE
    BY <1>3, <1>4, <2>1 DEF ProcessReservationCaptured
  <2>2. ASSUME Advance(w) PROVE FALSE
    <3>1. job[w].item.id \in TransferIDs
      BY <2>2, JobCarries DEF Advance, Present
    <3>. QED
      BY <1>3, <2>2, <3>1 DEF Advance
  <2>3. ASSUME NEW it \in queue[w],
               \/ ProcessCreated(w, it) \/ ProcessFundsReserved(w, it)
               \/ ProcessComplianceApproved(w, it) \/ ProcessLedgerPosted(w, it)
        PROVE  FALSE
    <3>1. CASE ProcessCreated(w, it)
      BY <1>5, <3>1 DEF ProcessCreated, CallReserve, StoreCall, ReserveTransferFunds, store
    <3>2. CASE ProcessFundsReserved(w, it)
      BY <1>5, <3>2 DEF ProcessFundsReserved, CallRecord, StoreCall, RecordComplianceDecision, store
    <3>3. CASE ProcessComplianceApproved(w, it)
      BY <1>5, <3>3 DEF ProcessComplianceApproved, CallPost, StoreCall, PostTransferLedger, store
    <3>4. CASE ProcessLedgerPosted(w, it)
      BY <1>5, <3>4 DEF ProcessLedgerPosted, CallFinish, StoreCall, FinishReservation, store
    <3>. QED
      BY <2>3, <3>1, <3>2, <3>3, <3>4
  <2>4. ASSUME ListDueTransfers(w) \/ Publish(w) \/ Crash(w) PROVE FALSE
    BY <1>5, <2>4 DEF ListDueTransfers, Publish, Crash, store
  <2>5. ASSUME RejectRelease(w) \/ FailRelease(w) PROVE FALSE
    BY <1>5, <2>5 DEF RejectRelease, FailRelease, CallFinish, StoreCall, FinishReservation, store
  <2>. QED
    BY <1>6, <2>1, <2>2, <2>3, <2>4, <2>5 DEF WorkerStep, Process
<1>7. ASSUME NEW u \in TransferIDs, BackoffElapses(u) PROVE FALSE
    BY <1>1, <1>2, <1>7 DEF BackoffElapses, Present
<1>8. ASSUME NEW c \in Commands, Transfer(c) PROVE Accepts(c, t)
  <2>1. PICK u \in TransferIDs : CreateTransfer(c, u)
    BY <1>8 DEF Transfer
  <2>2. SameKey(c) = {} /\ transfers' = [transfers EXCEPT ![u] = NewRow(c)]
    BY <1>5, <2>1 DEF CreateTransfer
  <2>3. u = t
    BY <1>1, <1>2, <2>2
  <2>4. transfers'[t].cmd = c
    BY <1>2, <2>2, <2>3 DEF NewRow
  <2>. QED
    BY <1>8, <2>2, <2>3, <2>4 DEF Transfer, Accepts
<1>9. CASE \E a \in AccountIDs, m \in CashAmounts : Deposit(a, m) \/ Withdraw(a, m)
    BY <1>5, <1>9 DEF Deposit, Withdraw, tables
<1>10. CASE \E a \in AccountIDs : OpenAccount(a)
    BY <1>5, <1>10 DEF OpenAccount, tables
<1>11. CASE UNCHANGED vars
    BY <1>5, <1>11 DEF vars
<1>. QED
    BY <1>6, <1>7, <1>8, <1>9, <1>10, <1>11 DEF Next

(* Only a client's request gives a receipt. *)
LEMMA ReceiptsAppear ==
    ASSUME [Next]_vars
    PROVE  receipts' = receipts \/ \E c \in Commands : Transfer(c)
<1>1. CASE \E w \in Workers : WorkerStep(w) \/ Crash(w)
    BY <1>1 DEF WorkerStep, Process, ListDueTransfers, ProcessCreated, ProcessFundsReserved,
                ProcessComplianceApproved, ProcessLedgerPosted, ProcessReservationCaptured,
                RejectRelease, FailRelease, Advance, Publish, Crash
<1>2. CASE \E t \in TransferIDs : BackoffElapses(t)
    BY <1>2 DEF BackoffElapses
<1>3. CASE \E a \in AccountIDs, m \in CashAmounts : Deposit(a, m) \/ Withdraw(a, m)
    BY <1>3 DEF Deposit, Withdraw
<1>4. CASE \E a \in AccountIDs : OpenAccount(a)
    BY <1>4 DEF OpenAccount
<1>. QED
    BY <1>1, <1>2, <1>3, <1>4 DEF Next, vars

LEMMA ReceiptsKept == SagaInv /\ ReceiptsHonoured /\ [Next]_vars => ReceiptsHonoured'
<1>1. SUFFICES ASSUME SagaInv, ReceiptsHonoured, [Next]_vars PROVE ReceiptsHonoured'
    OBVIOUS
<1>2. RowsMoveForward /\ TypeOK /\ TypeOK'
    BY <1>1, SagaNext DEF SagaStep, SagaInv
<1>3. \A t \in Present : t \in Present' /\ transfers'[t].cmd = transfers[t].cmd
    BY <1>2 DEF RowsMoveForward, MovesForward, Present
<1>4. ASSUME NEW r \in receipts'
      PROVE  r.id \in Present' /\ transfers'[r.id].cmd = r.cmd
  <2>1. CASE r \in receipts
    BY <1>1, <1>3, <2>1 DEF ReceiptsHonoured
  <2>2. CASE r \notin receipts
    <3>1. PICK c \in Commands : Transfer(c)
      BY <1>1, <1>4, <2>2, ReceiptsAppear
    <3>2. PICK t \in TransferIDs : CreateTransfer(c, t) /\ r = [cmd |-> c, id |-> t]
      BY <1>4, <2>2, <3>1 DEF Transfer
    <3>3. CASE transfers[t] = Absent /\ transfers' = [transfers EXCEPT ![t] = NewRow(c)]
      <4>1. transfers'[t] = NewRow(c)
        BY <1>2, <3>3 DEF TypeOK
      <4>2. NewRow(c) # Absent /\ NewRow(c).cmd = c
        BY DEF NewRow, Absent
      <4>3. r.id = t /\ r.cmd = c
        BY <3>2
      <4>. QED
        BY <4>1, <4>2, <4>3 DEF Present
    <3>4. CASE t \in SameKey(c) /\ SameDetails(t, c) /\ UNCHANGED transfers
      <4>1. t \in Present /\ transfers[t].cmd \in Commands
        BY <1>2, <3>4 DEF SameKey, Present, TypeOK, Rows
      <4>2. transfers[t].cmd = c
        <5>1. /\ transfers[t].cmd.src = c.src /\ transfers[t].cmd.key = c.key
              /\ transfers[t].cmd.amount = c.amount /\ transfers[t].cmd.dst = c.dst
          BY <3>4 DEF SameKey, SameDetails
        <5>2. \A x, y \in [src : AccountIDs, dst : AccountIDs, key : STRING, amount : Nat] :
                x.src = y.src /\ x.dst = y.dst /\ x.key = y.key /\ x.amount = y.amount => x = y
          OBVIOUS
        <5>. QED
          BY <4>1, <5>1, <5>2, CommandsAssumption
      <4>. QED
        BY <1>3, <3>2, <4>1, <4>2
    <3>. QED
      BY <3>2, <3>3, <3>4 DEF CreateTransfer
  <2>. QED
    BY <2>1, <2>2
<1>5. ASSUME NEW t \in Present', NEW u \in Present', t \notin Present,
             transfers'[t].cmd.src = transfers'[u].cmd.src,
             transfers'[t].cmd.key = transfers'[u].cmd.key
      PROVE  t = u
  <2>1. PICK c \in Commands : Accepts(c, t)
    BY <1>1, <1>5, RowsAppear
  <2>2. CASE u \in Present
    <3>1. u \in SameKey(c)
      BY <1>3, <1>5, <2>1, <2>2 DEF Accepts, SameKey
    <3>. QED
      BY <2>1, <3>1 DEF Accepts
  <2>3. CASE u \notin Present
    BY <1>2, <1>5, <2>1, <2>3 DEF Accepts, Present, TypeOK
  <2>. QED
    BY <2>2, <2>3
<1>6. ASSUME NEW t \in Present', NEW u \in Present',
             transfers'[t].cmd.src = transfers'[u].cmd.src,
             transfers'[t].cmd.key = transfers'[u].cmd.key
      PROVE  t = u
  <2>1. CASE t \in Present /\ u \in Present
    BY <1>1, <1>3, <1>6, <2>1 DEF ReceiptsHonoured
  <2>. QED
    BY <1>5, <1>6, <2>1
<1>. QED
    BY <1>4, <1>6 DEF ReceiptsHonoured

(* A receipt names a transfer with the details the client sent, and a      *)
(* customer's key names one transfer, however often CreateTransfer is      *)
(* asked and however many answers are lost.                                *)
THEOREM ReceiptsAreHonoured == Spec => []ReceiptsHonoured
<1>1. Init => ReceiptsHonoured
    BY DEF Init, ReceiptsHonoured, Present
<1>. QED
    BY <1>1, ReceiptsKept, SagaInvariant, PTL DEF Spec

-----------------------------------------------------------------------------
(* The announcement of a completed transfer *)

Publishing(w) == job[w].pc = "publish"

(* Why a transfer is announced once: a worker that is about to announce it *)
(* is alone, and the transfer is completed and was not announced.          *)
PublishInv ==
    /\ PublishedOnce
    /\ \A w \in Workers : Publishing(w) =>
          /\ transfers[job[w].item.id].status = "completed"
          /\ published[job[w].item.id] = 0
    /\ \A v, w \in Workers :
          Publishing(v) /\ Publishing(w) /\ job[v].item.id = job[w].item.id => v = w

(* A step of worker w that completes its transfer, and knows it. *)
Completes(w, it) ==
    /\ it \in Items
    /\ transfers[it.id].status = "pending" /\ transfers'[it.id].status = "completed"
    /\ job' = [job EXCEPT ![w] = [pc |-> "publish", item |-> it]]
    /\ UNCHANGED published

(* A step that neither announces nor is about to. *)
Silent ==
    /\ UNCHANGED published
    /\ \A w \in Workers : Publishing(w)' => job'[w] = job[w]

LEMMA PlansAreSilent ==
    ASSUME TypeOK, NEW w \in Workers, NEW j, j.pc # "publish", Goto(w, j), UNCHANGED published
    PROVE  Silent
BY DEF Silent, Publishing, Goto, TypeOK

LEMMA ErrorsAreSilent ==
    ASSUME NEW it, NEW err, NEW reserved, NEW afterLedger
    PROVE  /\ Retry(it, afterLedger).pc # "publish"
           /\ HandleStepError(it, err, reserved).pc # "publish"
BY DEF Retry, HandleStepError, Update, Release

LEMMA StepsOfPublishing ==
    ASSUME SagaInv, [Next]_vars
    PROVE  \/ Silent
           \/ \E w \in Workers : Publish(w)
           \/ \E w \in Workers : \E it : Completes(w, it)
<1>1. TypeOK
    BY DEF SagaInv
<1>2. CASE UNCHANGED <<job, published>>
    BY <1>2 DEF Silent
<1>3. ASSUME NEW w \in Workers, NEW it \in queue[w], ProcessCreated(w, it) PROVE Silent
  <2>1. PICK res : Goto(w, AfterReserve(it, res))
    BY <1>3 DEF ProcessCreated
  <2>2. AfterReserve(it, res).pc # "publish"
    BY ErrorsAreSilent DEF AfterReserve, Update
  <2>. QED
    BY <1>1, <1>3, <2>1, <2>2, PlansAreSilent DEF ProcessCreated
<1>4. ASSUME NEW w \in Workers, NEW it \in queue[w], ProcessFundsReserved(w, it) PROVE Silent
  <2>1. \E j : Goto(w, j) /\ j.pc # "publish"
    <3>1. CASE Goto(w, HandleStepError(it, "unavailable", TRUE))
      BY <3>1, ErrorsAreSilent
    <3>2. ASSUME NEW verdict, NEW res, Goto(w, AfterDecision(it, verdict, res))
          PROVE  \E j : Goto(w, j) /\ j.pc # "publish"
      <4>1. AfterDecision(it, verdict, res).pc # "publish"
        BY ErrorsAreSilent DEF AfterDecision, Update
      <4>. QED
        BY <3>2, <4>1
    <3>. QED
      BY <1>4, <3>1, <3>2 DEF ProcessFundsReserved
  <2>. QED
    BY <1>1, <1>4, <2>1, PlansAreSilent DEF ProcessFundsReserved
<1>5. ASSUME NEW w \in Workers, NEW it \in queue[w], ProcessComplianceApproved(w, it) PROVE Silent
  <2>1. PICK res : Goto(w, AfterPost(it, res))
    BY <1>5 DEF ProcessComplianceApproved
  <2>2. AfterPost(it, res).pc # "publish"
    BY ErrorsAreSilent DEF AfterPost, Update
  <2>. QED
    BY <1>1, <1>5, <2>1, <2>2, PlansAreSilent DEF ProcessComplianceApproved
<1>6. ASSUME NEW w \in Workers, NEW it \in queue[w], ProcessLedgerPosted(w, it) PROVE Silent
  <2>1. PICK res : Goto(w, AfterCapture(it, res))
    BY <1>6 DEF ProcessLedgerPosted
  <2>2. AfterCapture(it, res).pc # "publish"
    BY ErrorsAreSilent DEF AfterCapture, Update
  <2>. QED
    BY <1>1, <1>6, <2>1, <2>2, PlansAreSilent DEF ProcessLedgerPosted
<1>7. ASSUME NEW w \in Workers, NEW it \in queue[w], ProcessReservationCaptured(w, it)
      PROVE  Silent \/ Completes(w, it)
  <2>1. PICK res : CallUpdate(it.id, it.step, Completed(it), res) /\ Goto(w, AfterComplete(it, res))
    BY <1>7 DEF ProcessReservationCaptured
  <2>2. UNCHANGED published
    BY <1>7 DEF ProcessReservationCaptured
  <2>3. CASE res = "nil"
    <3>1. UpdateTransferSaga(it.id, it.step, Completed(it), "nil")
      BY <2>1, <2>3 DEF CallUpdate, StoreCall
    <3>2. /\ transfers[it.id].status = "pending"
          /\ transfers' = [transfers EXCEPT ![it.id] = Written(transfers[it.id], Completed(it))]
      BY <3>1 DEF UpdateTransferSaga, Current
    <3>3. it \in Items /\ it.id \in TransferIDs
      BY <1>1 DEF TypeOK, Items
    <3>4. transfers'[it.id].status = "completed"
      BY <1>1, <3>2, <3>3 DEF TypeOK, Written, Completed
    <3>5. job' = [job EXCEPT ![w] = [pc |-> "publish", item |-> it]]
      BY <2>1, <2>3 DEF AfterComplete, Goto
    <3>. QED
      BY <2>2, <3>2, <3>3, <3>4, <3>5 DEF Completes
  <2>4. CASE res # "nil"
    <3>1. Goto(w, Idle) /\ Idle.pc # "publish"
      BY <2>1, <2>4 DEF AfterComplete, Idle
    <3>. QED
      BY <1>1, <2>2, <3>1, PlansAreSilent
  <2>. QED
    BY <2>3, <2>4
<1>8. ASSUME NEW w \in Workers, RejectRelease(w) PROVE Silent
  <2>1. PICK res : Goto(w, AfterReject(job[w].item, job[w].upd, res))
    BY <1>8 DEF RejectRelease
  <2>2. AfterReject(job[w].item, job[w].upd, res).pc # "publish"
    BY ErrorsAreSilent DEF AfterReject, Update
  <2>. QED
    BY <1>1, <1>8, <2>1, <2>2, PlansAreSilent DEF RejectRelease
<1>9. ASSUME NEW w \in Workers, FailRelease(w) PROVE Silent
  <2>1. Update(job[w].item, job[w].upd).pc # "publish"
    BY DEF Update
  <2>. QED
    BY <1>1, <1>9, <2>1, PlansAreSilent DEF FailRelease
<1>10. ASSUME NEW w \in Workers, Advance(w) \/ Crash(w) PROVE Silent
  <2>1. Idle.pc # "publish"
    BY DEF Idle
  <2>. QED
    BY <1>1, <1>10, <2>1, PlansAreSilent DEF Advance, Crash
<1>11. ASSUME NEW w \in Workers, ListDueTransfers(w) PROVE Silent
    BY <1>11 DEF ListDueTransfers, Silent
<1>12. CASE \E c \in Commands : Transfer(c)
    BY <1>12 DEF Transfer, Silent, local
<1>13. CASE \E t \in TransferIDs : BackoffElapses(t)
    BY <1>13 DEF BackoffElapses, Silent, local
<1>14. CASE \E a \in AccountIDs, m \in CashAmounts : Deposit(a, m) \/ Withdraw(a, m)
    BY <1>14 DEF Deposit, Withdraw, Silent, local
<1>15. CASE \E a \in AccountIDs : OpenAccount(a)
    BY <1>15 DEF OpenAccount, Silent, local
<1>. QED
  <2>1. ASSUME NEW w \in Workers, WorkerStep(w)
        PROVE  Silent \/ Publish(w) \/ \E it : Completes(w, it)
    BY <2>1, <1>3, <1>4, <1>5, <1>6, <1>7, <1>8, <1>9, <1>10, <1>11 DEF WorkerStep, Process
  <2>. QED
    BY <1>2, <1>10, <1>12, <1>13, <1>14, <1>15, <2>1 DEF Next, vars

LEMMA PublishKept == SagaInv /\ PublishInv /\ [Next]_vars => PublishInv'
<1>1. SUFFICES ASSUME SagaInv, PublishInv, [Next]_vars PROVE PublishInv'
    OBVIOUS
<1>2. /\ RowsMoveForward /\ transfers \in [TransferIDs -> Rows \cup {Absent}]
      /\ published \in [TransferIDs -> Nat] /\ job \in [Workers -> Jobs]
      /\ job' \in [Workers -> Jobs]
    BY <1>1, SagaNext DEF SagaStep, SagaInv, TypeOK
<1>3. ASSUME NEW t \in TransferIDs, transfers[t].status = "completed"
      PROVE  transfers'[t].status = "completed"
    BY <1>2, <1>3 DEF RowsMoveForward, MovesForward, Present, Absent
<1>4. ASSUME NEW w \in Workers, Publishing(w) PROVE job[w].item.id \in TransferIDs
  <2>1. job[w] \in Jobs /\ job[w].pc = "publish"
    BY <1>2, <1>4 DEF Publishing
  <2>2. job[w].item \in Items
    BY <2>1 DEF Jobs, Idle
  <2>. QED
    BY <2>2 DEF Items
<1>5. CASE Silent
  <2>1. \A w \in Workers : Publishing(w)' => Publishing(w) /\ job'[w] = job[w]
    BY <1>5 DEF Silent, Publishing
  <2>2. PublishedOnce'
    BY <1>1, <1>2, <1>3, <1>5 DEF Silent, PublishInv, PublishedOnce
  <2>3. ASSUME NEW w \in Workers, Publishing(w)'
        PROVE  transfers'[job'[w].item.id].status = "completed" /\ published'[job'[w].item.id] = 0
    BY <1>1, <1>3, <1>4, <1>5, <2>1, <2>3 DEF Silent, PublishInv
  <2>4. ASSUME NEW v \in Workers, NEW w \in Workers, Publishing(v)', Publishing(w)',
               job'[v].item.id = job'[w].item.id
        PROVE  v = w
    BY <1>1, <2>1, <2>4 DEF PublishInv
  <2>. QED
    BY <2>2, <2>3, <2>4 DEF PublishInv
<1>6. ASSUME NEW w \in Workers, Publish(w) PROVE PublishInv'
  <2> DEFINE t == job[w].item.id
  <2>1. /\ Publishing(w) /\ t \in TransferIDs
        /\ transfers[t].status = "completed" /\ published[t] = 0
    BY <1>1, <1>4, <1>6 DEF Publish, Publishing, PublishInv
  <2>2. published' = [published EXCEPT ![t] = 1] /\ UNCHANGED transfers
    BY <1>2, <1>6, <2>1 DEF Publish, store
  <2>3. PublishedOnce'
    BY <1>1, <1>2, <2>1, <2>2 DEF PublishInv, PublishedOnce
  <2>4. \A v \in Workers : Publishing(v)' => v # w /\ job'[v] = job[v] /\ Publishing(v)
    BY <1>2, <1>6 DEF Publish, Goto, Publishing, Idle
  <2>5. ASSUME NEW v \in Workers, Publishing(v)'
        PROVE  transfers'[job'[v].item.id].status = "completed" /\ published'[job'[v].item.id] = 0
    <3>1. job[v].item.id # t /\ job[v].item.id \in TransferIDs
      BY <1>1, <1>4, <2>1, <2>4, <2>5 DEF PublishInv
    <3>. QED
      BY <1>1, <1>2, <2>2, <2>4, <2>5, <3>1 DEF PublishInv
  <2>6. ASSUME NEW u \in Workers, NEW v \in Workers, Publishing(u)', Publishing(v)',
               job'[u].item.id = job'[v].item.id
        PROVE  u = v
    BY <1>1, <2>4, <2>6 DEF PublishInv
  <2>. QED
    BY <2>3, <2>5, <2>6 DEF PublishInv
<1>7. ASSUME NEW w \in Workers, NEW it, Completes(w, it) PROVE PublishInv'
  <2>1. /\ it.id \in TransferIDs /\ transfers[it.id].status # "completed"
        /\ transfers'[it.id].status = "completed" /\ UNCHANGED published
        /\ job'[w] = [pc |-> "publish", item |-> it]
        /\ \A v \in Workers : v # w => job'[v] = job[v]
    BY <1>2, <1>7 DEF Completes, Items
  <2>2. published[it.id] = 0
    BY <1>1, <1>2, <2>1 DEF PublishInv, PublishedOnce
  <2>3. PublishedOnce'
    BY <1>1, <1>2, <1>3, <2>1 DEF PublishInv, PublishedOnce
  <2>4. \A v \in Workers : v # w /\ Publishing(v)' =>
            /\ Publishing(v) /\ job'[v] = job[v]
            /\ job[v].item.id # it.id
    BY <1>1, <2>1 DEF PublishInv, Publishing
  <2>5. ASSUME NEW v \in Workers, Publishing(v)'
        PROVE  transfers'[job'[v].item.id].status = "completed" /\ published'[job'[v].item.id] = 0
    <3>1. CASE v = w
      BY <2>1, <2>2, <3>1
    <3>2. CASE v # w
      BY <1>1, <1>3, <1>4, <2>1, <2>4, <2>5, <3>2 DEF PublishInv
    <3>. QED
      BY <3>1, <3>2
  <2>6. job'[w].item.id = it.id
    BY <2>1
  <2>7. ASSUME NEW u \in Workers, NEW v \in Workers, Publishing(u)', Publishing(v)',
               job'[u].item.id = job'[v].item.id
        PROVE  u = v
    BY <1>1, <2>4, <2>6, <2>7 DEF PublishInv
  <2>. QED
    BY <2>3, <2>5, <2>7 DEF PublishInv
<1>. QED
    BY <1>1, <1>5, <1>6, <1>7, StepsOfPublishing

(* TransferCompleted is published at most once per transfer, and only of   *)
(* completed ones: the compare-and-set of UpdateTransferSaga succeeds for  *)
(* one worker only, and only that worker publishes.                        *)
THEOREM AnnouncedOnce == Spec => []PublishedOnce
<1>1. Init => PublishInv
    BY DEF Init, PublishInv, PublishedOnce, Publishing, Idle
<1>2. PublishInv => PublishedOnce
    BY DEF PublishInv
<1>. QED
    BY <1>1, <1>2, PublishKept, SagaInvariant, PTL DEF Spec

-----------------------------------------------------------------------------
(* What a step does to the money *)

(* Every account is as it was, but for balance and holds of account x. *)
Adjusted(x, balance, reserved) ==
    \A a \in AccountIDs :
        /\ accounts'[a].opened = accounts[a].opened
        /\ accounts'[a].balance = accounts[a].balance + (IF a = x THEN balance ELSE 0)
        /\ accounts'[a].reserved = accounts[a].reserved + (IF a = x THEN reserved ELSE 0)

Quiet == UNCHANGED <<accounts, holds, ledgerPostings, cash>>

(* A deposit, or a withdrawal of available money. *)
AtCounter(a, m) ==
    /\ m \in CashAmounts \/ -m \in CashAmounts
    /\ accounts[a].opened
    /\ AvailableBalance(accounts[a]) + m >= 0 \/ m >= 0
    /\ Adjusted(a, m, 0)
    /\ cash' = cash - m
    /\ UNCHANGED <<transfers, holds, ledgerPostings>>

Opening(a) ==
    /\ ~accounts[a].opened /\ accounts'[a].opened
    /\ accounts'[a].balance = OpeningDeposit
    /\ accounts'[a].reserved = accounts[a].reserved
    /\ \A b \in AccountIDs : b # a => accounts'[b] = accounts[b]
    /\ cash' = cash - OpeningDeposit
    /\ UNCHANGED <<transfers, holds, ledgerPostings>>

Source(t) == transfers[t].cmd.src
Target(t) == transfers[t].cmd.dst

Reserving(t) ==
    /\ holds[t] = "none"
    /\ AvailableBalance(accounts[Source(t)]) >= Total(t)
    /\ Adjusted(Source(t), 0, Total(t))
    /\ holds' = [holds EXCEPT ![t] = "reserved"]
    /\ UNCHANGED <<transfers, ledgerPostings, cash>>

Closing(t, state) ==
    /\ holds[t] = "reserved"
    /\ Adjusted(Source(t), 0, -Total(t))
    /\ holds' = [holds EXCEPT ![t] = state]
    /\ UNCHANGED <<transfers, ledgerPostings, cash>>

Posting(t) ==
    /\ t \notin ledgerPostings /\ holds[t] # "none"
    /\ \A a \in AccountIDs :
        /\ accounts'[a].opened = accounts[a].opened
        /\ accounts'[a].reserved = accounts[a].reserved
        /\ a = Source(t) => accounts[a].opened /\ accounts'[a].balance = accounts[a].balance - Total(t)
        /\ a = Target(t) => accounts[a].opened /\ accounts'[a].balance = accounts[a].balance + transfers[t].cmd.amount
        /\ a \notin {Source(t), Target(t)} => accounts'[a].balance = accounts[a].balance
    /\ ledgerPostings' = ledgerPostings \cup {t}
    /\ UNCHANGED <<transfers, holds, cash>>

MoneyStep ==
    \/ Quiet
    \/ \E a \in AccountIDs : Opening(a) \/ \E m \in Int : AtCounter(a, m)
    \/ \E t \in Present : Reserving(t) \/ Posting(t)
    \/ \E t \in Present : Closing(t, "captured") \/ Closing(t, "released")

(* No transfer is from an account to itself, and no hold is without a row. *)
RowsSound ==
    /\ \A t \in Present : Source(t) # Target(t)
    /\ \A t \in TransferIDs : holds[t] # "none" => t \in Present

(* What the fold does to each field of an account. *)
LEMMA FoldFields ==
    ASSUME NEW a \in Accounts, NEW m \in Nat
    PROVE  /\ Fold(a, [type |-> "MoneyCredited", amount |-> m])
                = [opened |-> a.opened, balance |-> a.balance + m, reserved |-> a.reserved]
           /\ Fold(a, [type |-> "MoneyDebited", amount |-> m])
                = [opened |-> a.opened, balance |-> a.balance - m, reserved |-> a.reserved]
           /\ Fold(a, [type |-> "FundsReserved", amount |-> m])
                = [opened |-> a.opened, balance |-> a.balance, reserved |-> a.reserved + m]
           /\ Fold(a, [type |-> "ReservationCaptured", amount |-> m])
                = [opened |-> a.opened, balance |-> a.balance, reserved |-> a.reserved - m]
           /\ Fold(a, [type |-> "ReservationReleased", amount |-> m])
                = [opened |-> a.opened, balance |-> a.balance, reserved |-> a.reserved - m]
           /\ Fold(a, [type |-> "AccountOpened", amount |-> m])
                = [opened |-> TRUE, balance |-> m, reserved |-> a.reserved]
BY DEF Fold, Accounts

LEMMA FoldAdjusts ==
    ASSUME TypeOK, NEW x \in AccountIDs, NEW type, NEW m, Apply(x, type, m),
           NEW balance \in Int, NEW reserved \in Int,
           Fold(accounts[x], [type |-> type, amount |-> m]) =
              [opened |-> accounts[x].opened, balance |-> accounts[x].balance + balance,
               reserved |-> accounts[x].reserved + reserved]
    PROVE  Adjusted(x, balance, reserved)
<1>1. accounts \in [AccountIDs -> Accounts]
    BY DEF TypeOK
<1>2. \A a \in AccountIDs : accounts[a].balance \in Int /\ accounts[a].reserved \in Int
    BY <1>1 DEF Accounts
<1>3. /\ accounts'[x] = [opened |-> accounts[x].opened, balance |-> accounts[x].balance + balance,
                         reserved |-> accounts[x].reserved + reserved]
      /\ \A a \in AccountIDs : a # x => accounts'[a] = accounts[a]
    BY <1>1 DEF Apply
<1>. QED
    BY <1>2, <1>3 DEF Adjusted

LEMMA ApplyAdjusts ==
    ASSUME TypeOK, NEW x \in AccountIDs, NEW m \in Nat
    PROVE  /\ Apply(x, "MoneyCredited", m) => Adjusted(x, m, 0)
           /\ Apply(x, "MoneyDebited", m) => Adjusted(x, -m, 0)
           /\ Apply(x, "FundsReserved", m) => Adjusted(x, 0, m)
           /\ Apply(x, "ReservationCaptured", m) => Adjusted(x, 0, -m)
           /\ Apply(x, "ReservationReleased", m) => Adjusted(x, 0, -m)
<1> DEFINE b == accounts[x].balance
           r == accounts[x].reserved
           o == accounts[x].opened
<1>1. accounts[x] \in Accounts /\ b \in Int /\ r \in Int
    BY DEF TypeOK, Accounts
<1>2. b - m = b + (-m) /\ r - m = r + (-m) /\ b = b + 0 /\ r = r + 0 /\ -m \in Int
    BY <1>1
<1>3. /\ Fold(accounts[x], [type |-> "MoneyCredited", amount |-> m])
            = [opened |-> o, balance |-> b + m, reserved |-> r + 0]
      /\ Fold(accounts[x], [type |-> "MoneyDebited", amount |-> m])
            = [opened |-> o, balance |-> b + (-m), reserved |-> r + 0]
      /\ Fold(accounts[x], [type |-> "FundsReserved", amount |-> m])
            = [opened |-> o, balance |-> b + 0, reserved |-> r + m]
      /\ Fold(accounts[x], [type |-> "ReservationCaptured", amount |-> m])
            = [opened |-> o, balance |-> b + 0, reserved |-> r + (-m)]
      /\ Fold(accounts[x], [type |-> "ReservationReleased", amount |-> m])
            = [opened |-> o, balance |-> b + 0, reserved |-> r + (-m)]
    BY <1>1, <1>2, FoldFields
<1>. QED
    BY <1>2, <1>3, FoldAdjusts

(* The row of a transfer that exists. *)
LEMMA RowFacts ==
    ASSUME TypeOK, NEW t \in Present
    PROVE  /\ t \in TransferIDs
           /\ Source(t) \in AccountIDs /\ Target(t) \in AccountIDs
           /\ transfers[t].cmd.amount \in Nat /\ transfers[t].fee \in Nat
           /\ Total(t) \in Nat
<1>1. t \in TransferIDs /\ transfers[t] \in Rows
    BY DEF TypeOK, Present
<1>2. transfers[t].cmd \in Commands /\ transfers[t].fee \in Nat
    BY <1>1 DEF Rows
<1>3. transfers[t].cmd \in [src : AccountIDs, dst : AccountIDs, key : STRING, amount : Nat]
    BY <1>2, CommandsAssumption
<1>. QED
    BY <1>1, <1>2, <1>3 DEF Source, Target, Total

LEMMA ReserveMoney ==
    ASSUME TypeOK, NEW t \in Present, NEW res, CallReserve(t, res), UNCHANGED cash
    PROVE  MoneyStep
<1>1. CASE UNCHANGED store
    BY <1>1 DEF store, MoneyStep, Quiet
<1>2. ASSUME NEW r, ReserveTransferFunds(t, r) PROVE MoneyStep
  <2>1. CASE UNCHANGED <<accounts, holds>>
    BY <1>2, <2>1 DEF ReserveTransferFunds, MoneyStep, Quiet
  <2>2. CASE ~UNCHANGED <<accounts, holds>>
    <3>1. /\ holds[t] = "none"
          /\ AvailableBalance(accounts[Source(t)]) >= Total(t)
          /\ Apply(Source(t), "FundsReserved", Total(t))
          /\ holds' = [holds EXCEPT ![t] = "reserved"]
          /\ UNCHANGED <<transfers, ledgerPostings>>
      BY <1>2, <2>2 DEF ReserveTransferFunds, Reserved, Source, Total
    <3>2. Adjusted(Source(t), 0, Total(t))
      BY <3>1, RowFacts, ApplyAdjusts
    <3>. QED
      BY <3>1, <3>2 DEF MoneyStep, Reserving
  <2>. QED
    BY <2>1, <2>2
<1>. QED
    BY <1>1, <1>2 DEF CallReserve, StoreCall

LEMMA FinishMoney ==
    ASSUME TypeOK, NEW t \in Present, NEW target \in {"captured", "released"}, NEW res,
           CallFinish(t, target, res), UNCHANGED cash
    PROVE  MoneyStep
<1>1. CASE UNCHANGED store
    BY <1>1 DEF store, MoneyStep, Quiet
<1>2. ASSUME NEW r, FinishReservation(t, target, r) PROVE MoneyStep
  <2>1. CASE UNCHANGED <<accounts, holds>>
    BY <1>2, <2>1 DEF FinishReservation, MoneyStep, Quiet
  <2>2. CASE ~UNCHANGED <<accounts, holds>>
    <3>1. /\ holds[t] = "reserved"
          /\ Apply(Source(t), IF target = "captured" THEN "ReservationCaptured"
                                                     ELSE "ReservationReleased", Total(t))
          /\ holds' = [holds EXCEPT ![t] = target]
          /\ UNCHANGED <<transfers, ledgerPostings>>
      BY <1>2, <2>2 DEF FinishReservation, Open, Source, Total
    <3>2. Adjusted(Source(t), 0, -Total(t))
      <4>1. \/ Apply(Source(t), "ReservationCaptured", Total(t))
            \/ Apply(Source(t), "ReservationReleased", Total(t))
        BY <3>1
      <4>. QED
        BY <4>1, RowFacts, ApplyAdjusts
    <3>3. Closing(t, target)
      BY <3>1, <3>2 DEF Closing
    <3>. QED
      BY <3>3 DEF MoneyStep
  <2>. QED
    BY <2>1, <2>2
<1>. QED
    BY <1>1, <1>2 DEF CallFinish, StoreCall

LEMMA PostMoney ==
    ASSUME TypeOK, RowsSound, NEW t \in Present, NEW res, CallPost(t, res), UNCHANGED cash,
           holds[t] # "none"
    PROVE  MoneyStep
<1>1. CASE UNCHANGED store
    BY <1>1 DEF store, MoneyStep, Quiet
<1>2. ASSUME NEW r, PostTransferLedger(t, r) PROVE MoneyStep
  <2>1. CASE UNCHANGED <<accounts, ledgerPostings>>
    BY <1>2, <2>1 DEF PostTransferLedger, MoneyStep, Quiet
  <2>2. CASE ~UNCHANGED <<accounts, ledgerPostings>>
    <3> DEFINE s == Source(t)
               d == Target(t)
               amount == transfers[t].cmd.amount
               fee == transfers[t].fee
               src == Fold(Fold(accounts[s], [type |-> "MoneyDebited", amount |-> fee]),
                           [type |-> "MoneyDebited", amount |-> amount])
               dst == Fold(accounts[d], [type |-> "MoneyCredited", amount |-> amount])
    <3>1. /\ t \notin ledgerPostings
          /\ accounts[s].opened /\ accounts[d].opened
          /\ accounts' = [accounts EXCEPT ![s] = src, ![d] = dst]
          /\ ledgerPostings' = ledgerPostings \cup {t}
          /\ UNCHANGED <<transfers, holds>>
      BY <1>2, <2>2 DEF PostTransferLedger, Posted, Source, Target
    <3>2. /\ s \in AccountIDs /\ d \in AccountIDs /\ s # d
          /\ amount \in Nat /\ fee \in Nat /\ Total(t) = amount + fee
      BY RowFacts DEF RowsSound, Total
    <3>3. /\ accounts \in [AccountIDs -> Accounts]
          /\ accounts[s] \in Accounts /\ accounts[d] \in Accounts
          /\ accounts[s].balance \in Int
      BY <3>2 DEF TypeOK, Accounts
    <3>. HIDE DEF s, d, amount, fee
    <3>4. dst = [opened |-> accounts[d].opened, balance |-> accounts[d].balance + amount,
                 reserved |-> accounts[d].reserved]
      BY <3>2, <3>3, FoldFields
    <3>5. src = [opened |-> accounts[s].opened, balance |-> accounts[s].balance - fee - amount,
                 reserved |-> accounts[s].reserved]
      <4> DEFINE mid == Fold(accounts[s], [type |-> "MoneyDebited", amount |-> fee])
      <4>1. mid = [opened |-> accounts[s].opened, balance |-> accounts[s].balance - fee,
                   reserved |-> accounts[s].reserved]
        BY <3>2, <3>3, FoldFields
      <4>2. mid \in Accounts
        BY <3>2, <3>3, FoldType DEF EventTypes
      <4>3. src = Fold(mid, [type |-> "MoneyDebited", amount |-> amount])
        OBVIOUS
      <4>. HIDE DEF mid, src
      <4>4. src = [opened |-> mid.opened, balance |-> mid.balance - amount, reserved |-> mid.reserved]
        BY <3>2, <4>2, <4>3, FoldFields
      <4>. QED
        BY <4>1, <4>4
    <3>. HIDE DEF src, dst
    <3>6. /\ accounts'[s] = src /\ accounts'[d] = dst
          /\ \A a \in AccountIDs : a \notin {s, d} => accounts'[a] = accounts[a]
      BY <3>1, <3>2, <3>3
    <3>7. accounts[s].balance - fee - amount = accounts[s].balance - Total(t)
      BY <3>2, <3>3
    <3>8. ASSUME NEW a \in AccountIDs
          PROVE  /\ accounts'[a].opened = accounts[a].opened
                 /\ accounts'[a].reserved = accounts[a].reserved
                 /\ a = s => accounts'[a].balance = accounts[a].balance - Total(t)
                 /\ a = d => accounts'[a].balance = accounts[a].balance + amount
                 /\ a \notin {s, d} => accounts'[a].balance = accounts[a].balance
      <4>1. CASE a = s
        BY <3>2, <3>5, <3>6, <3>7, <4>1
      <4>2. CASE a = d
        BY <3>2, <3>4, <3>6, <4>2
      <4>3. CASE a \notin {s, d}
        BY <3>6, <4>3
      <4>. QED
        BY <4>1, <4>2, <4>3
    <3>9. Posting(t)
      BY <3>1, <3>8 DEF Posting, s, d, amount
    <3>. QED
      BY <3>9 DEF MoneyStep
  <2>. QED
    BY <2>1, <2>2
<1>. QED
    BY <1>1, <1>2 DEF CallPost, StoreCall

(* The steps of the saga that touch money are those of MoneyStep. *)
LEMMA StepsOfMoney ==
    ASSUME SagaInv, RowsSound, [Next]_vars
    PROVE  MoneyStep
<1>1. TypeOK
    BY DEF SagaInv
<1>2. CASE UNCHANGED vars
    BY <1>2 DEF vars, MoneyStep, Quiet
<1>3. ASSUME NEW c \in Commands, Transfer(c) PROVE MoneyStep
    BY <1>3 DEF Transfer, MoneyStep, Quiet
<1>4. ASSUME NEW w \in Workers, ListDueTransfers(w) \/ Publish(w) \/ Crash(w) PROVE MoneyStep
    BY <1>4 DEF ListDueTransfers, Publish, Crash, store, MoneyStep, Quiet
<1>5. ASSUME NEW w \in Workers, NEW it \in queue[w], ProcessCreated(w, it) PROVE MoneyStep
  <2>1. it.id \in Present
    BY <1>5, TakeItem DEF ProcessCreated
  <2>. QED
    BY <1>1, <1>5, <2>1, ReserveMoney DEF ProcessCreated
<1>6. ASSUME NEW w \in Workers, NEW it \in queue[w], ProcessFundsReserved(w, it) PROVE MoneyStep
    BY <1>6 DEF ProcessFundsReserved, CallRecord, StoreCall, RecordComplianceDecision,
                store, MoneyStep, Quiet
<1>7. ASSUME NEW w \in Workers, NEW it \in queue[w], ProcessComplianceApproved(w, it) PROVE MoneyStep
  <2>1. it.id \in Present /\ StepFacts(it.id, "compliance_approved")
    BY <1>7, TakeItem DEF ProcessComplianceApproved
  <2>2. holds[it.id] # "none"
    BY <2>1 DEF StepFacts
  <2>. QED
    BY <1>1, <1>7, <2>1, <2>2, PostMoney DEF ProcessComplianceApproved
<1>8. ASSUME NEW w \in Workers, NEW it \in queue[w], ProcessLedgerPosted(w, it) PROVE MoneyStep
  <2>1. it.id \in Present
    BY <1>8, TakeItem DEF ProcessLedgerPosted
  <2>. QED
    BY <1>1, <1>8, <2>1, FinishMoney DEF ProcessLedgerPosted
<1>9. ASSUME NEW w \in Workers, NEW it \in queue[w], ProcessReservationCaptured(w, it) PROVE MoneyStep
    BY <1>9 DEF ProcessReservationCaptured, CallUpdate, StoreCall, UpdateTransferSaga,
                store, MoneyStep, Quiet
<1>10. ASSUME NEW w \in Workers, RejectRelease(w) \/ FailRelease(w) PROVE MoneyStep
  <2>1. job[w].item.id \in Present
    BY <1>10, JobCarries DEF RejectRelease, FailRelease, Supported
  <2>2. PICK res : CallFinish(job[w].item.id, "released", res)
    BY <1>10 DEF RejectRelease, FailRelease
  <2>3. UNCHANGED cash
    BY <1>10 DEF RejectRelease, FailRelease
  <2>. QED
    BY <1>1, <2>1, <2>2, <2>3, FinishMoney
<1>11. ASSUME NEW w \in Workers, Advance(w) PROVE MoneyStep
    BY <1>11 DEF Advance, CallUpdate, StoreCall, UpdateTransferSaga, store, MoneyStep, Quiet
<1>12. ASSUME NEW t \in TransferIDs, BackoffElapses(t) PROVE MoneyStep
    BY <1>12 DEF BackoffElapses, MoneyStep, Quiet
<1>13. ASSUME NEW a \in AccountIDs, NEW m \in CashAmounts, Deposit(a, m) PROVE MoneyStep
  <2>1. m \in Nat
    BY MoneyAssumption
  <2>2. AtCounter(a, m)
    BY <1>1, <1>13, <2>1, ApplyAdjusts DEF Deposit, AtCounter, tables
  <2>. QED
    BY <2>1, <2>2 DEF MoneyStep
<1>14. ASSUME NEW a \in AccountIDs, NEW m \in CashAmounts, Withdraw(a, m) PROVE MoneyStep
  <2>1. m \in Nat /\ -m \in Int /\ -(-m) = m /\ cash \in Int /\ AvailableBalance(accounts[a]) \in Int
    BY <1>1, MoneyAssumption DEF TypeOK, Accounts, AvailableBalance
  <2>2. AvailableBalance(accounts[a]) + (-m) >= 0 /\ cash' = cash - (-m)
    BY <1>14, <2>1 DEF Withdraw
  <2>3. AtCounter(a, -m)
    BY <1>1, <1>14, <2>1, <2>2, ApplyAdjusts DEF Withdraw, AtCounter, tables
  <2>. QED
    BY <2>1, <2>3 DEF MoneyStep
<1>15. ASSUME NEW a \in AccountIDs, OpenAccount(a) PROVE MoneyStep
  <2>1. accounts \in [AccountIDs -> Accounts] /\ accounts[a] \in Accounts
    BY <1>1 DEF TypeOK
  <2>2. accounts' = [accounts EXCEPT ![a] =
            [opened |-> TRUE, balance |-> OpeningDeposit, reserved |-> accounts[a].reserved]]
    BY <1>15, <2>1, MoneyAssumption, FoldFields DEF OpenAccount, Apply
  <2>3. Opening(a)
    BY <1>15, <2>1, <2>2 DEF OpenAccount, Opening, tables
  <2>. QED
    BY <2>3 DEF MoneyStep
<1>. QED
  <2>1. CASE \E w \in Workers : WorkerStep(w)
    BY <2>1, <1>4, <1>5, <1>6, <1>7, <1>8, <1>9, <1>10, <1>11 DEF WorkerStep, Process
  <2>. QED
    BY <1>2, <1>3, <1>4, <1>12, <1>13, <1>14, <1>15, <2>1 DEF Next

-----------------------------------------------------------------------------
(* Rows and holds *)

(* A row that exists keeps what the sums read. *)
LEMMA RowKept ==
    ASSUME RowsMoveForward, NEW t \in Present
    PROVE  /\ t \in Present'
           /\ Source(t)' = Source(t) /\ Target(t)' = Target(t)
           /\ transfers'[t].fee = transfers[t].fee
           /\ Total(t)' = Total(t)
BY DEF RowsMoveForward, MovesForward, Present, Source, Target, Total

LEMMA RowsSoundKept ==
    ASSUME SagaInv, RowsSound, [Next]_vars, SagaStep, MoneyStep
    PROVE  RowsSound'
<1>1. RowsMoveForward /\ EffectsKept /\ TypeOK
    BY DEF SagaStep, SagaInv
<1>2. ASSUME NEW t \in Present' PROVE Source(t)' # Target(t)'
  <2>1. CASE t \in Present
    BY <1>1, <2>1, RowKept DEF RowsSound
  <2>2. CASE t \notin Present
    BY <1>2, <2>2, RowsAppear DEF Accepts, ValidCommand, Source, Target
  <2>. QED
    BY <2>1, <2>2
<1>3. ASSUME NEW t \in TransferIDs, holds'[t] # "none" PROVE t \in Present'
  <2>1. CASE holds[t] # "none"
    BY <1>1, <2>1, RowKept DEF RowsSound
  <2>2. CASE holds[t] = "none"
    <3>1. ASSUME NEW u \in Present, NEW state, holds' = [holds EXCEPT ![u] = state]
          PROVE  t = u
      BY <1>1, <1>3, <2>2, <3>1 DEF TypeOK
    <3>2. holds' # holds
      BY <1>3, <2>2
    <3>3. \E u \in Present, state \in {"reserved", "captured", "released"} :
             holds' = [holds EXCEPT ![u] = state]
      BY <3>2 DEF MoneyStep, Quiet, Opening, AtCounter, Reserving, Posting, Closing
    <3>4. t \in Present
      BY <3>1, <3>3
    <3>. QED
      BY <1>1, <3>4, RowKept
  <2>. QED
    BY <2>1, <2>2
<1>. QED
    BY <1>2, <1>3 DEF RowsSound

-----------------------------------------------------------------------------
(* Sums over holds *)

Amount(S) == SumFunction([t \in S |-> Total(t)])

LEMMA Amounts ==
    ASSUME TypeOK, NEW S \in SUBSET Present
    PROVE  /\ Amount(S) \in Nat
           /\ \A t \in S : Amount(S) = Amount(S \ {t}) + Total(t)
           /\ \A T \in SUBSET S : Amount(T) <= Amount(S)
<1>1. IsFiniteSet(S)
    BY FiniteAssumption, FS_Subset DEF Present
<1>2. \A t \in S : Total(t) \in Nat
    BY RowFacts
<1>3. Amount(S) \in Nat
  <2>1. [t \in S |-> Total(t)] \in [S -> Nat]
    BY <1>2
  <2>. QED
    BY <1>1, <2>1, TotalNat DEF Amount
<1>4. ASSUME NEW t \in S PROVE Amount(S) = Amount(S \ {t}) + Total(t)
  <2> DEFINE f == [u \in S \ {t} |-> Total(u)]
             h == [u \in S |-> Total(u)]
  <2>1. S = (S \ {t}) \cup {t} /\ IsFiniteSet(S \ {t})
    BY <1>1, FS_Subset
  <2>2. f \in [S \ {t} -> Int] /\ h \in [S -> Int] /\ h[t] = Total(t)
    BY <1>2
  <2>3. h \in [(S \ {t}) \cup {t} -> Int]
    BY <2>1, <2>2
  <2>4. \A u \in S \ {t} : h[u] = f[u]
    OBVIOUS
  <2>. HIDE DEF f, h
  <2>5. SumFunction(h) = SumFunction(f) + h[t]
    BY <2>1, <2>2, <2>3, <2>4, TotalAdd
  <2>. QED
    BY <2>2, <2>5 DEF Amount, f, h
<1>5. ASSUME NEW T \in SUBSET S PROVE Amount(T) <= Amount(S)
  <2>1. /\ [t \in S |-> Total(t)] \in [S -> Nat]
        /\ [t \in T |-> Total(t)] \in [T -> Nat]
        /\ \A t \in T : [u \in S |-> Total(u)][t] = [u \in T |-> Total(u)][t]
    BY <1>2
  <2>. QED
    BY <1>1, <2>1, TotalMonotone DEF Amount
<1>. QED
    BY <1>3, <1>4, <1>5

LEMMA AmountKept ==
    ASSUME RowsMoveForward, NEW S \in SUBSET Present
    PROVE  SumFunction([t \in S |-> Total(t)']) = Amount(S)
<1>1. [t \in S |-> Total(t)'] = [t \in S |-> Total(t)]
    BY RowKept
<1>. QED
    BY <1>1 DEF Amount

(* The open holds of an account after a step. *)
LEMMA OpenHoldsNext ==
    ASSUME TypeOK, RowsSound, RowsMoveForward, RowsSound', NEW a \in AccountIDs
    PROVE  /\ UNCHANGED holds => OpenHolds(a)' = OpenHolds(a)
           /\ \A t \in Present :
                holds' = [holds EXCEPT ![t] = "reserved"] =>
                   OpenHolds(a)' = IF Source(t) = a THEN OpenHolds(a) \cup {t} ELSE OpenHolds(a) \ {t}
           /\ \A t \in Present, state \in {"captured", "released"} :
                holds' = [holds EXCEPT ![t] = state] => OpenHolds(a)' = OpenHolds(a) \ {t}
<1>1. \A t \in TransferIDs : t \in OpenHolds(a)' <=>
            t \in Present' /\ Source(t)' = a /\ holds'[t] = "reserved"
    BY DEF OpenHolds, Source, Present
<1>2. \A t \in TransferIDs : t \in OpenHolds(a) <=>
            t \in Present /\ Source(t) = a /\ holds[t] = "reserved"
    BY DEF OpenHolds, Source, Present
<1>3. \A t \in Present : t \in Present' /\ Source(t)' = Source(t)
    BY RowKept
<1>4. /\ OpenHolds(a) \subseteq TransferIDs /\ OpenHolds(a)' \subseteq TransferIDs
      /\ Present \subseteq TransferIDs
    BY DEF OpenHolds, Present
<1>5. \A t \in TransferIDs : holds[t] = "reserved" => t \in Present
    BY DEF RowsSound
<1>6. holds \in [TransferIDs -> {"none", "reserved", "captured", "released"}]
    BY DEF TypeOK
<1>7. ASSUME UNCHANGED holds PROVE OpenHolds(a)' = OpenHolds(a)
    BY <1>1, <1>2, <1>3, <1>4, <1>5, <1>7
<1>8. ASSUME NEW t \in Present, holds' = [holds EXCEPT ![t] = "reserved"]
      PROVE  OpenHolds(a)' = IF Source(t) = a THEN OpenHolds(a) \cup {t} ELSE OpenHolds(a) \ {t}
  <2>1. t \in TransferIDs /\ holds'[t] = "reserved" /\ t \in Present' /\ Source(t)' = Source(t)
    BY <1>3, <1>4, <1>6, <1>8
  <2>2. \A u \in TransferIDs : u # t => (u \in OpenHolds(a)' <=> u \in OpenHolds(a))
    BY <1>1, <1>2, <1>3, <1>5, <1>6, <1>8
  <2>3. t \in OpenHolds(a)' <=> Source(t) = a
    BY <1>1, <2>1
  <2>. QED
    BY <1>4, <2>1, <2>2, <2>3
<1>9. ASSUME NEW t \in Present, NEW state \in {"captured", "released"},
             holds' = [holds EXCEPT ![t] = state]
      PROVE  OpenHolds(a)' = OpenHolds(a) \ {t}
  <2>1. t \in TransferIDs /\ holds'[t] # "reserved"
    BY <1>4, <1>6, <1>9
  <2>2. \A u \in TransferIDs : u # t => (u \in OpenHolds(a)' <=> u \in OpenHolds(a))
    BY <1>1, <1>2, <1>3, <1>5, <1>6, <1>9
  <2>3. t \notin OpenHolds(a)'
    BY <1>1, <2>1
  <2>. QED
    BY <1>4, <2>1, <2>2, <2>3
<1>. QED
    BY <1>7, <1>8, <1>9

-----------------------------------------------------------------------------
(* The invariants *)

(* An account that was never opened has no money. *)
UnopenedEmpty == \A a \in AccountIDs : ~accounts[a].opened => accounts[a].balance = 0

MoneyInv ==
    /\ RowsSound
    /\ UnopenedEmpty
    /\ Conservation
    /\ HoldsMatchReserved
    /\ CoveredUnlessPostedOnReleasedHold

(* What every step below may assume. *)
MoneyContext == SagaInv /\ MoneyInv /\ SagaStep /\ MoneyStep /\ RowsSound'

LEMMA ContextFacts ==
    ASSUME MoneyContext
    PROVE  /\ TypeOK /\ TypeOK' /\ RowsSound /\ RowsSound'
           /\ RowsMoveForward /\ EffectsKept /\ PostedAfterApproval /\ PostedAfterApproval'
           /\ \A a \in AccountIDs : /\ accounts[a] \in Accounts /\ accounts'[a] \in Accounts
                                    /\ accounts[a].balance \in Int /\ accounts'[a].balance \in Int
                                    /\ accounts[a].reserved \in Int /\ accounts'[a].reserved \in Int
                                    /\ accounts[a].opened \in BOOLEAN /\ accounts'[a].opened \in BOOLEAN
           /\ ledgerPostings \subseteq Present
           /\ \A a \in AccountIDs : OpenHolds(a) \in SUBSET Present
<1>1. TypeOK /\ TypeOK' /\ RowsSound /\ RowsMoveForward /\ EffectsKept
      /\ PostedAfterApproval /\ PostedAfterApproval'
    BY DEF MoneyContext, SagaInv, MoneyInv, SagaStep
<1>2. accounts \in [AccountIDs -> Accounts] /\ accounts' \in [AccountIDs -> Accounts]
    BY <1>1 DEF TypeOK
<1>3. ledgerPostings \subseteq Present
    BY <1>1 DEF PostedAfterApproval, RowsSound, TypeOK
<1>. QED
    BY <1>1, <1>2, <1>3 DEF MoneyContext, Accounts, OpenHolds

LEMMA UnopenedKept ==
    ASSUME MoneyContext
    PROVE  UnopenedEmpty'
<1>1. SUFFICES ASSUME NEW a \in AccountIDs, ~accounts'[a].opened PROVE accounts'[a].balance = 0
    BY DEF UnopenedEmpty
<1>2. /\ accounts[a].opened \in BOOLEAN /\ accounts[a].balance \in Int
      /\ ~accounts[a].opened => accounts[a].balance = 0
    BY ContextFacts DEF MoneyContext, MoneyInv, UnopenedEmpty
<1>3. CASE Quiet
    BY <1>1, <1>2, <1>3 DEF Quiet
<1>4. ASSUME NEW b \in AccountIDs, Opening(b) PROVE accounts'[a].balance = 0
    BY <1>1, <1>2, <1>4 DEF Opening
<1>5. ASSUME NEW b \in AccountIDs, NEW m \in Int, AtCounter(b, m) PROVE accounts'[a].balance = 0
    BY <1>1, <1>2, <1>5 DEF AtCounter, Adjusted
<1>6. ASSUME NEW t \in Present, Reserving(t) PROVE accounts'[a].balance = 0
    BY <1>1, <1>2, <1>6 DEF Reserving, Adjusted
<1>7. ASSUME NEW t \in Present, Closing(t, "captured") \/ Closing(t, "released")
      PROVE  accounts'[a].balance = 0
    BY <1>1, <1>2, <1>7 DEF Closing, Adjusted
<1>8. ASSUME NEW t \in Present, Posting(t) PROVE accounts'[a].balance = 0
    BY <1>1, <1>2, <1>8 DEF Posting
<1>. QED
    BY <1>3, <1>4, <1>5, <1>6, <1>7, <1>8 DEF MoneyContext, MoneyStep

LEMMA ReservedKept ==
    ASSUME MoneyContext
    PROVE  HoldsMatchReserved'
<1>1. SUFFICES ASSUME NEW a \in AccountIDs
               PROVE  accounts'[a].reserved = SumFunction([t \in OpenHolds(a)' |-> Total(t)'])
    BY DEF HoldsMatchReserved
<1>2. /\ TypeOK /\ RowsSound /\ RowsSound' /\ RowsMoveForward
      /\ OpenHolds(a) \in SUBSET Present /\ accounts[a].reserved \in Int
    BY ContextFacts
<1>3. accounts[a].reserved = Amount(OpenHolds(a)) /\ Amount(OpenHolds(a)) \in Nat
    BY <1>2, Amounts DEF MoneyContext, MoneyInv, HoldsMatchReserved, Amount
<1>4. ASSUME NEW S \in SUBSET Present, OpenHolds(a)' = S, accounts'[a].reserved = Amount(S)
      PROVE  accounts'[a].reserved = SumFunction([t \in OpenHolds(a)' |-> Total(t)'])
    BY <1>2, <1>4, AmountKept
<1>5. CASE UNCHANGED holds /\ accounts'[a].reserved = accounts[a].reserved
    BY <1>2, <1>3, <1>4, <1>5, OpenHoldsNext
<1>6. ASSUME NEW t \in Present, Reserving(t)
      PROVE  accounts'[a].reserved = SumFunction([u \in OpenHolds(a)' |-> Total(u)'])
  <2>1. t \notin OpenHolds(a)
    BY <1>6 DEF Reserving, OpenHolds
  <2>2. OpenHolds(a)' = IF Source(t) = a THEN OpenHolds(a) \cup {t} ELSE OpenHolds(a) \ {t}
    BY <1>2, <1>6, OpenHoldsNext DEF Reserving
  <2>3. CASE Source(t) = a
    <3>1. OpenHolds(a) \cup {t} \in SUBSET Present /\ (OpenHolds(a) \cup {t}) \ {t} = OpenHolds(a)
      BY <1>2, <2>1
    <3>2. Amount(OpenHolds(a) \cup {t}) = Amount(OpenHolds(a)) + Total(t)
      BY <1>2, <3>1, Amounts
    <3>3. accounts'[a].reserved = accounts[a].reserved + Total(t)
      BY <1>6, <2>3 DEF Reserving, Adjusted
    <3>4. accounts'[a].reserved = Amount(OpenHolds(a) \cup {t})
      BY <1>3, <3>2, <3>3
    <3>. QED
      BY <1>4, <2>2, <2>3, <3>1, <3>4
  <2>4. CASE Source(t) # a
    <3>1. OpenHolds(a)' = OpenHolds(a)
      BY <2>1, <2>2, <2>4
    <3>2. accounts'[a].reserved = accounts[a].reserved
      BY <1>2, <1>6, <2>4 DEF Reserving, Adjusted
    <3>. QED
      BY <1>2, <1>3, <1>4, <3>1, <3>2
  <2>. QED
    BY <2>3, <2>4
<1>7. ASSUME NEW t \in Present, NEW state \in {"captured", "released"}, Closing(t, state)
      PROVE  accounts'[a].reserved = SumFunction([u \in OpenHolds(a)' |-> Total(u)'])
  <2>1. OpenHolds(a)' = OpenHolds(a) \ {t} /\ OpenHolds(a) \ {t} \in SUBSET Present
    BY <1>2, <1>7, OpenHoldsNext DEF Closing
  <2>2. t \in OpenHolds(a) <=> Source(t) = a
    BY <1>7 DEF Closing, OpenHolds, Source
  <2>3. Total(t) \in Nat /\ Amount(OpenHolds(a) \ {t}) \in Nat
    BY <1>2, <2>1, Amounts, RowFacts
  <2>4. CASE Source(t) = a
    <3>1. Amount(OpenHolds(a)) = Amount(OpenHolds(a) \ {t}) + Total(t)
      BY <1>2, <2>2, <2>4, Amounts
    <3>2. accounts'[a].reserved = accounts[a].reserved + (-Total(t))
      BY <1>7, <2>4 DEF Closing, Adjusted
    <3>3. accounts'[a].reserved = Amount(OpenHolds(a) \ {t})
      BY <1>3, <2>3, <3>1, <3>2
    <3>. QED
      BY <1>4, <2>1, <3>3
  <2>5. CASE Source(t) # a
    <3>1. OpenHolds(a) \ {t} = OpenHolds(a)
      BY <2>2, <2>5
    <3>2. accounts'[a].reserved = accounts[a].reserved
      BY <1>2, <1>7, <2>5 DEF Closing, Adjusted
    <3>. QED
      BY <1>2, <1>3, <1>4, <2>1, <3>1, <3>2
  <2>. QED
    BY <2>4, <2>5
<1>8. CASE Quiet
    BY <1>5, <1>8 DEF Quiet
<1>9. ASSUME NEW b \in AccountIDs, Opening(b)
      PROVE  UNCHANGED holds /\ accounts'[a].reserved = accounts[a].reserved
    BY <1>9 DEF Opening
<1>10. ASSUME NEW b \in AccountIDs, NEW m \in Int, AtCounter(b, m)
       PROVE  UNCHANGED holds /\ accounts'[a].reserved = accounts[a].reserved
    BY <1>2, <1>10 DEF AtCounter, Adjusted
<1>11. ASSUME NEW t \in Present, Posting(t)
       PROVE  UNCHANGED holds /\ accounts'[a].reserved = accounts[a].reserved
    BY <1>11 DEF Posting
<1>. QED
    BY <1>5, <1>6, <1>7, <1>8, <1>9, <1>10, <1>11 DEF MoneyContext, MoneyStep

-----------------------------------------------------------------------------
(* Conservation *)

Balances == [a \in AccountIDs |-> accounts[a].balance]
FeesPosted == [t \in ledgerPostings |-> transfers[t].fee]

LEMMA SumsTyped ==
    ASSUME MoneyContext
    PROVE  /\ Balances \in [AccountIDs -> Int] /\ Balances' \in [AccountIDs -> Int]
           /\ SumFunction(Balances) \in Int /\ SumFunction(Balances') \in Int
           /\ FeesPosted \in [ledgerPostings -> Nat] /\ IsFiniteSet(ledgerPostings)
           /\ SumFunction(FeesPosted) \in Int
           /\ cash \in Int
<1>1. Balances \in [AccountIDs -> Int] /\ Balances' \in [AccountIDs -> Int]
    BY ContextFacts DEF Balances
<1>2. SumFunction(Balances) \in Int /\ SumFunction(Balances') \in Int
    BY <1>1, FiniteAssumption, TotalInt
<1>3. FeesPosted \in [ledgerPostings -> Nat]
    BY ContextFacts, RowFacts DEF FeesPosted
<1>4. IsFiniteSet(ledgerPostings)
    BY ContextFacts, FiniteAssumption, FS_Subset DEF TypeOK
<1>5. SumFunction(FeesPosted) \in Nat
    BY <1>3, <1>4, TotalNat
<1>. QED
    BY <1>1, <1>2, <1>3, <1>4, <1>5, ContextFacts DEF TypeOK

LEMMA FeesKept ==
    ASSUME MoneyContext, UNCHANGED ledgerPostings
    PROVE  FeesPosted' = FeesPosted
BY ContextFacts, RowKept DEF FeesPosted

(* One balance changes. *)
LEMMA BalanceChanges ==
    ASSUME MoneyContext, NEW x \in AccountIDs,
           \A a \in AccountIDs : a # x => accounts'[a].balance = accounts[a].balance
    PROVE  SumFunction(Balances') =
              SumFunction(Balances) - accounts[x].balance + accounts'[x].balance
<1>1. Balances \in [AccountIDs -> Int] /\ Balances' \in [AccountIDs -> Int]
    BY SumsTyped
<1>2. /\ Balances[x] = accounts[x].balance /\ Balances'[x] = accounts'[x].balance
      /\ \A a \in AccountIDs : a # x => Balances'[a] = Balances[a]
    BY DEF Balances
<1>3. SumFunction(Balances') = SumFunction(Balances) - Balances[x] + Balances'[x]
    BY <1>1, <1>2, FiniteAssumption, TotalChange
<1>. QED
    BY <1>2, <1>3

(* A posting moves the amount from one account to another, and the fee     *)
(* from the first to the fees.                                             *)
LEMMA PostingMoves ==
    ASSUME MoneyContext, NEW t \in Present, Posting(t)
    PROVE  /\ SumFunction(Balances') = SumFunction(Balances) - transfers[t].fee
           /\ SumFunction(FeesPosted') = SumFunction(FeesPosted) + transfers[t].fee
<1> DEFINE s == Source(t)
           d == Target(t)
           amount == transfers[t].cmd.amount
           fee == transfers[t].fee
           mid == [Balances EXCEPT ![s] = accounts[s].balance - Total(t)]
<1>1. /\ s \in AccountIDs /\ d \in AccountIDs /\ s # d
      /\ amount \in Nat /\ fee \in Nat /\ Total(t) = amount + fee
      /\ accounts[s].balance \in Int /\ accounts[d].balance \in Int
    BY ContextFacts, RowFacts DEF RowsSound, Total
<1>2. Balances \in [AccountIDs -> Int] /\ Balances' \in [AccountIDs -> Int]
    BY SumsTyped
<1>3. /\ Balances[s] = accounts[s].balance /\ Balances[d] = accounts[d].balance
      /\ Balances'[s] = accounts[s].balance - Total(t)
      /\ Balances'[d] = accounts[d].balance + amount
      /\ \A a \in AccountIDs : a \notin {s, d} => Balances'[a] = Balances[a]
    BY <1>1 DEF Posting, Balances
<1>. HIDE DEF s, d, amount, fee
<1>4. accounts[s].balance - Total(t) \in Int
    BY <1>1
<1>5. /\ mid \in [AccountIDs -> Int] /\ mid[s] = accounts[s].balance - Total(t)
      /\ mid[d] = Balances[d]
      /\ \A a \in AccountIDs : a # s => mid[a] = Balances[a]
      /\ \A a \in AccountIDs : a # d => Balances'[a] = mid[a]
    BY <1>1, <1>2, <1>3, <1>4
<1>. HIDE DEF mid
<1>6. SumFunction(mid) = SumFunction(Balances) - Balances[s] + mid[s]
    BY <1>1, <1>2, <1>5, FiniteAssumption, TotalChange
<1>7. SumFunction(Balances') = SumFunction(mid) - mid[d] + Balances'[d]
    BY <1>1, <1>2, <1>5, FiniteAssumption, TotalChange
<1>8. SumFunction(Balances) \in Int
    BY SumsTyped
<1>9. SumFunction(Balances') = SumFunction(Balances) - fee
    BY <1>1, <1>3, <1>5, <1>6, <1>7, <1>8
<1>10. SumFunction(FeesPosted') = SumFunction(FeesPosted) + fee
  <2>1. /\ t \notin ledgerPostings /\ ledgerPostings' = ledgerPostings \cup {t}
        /\ UNCHANGED transfers
    BY DEF Posting
  <2>2. FeesPosted \in [ledgerPostings -> Int] /\ IsFiniteSet(ledgerPostings)
    BY SumsTyped
  <2>3. FeesPosted' = [u \in ledgerPostings \cup {t} |-> transfers[u].fee]
    BY <2>1 DEF FeesPosted
  <2>4. \A u \in ledgerPostings : FeesPosted[u] = transfers[u].fee /\ transfers[u].fee \in Int
    BY <2>2 DEF FeesPosted
  <2>5. /\ FeesPosted' \in [ledgerPostings \cup {t} -> Int] /\ FeesPosted'[t] = fee
        /\ \A u \in ledgerPostings : FeesPosted'[u] = FeesPosted[u]
    BY <1>1, <2>3, <2>4 DEF fee
  <2>. QED
    BY <2>1, <2>2, <2>5, TotalAdd
<1>. QED
    BY <1>9, <1>10 DEF fee

LEMMA ConservationKept ==
    ASSUME MoneyContext
    PROVE  Conservation'
<1> DEFINE B == SumFunction(Balances)
           F == SumFunction(FeesPosted)
           K == SumFunction(SeedBalances) + InitialCash
<1>1. B + F + cash = K
    BY DEF MoneyContext, MoneyInv, Conservation, Balances, FeesPosted
<1>2. SUFFICES SumFunction(Balances') + SumFunction(FeesPosted') + cash' = K
    BY DEF Conservation, Balances, FeesPosted
<1>3. B \in Int /\ F \in Int /\ cash \in Int
    BY SumsTyped
<1>. HIDE DEF B, F, K
<1>4. ASSUME \A a \in AccountIDs : accounts'[a].balance = accounts[a].balance,
             UNCHANGED <<ledgerPostings, cash>>
      PROVE  SumFunction(Balances') + SumFunction(FeesPosted') + cash' = K
  <2>1. Balances' = Balances /\ FeesPosted' = FeesPosted /\ cash' = cash
    BY <1>4, FeesKept DEF Balances
  <2>. QED
    BY <1>1, <2>1 DEF B, F
<1>5. CASE Quiet
    BY <1>4, <1>5 DEF Quiet
<1>6. ASSUME NEW t \in Present, Reserving(t) \/ Closing(t, "captured") \/ Closing(t, "released")
      PROVE  SumFunction(Balances') + SumFunction(FeesPosted') + cash' = K
    BY <1>4, <1>6, ContextFacts DEF Reserving, Closing, Adjusted
<1>7. ASSUME NEW a \in AccountIDs, Opening(a)
      PROVE  SumFunction(Balances') + SumFunction(FeesPosted') + cash' = K
  <2>1. FeesPosted' = FeesPosted /\ OpeningDeposit \in Nat
    BY <1>7, FeesKept, MoneyAssumption DEF Opening
  <2>2. SumFunction(Balances') = B - accounts[a].balance + accounts'[a].balance
    BY <1>7, BalanceChanges DEF Opening, B
  <2>3. accounts[a].balance = 0 /\ accounts'[a].balance = OpeningDeposit /\ cash' = cash - OpeningDeposit
    BY <1>7 DEF Opening, MoneyContext, MoneyInv, UnopenedEmpty
  <2>4. SumFunction(FeesPosted') = F
    BY <2>1 DEF F
  <2>. QED
    BY <1>1, <1>3, <2>1, <2>2, <2>3, <2>4
<1>8. ASSUME NEW a \in AccountIDs, NEW m \in Int, AtCounter(a, m)
      PROVE  SumFunction(Balances') + SumFunction(FeesPosted') + cash' = K
  <2>1. SumFunction(FeesPosted') = F
    BY <1>8, FeesKept DEF AtCounter, F
  <2>2. \A b \in AccountIDs : accounts[b].balance \in Int
    BY ContextFacts
  <2>3. \A b \in AccountIDs : b # a => accounts'[b].balance = accounts[b].balance
    BY <1>8, <2>2 DEF AtCounter, Adjusted
  <2>4. SumFunction(Balances') = B - accounts[a].balance + accounts'[a].balance
    BY <2>3, BalanceChanges DEF B
  <2>5. accounts'[a].balance = accounts[a].balance + m /\ cash' = cash - m
    BY <1>8 DEF AtCounter, Adjusted
  <2>. QED
    BY <1>1, <1>3, <2>1, <2>2, <2>4, <2>5
<1>9. ASSUME NEW t \in Present, Posting(t)
      PROVE  SumFunction(Balances') + SumFunction(FeesPosted') + cash' = K
  <2>1. SumFunction(Balances') = B - transfers[t].fee /\ SumFunction(FeesPosted') = F + transfers[t].fee
    BY <1>9, PostingMoves DEF B, F
  <2>2. transfers[t].fee \in Nat /\ cash' = cash
    BY <1>9, ContextFacts, RowFacts DEF Posting
  <2>. QED
    BY <1>1, <1>3, <2>1, <2>2
<1>. QED
    BY <1>5, <1>6, <1>7, <1>8, <1>9 DEF MoneyContext, MoneyStep

-----------------------------------------------------------------------------
(* Cover *)

NothingPostedOnReleasedHold == \A t \in ledgerPostings : holds[t] # "released"

LEMMA CoverKept ==
    ASSUME MoneyContext
    PROVE  CoveredUnlessPostedOnReleasedHold'
<1>1. SUFFICES ASSUME NothingPostedOnReleasedHold', NEW a \in AccountIDs
               PROVE  accounts'[a].balance >=
                        SumFunction([t \in OpenHolds(a)' \ ledgerPostings' |-> Total(t)'])
    BY DEF CoveredUnlessPostedOnReleasedHold, NothingPostedOnReleasedHold
<1> DEFINE S == OpenHolds(a) \ ledgerPostings
           Goal == accounts'[a].balance >=
                     SumFunction([t \in OpenHolds(a)' \ ledgerPostings' |-> Total(t)'])
<1>2. /\ TypeOK /\ RowsSound /\ RowsSound' /\ RowsMoveForward /\ EffectsKept
      /\ PostedAfterApproval /\ PostedAfterApproval'
      /\ OpenHolds(a) \in SUBSET Present /\ S \in SUBSET Present /\ S \in SUBSET OpenHolds(a)
      /\ accounts[a].balance \in Int /\ accounts'[a].balance \in Int /\ accounts[a].reserved \in Int
      /\ holds \in [TransferIDs -> {"none", "reserved", "captured", "released"}]
      /\ ledgerPostings \subseteq TransferIDs /\ Present \subseteq TransferIDs
    BY ContextFacts DEF TypeOK, Present
<1>3. NothingPostedOnReleasedHold
    BY <1>1, <1>2 DEF NothingPostedOnReleasedHold, EffectsKept
<1>4. accounts[a].balance >= Amount(S)
    BY <1>3 DEF MoneyContext, MoneyInv, CoveredUnlessPostedOnReleasedHold,
                NothingPostedOnReleasedHold, Amount
<1>5. /\ accounts[a].reserved = Amount(OpenHolds(a))
      /\ Amount(S) \in Nat /\ Amount(OpenHolds(a)) \in Nat /\ Amount(S) <= Amount(OpenHolds(a))
    BY <1>2, Amounts DEF MoneyContext, MoneyInv, HoldsMatchReserved, Amount
<1>6. ASSUME NEW T \in SUBSET Present, OpenHolds(a)' \ ledgerPostings' = T,
             accounts'[a].balance >= Amount(T)
      PROVE  Goal
    BY <1>2, <1>6, AmountKept
<1>. HIDE DEF S, Goal
<1>7. ASSUME UNCHANGED <<holds, ledgerPostings>>
      PROVE  OpenHolds(a)' \ ledgerPostings' = S
    BY <1>2, <1>7, OpenHoldsNext DEF S
<1>8. ASSUME Quiet PROVE Goal
  <2>1. accounts'[a].balance >= Amount(S)
    BY <1>4, <1>8 DEF Quiet
  <2>. QED
    BY <1>2, <1>6, <1>7, <1>8, <2>1 DEF Quiet
<1>9. ASSUME NEW b \in AccountIDs, Opening(b) PROVE Goal
  <2>1. accounts'[a].balance >= Amount(S)
    <3>1. CASE a = b
      <4>1. accounts[a].balance = 0 /\ accounts'[a].balance = OpeningDeposit /\ OpeningDeposit \in Nat
        BY <1>9, <3>1, MoneyAssumption DEF Opening, MoneyContext, MoneyInv, UnopenedEmpty
      <4>. QED
        BY <1>4, <1>5, <4>1
    <3>2. CASE a # b
      BY <1>4, <1>9, <3>2 DEF Opening
    <3>. QED
      BY <3>1, <3>2
  <2>. QED
    BY <1>2, <1>6, <1>7, <1>9, <2>1 DEF Opening
<1>10. ASSUME NEW b \in AccountIDs, NEW m \in Int, AtCounter(b, m) PROVE Goal
  <2>1. accounts'[a].balance >= Amount(S)
    <3>1. CASE a = b
      <4>1. /\ accounts'[a].balance = accounts[a].balance + m
            /\ accounts[a].balance - accounts[a].reserved + m >= 0 \/ m >= 0
        BY <1>10, <3>1 DEF AtCounter, Adjusted, AvailableBalance
      <4>. QED
        BY <1>2, <1>4, <1>5, <4>1
    <3>2. CASE a # b
      <4>1. accounts'[a].balance = accounts[a].balance
        BY <1>2, <1>10, <3>2 DEF AtCounter, Adjusted
      <4>. QED
        BY <1>4, <4>1
    <3>. QED
      BY <3>1, <3>2
  <2>. QED
    BY <1>2, <1>6, <1>7, <1>10, <2>1 DEF AtCounter
<1>11. ASSUME NEW t \in Present, Reserving(t) PROVE Goal
  <2>1. t \notin OpenHolds(a) /\ t \notin ledgerPostings /\ ledgerPostings' = ledgerPostings
    BY <1>2, <1>11 DEF Reserving, OpenHolds, PostedAfterApproval
  <2>2. OpenHolds(a)' = IF Source(t) = a THEN OpenHolds(a) \cup {t} ELSE OpenHolds(a) \ {t}
    BY <1>2, <1>11, OpenHoldsNext DEF Reserving
  <2>3. accounts'[a].balance = accounts[a].balance
    BY <1>2, <1>11 DEF Reserving, Adjusted
  <2>4. CASE Source(t) = a
    <3>1. /\ OpenHolds(a)' \ ledgerPostings' = S \cup {t}
          /\ S \cup {t} \in SUBSET Present /\ (S \cup {t}) \ {t} = S
      BY <1>2, <2>1, <2>2, <2>4 DEF S
    <3>2. Amount(S \cup {t}) = Amount(S) + Total(t) /\ Total(t) \in Nat
      BY <1>2, <3>1, Amounts, RowFacts
    <3>3. accounts[a].balance - accounts[a].reserved >= Total(t)
      BY <1>11, <2>4 DEF Reserving, AvailableBalance
    <3>4. accounts'[a].balance >= Amount(S \cup {t})
      BY <1>2, <1>5, <2>3, <3>2, <3>3
    <3>. QED
      BY <1>6, <3>1, <3>4
  <2>5. CASE Source(t) # a
    <3>1. OpenHolds(a)' \ ledgerPostings' = S
      BY <2>1, <2>2, <2>5 DEF S
    <3>. QED
      BY <1>2, <1>4, <1>6, <2>3, <3>1
  <2>. QED
    BY <2>4, <2>5
<1>12. ASSUME NEW t \in Present, NEW state \in {"captured", "released"}, Closing(t, state)
       PROVE  Goal
  <2>1. OpenHolds(a)' = OpenHolds(a) \ {t} /\ ledgerPostings' = ledgerPostings
    BY <1>2, <1>12, OpenHoldsNext DEF Closing
  <2>2. /\ OpenHolds(a)' \ ledgerPostings' = S \ {t}
        /\ S \ {t} \in SUBSET S /\ S \ {t} \in SUBSET Present
    BY <1>2, <2>1 DEF S
  <2>3. Amount(S \ {t}) <= Amount(S) /\ Amount(S \ {t}) \in Nat
    BY <1>2, <2>2, Amounts
  <2>4. accounts'[a].balance = accounts[a].balance
    BY <1>2, <1>12 DEF Closing, Adjusted
  <2>5. accounts'[a].balance >= Amount(S \ {t})
    BY <1>2, <1>4, <1>5, <2>3, <2>4
  <2>. QED
    BY <1>6, <2>2, <2>5
<1>13. ASSUME NEW t \in Present, Posting(t) PROVE Goal
  <2>1. ledgerPostings' = ledgerPostings \cup {t} /\ UNCHANGED holds /\ t \notin ledgerPostings
    BY <1>13 DEF Posting
  <2>2. OpenHolds(a)' \ ledgerPostings' = S \ {t} /\ S \ {t} \in SUBSET Present
    BY <1>2, <2>1, OpenHoldsNext DEF S
  <2>3. holds[t] = "reserved"
    <3>1. holds[t] \in {"none", "reserved", "captured", "released"} /\ t \in TransferIDs
      BY <1>2
    <3>2. holds[t] # "none"
      BY <1>13 DEF Posting
    <3>3. holds[t] # "released"
      BY <1>1, <2>1 DEF NothingPostedOnReleasedHold
    <3>4. holds[t] # "captured"
      BY <1>2, <2>1, <3>1 DEF PostedAfterApproval
    <3>. QED
      BY <3>1, <3>2, <3>3, <3>4
  <2>4. t \in S <=> Source(t) = a
    BY <2>1, <2>3 DEF S, OpenHolds, Source
  <2>5. CASE Source(t) = a
    <3>1. Amount(S) = Amount(S \ {t}) + Total(t) /\ Total(t) \in Nat /\ Amount(S \ {t}) \in Nat
      BY <1>2, <2>2, <2>4, <2>5, Amounts, RowFacts
    <3>2. accounts'[a].balance = accounts[a].balance - Total(t)
      BY <1>13, <2>5 DEF Posting
    <3>3. accounts'[a].balance >= Amount(S \ {t})
      BY <1>2, <1>4, <3>1, <3>2
    <3>. QED
      BY <1>6, <2>2, <3>3
  <2>6. CASE Source(t) # a
    <3>1. S \ {t} = S
      BY <2>4, <2>6
    <3>2. transfers[t].cmd.amount \in Nat
      BY <1>2, RowFacts
    <3>3. accounts'[a].balance >= accounts[a].balance
      <4>1. \/ accounts'[a].balance = accounts[a].balance
            \/ accounts'[a].balance = accounts[a].balance + transfers[t].cmd.amount
        BY <1>13, <2>6 DEF Posting
      <4>. QED
        BY <1>2, <3>2, <4>1
    <3>4. accounts'[a].balance >= Amount(S)
      BY <1>2, <1>4, <1>5, <3>3
    <3>. QED
      BY <1>2, <1>6, <2>2, <3>1, <3>4
  <2>. QED
    BY <2>5, <2>6
<1>. QED
  <2>1. Goal
    BY <1>8, <1>9, <1>10, <1>11, <1>12, <1>13 DEF MoneyContext, MoneyStep
  <2>. QED
    BY <2>1 DEF Goal

-----------------------------------------------------------------------------

(* The accounts at start. *)
LEMMA SeedAccounts ==
    ASSUME Init, NEW a \in AccountIDs
    PROVE  /\ a \in DOMAIN SeedBalances => accounts[a].opened
           /\ accounts[a].balance = IF a \in DOMAIN SeedBalances THEN SeedBalances[a] ELSE 0
           /\ accounts[a].reserved = 0
           /\ accounts[a].balance \in Nat
<1>1. CASE a \in DOMAIN SeedBalances
  <2>1. SeedBalances[a] \in Nat /\ NoAccount \in Accounts /\ NoAccount.reserved = 0
    BY <1>1, MoneyAssumption DEF NoAccount, Accounts
  <2>2. Opened(NoAccount, SeedBalances[a]) =
          [opened |-> TRUE, balance |-> SeedBalances[a], reserved |-> NoAccount.reserved]
    BY <2>1, FoldFields DEF Opened
  <2>3. accounts[a] = [opened |-> TRUE, balance |-> SeedBalances[a], reserved |-> 0]
    BY <1>1, <2>1, <2>2 DEF Init
  <2>. QED
    BY <1>1, <2>1, <2>3
<1>2. CASE a \notin DOMAIN SeedBalances
    BY <1>2 DEF Init, NoAccount
<1>. QED
    BY <1>1, <1>2

LEMMA MoneyInit == Init => MoneyInv
<1>1. SUFFICES ASSUME Init PROVE MoneyInv
    OBVIOUS
<1>2. Present = {} /\ RowsSound
    BY <1>1 DEF Init, Present, RowsSound
<1>3. ASSUME NEW a \in AccountIDs
      PROVE  /\ a \in DOMAIN SeedBalances => accounts[a].opened
             /\ accounts[a].balance = IF a \in DOMAIN SeedBalances THEN SeedBalances[a] ELSE 0
             /\ accounts[a].reserved = 0
             /\ accounts[a].balance \in Nat
    BY <1>1, SeedAccounts
<1>4. UnopenedEmpty
    BY <1>3 DEF UnopenedEmpty
<1>5. \A a \in AccountIDs : OpenHolds(a) = {}
    BY <1>2 DEF OpenHolds
<1>6. HoldsMatchReserved
  <2>1. \A a \in AccountIDs : SumFunction([t \in OpenHolds(a) |-> Total(t)]) = 0
    BY <1>5, TotalEmpty
  <2>. QED
    BY <1>3, <2>1 DEF HoldsMatchReserved
<1>7. CoveredUnlessPostedOnReleasedHold
  <2>1. \A a \in AccountIDs : SumFunction([t \in OpenHolds(a) \ ledgerPostings |-> Total(t)]) = 0
    BY <1>5, TotalEmpty
  <2>. QED
    BY <1>3, <2>1 DEF CoveredUnlessPostedOnReleasedHold
<1>8. Conservation
  <2> DEFINE f == [a \in AccountIDs |-> accounts[a].balance]
  <2>1. f \in [AccountIDs -> Int] /\ IntegerOn(f, AccountIDs) /\ DOMAIN f = AccountIDs
    BY <1>3 DEF IntegerOn
  <2>2. /\ \A a \in DOMAIN SeedBalances : SeedBalances[a] = f[a]
        /\ \A a \in AccountIDs \ DOMAIN SeedBalances : f[a] = 0
        /\ DOMAIN SeedBalances \in SUBSET AccountIDs
    BY <1>3, MoneyAssumption
  <2>. HIDE DEF f
  <2>3. SumFunctionOnSet(f, AccountIDs) = SumFunctionOnSet(SeedBalances, DOMAIN SeedBalances)
    BY <2>1, <2>2, FiniteAssumption, SumZeros
  <2>4. SumFunction(f) = SumFunction(SeedBalances) /\ SumFunction(f) \in Int
    BY <2>1, <2>3, FiniteAssumption, TotalInt DEF SumFunction
  <2>5. SumFunction([t \in ledgerPostings |-> transfers[t].fee]) = 0
    BY <1>1, TotalEmpty DEF Init
  <2>6. cash = InitialCash /\ InitialCash \in Int
    BY <1>1, MoneyAssumption DEF Init
  <2>7. SumFunction(f) + 0 + cash = SumFunction(SeedBalances) + InitialCash
    BY <2>4, <2>6
  <2>. QED
    BY <2>5, <2>7 DEF Conservation, f
<1>. QED
    BY <1>2, <1>4, <1>6, <1>7, <1>8 DEF MoneyInv

LEMMA MoneyNext == SagaInv /\ MoneyInv /\ [Next]_vars => MoneyInv'
<1>1. SUFFICES ASSUME SagaInv, MoneyInv, [Next]_vars PROVE MoneyInv'
    OBVIOUS
<1>2. SagaStep
    BY <1>1, SagaNext
<1>3. MoneyStep
    BY <1>1, StepsOfMoney DEF MoneyInv
<1>4. MoneyContext
    BY <1>1, <1>2, <1>3, RowsSoundKept DEF MoneyInv, MoneyContext
<1>. QED
    BY <1>4, UnopenedKept, ReservedKept, ConservationKept, CoverKept DEF MoneyInv, MoneyContext

(* The inductive invariant about money: the sums, and the three facts they *)
(* rest on: no transfer to oneself, no hold without a row, no money in an  *)
(* account that was never opened.                                          *)
THEOREM MoneyInvariant == Spec => []MoneyInv
<1>1. Init => SagaInv /\ MoneyInv
    BY SagaInit, MoneyInit
<1>2. (SagaInv /\ MoneyInv) /\ [Next]_vars => (SagaInv /\ MoneyInv)'
    BY SagaNext, MoneyNext DEF SagaStep
<1>. QED
    BY <1>1, <1>2, PTL DEF Spec

(* Whatever fails, is retried or repeated, account balances, posted fees   *)
(* and cash add up to what there was: the double-entry posting of          *)
(* PostTransferLedger is all or nothing and happens once.                  *)
THEOREM MoneyIsConserved == Spec => []Conservation
<1>1. MoneyInv => Conservation
    BY DEF MoneyInv
<1>. QED
    BY <1>1, MoneyInvariant, PTL

(* The reserved balance of every account is the sum of its open holds,     *)
(* however often ReserveTransferFunds and the closing of a hold are        *)
(* repeated.                                                               *)
THEOREM ReservedIsSumOfHolds == Spec => []HoldsMatchReserved
<1>1. MoneyInv => HoldsMatchReserved
    BY DEF MoneyInv
<1>. QED
    BY <1>1, MoneyInvariant, PTL

(* Unless PostTransferLedger met a hold that was already released, no      *)
(* account owes more than it has: the balance covers its unposted holds.   *)
THEOREM HoldsAreCovered == Spec => []CoveredUnlessPostedOnReleasedHold
<1>1. MoneyInv => CoveredUnlessPostedOnReleasedHold
    BY DEF MoneyInv
<1>. QED
    BY <1>1, MoneyInvariant, PTL
=============================================================================
