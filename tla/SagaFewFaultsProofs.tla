------------------------ MODULE SagaFewFaultsProofs -------------------------
(***************************************************************************)
(* The saga when faults are fewer than the attempts a transfer has, and    *)
(* the compliance checker answers one command always alike.  Attempts are  *)
(* counted against faults, so nobody gives up; a hold is then released     *)
(* only for a rejected transfer, which is never posted; and so the saga    *)
(* is an atomic payment, no account is overdrawn, and, with one worker,    *)
(* no failed transfer keeps a hold.                                        *)
(***************************************************************************)
EXTENDS SagaProofs

-----------------------------------------------------------------------------
(* Few faults: what a step does to a transfer, and why nobody gives up *)

(* What a step changes of transfer t, it has a reason to. *)
Justified(t) ==
    /\ decisions'[t] # decisions[t] =>
          t \in Present /\ decisions'[t] \in ComplianceVerdicts(transfers[t].cmd)
    /\ holds'[t] = "released" /\ holds[t] # "released" => decisions[t] = "rejected"
    /\ holds'[t] # "none" /\ holds[t] = "none" =>
          t \in Present /\ accounts[Source(t)].opened /\ accounts[Target(t)].opened
    /\ t \in ledgerPostings' /\ t \notin ledgerPostings =>
          t \in Present /\ transfers[t].step \notin Early
    /\ transfers'[t] # transfers[t] =>
          /\ transfers'[t].attempts <= faults'
          /\ transfers'[t].status = "failed" =>
                transfers[t].step \in Early /\ transfers'[t].step \in Early
          /\ t \notin Present =>
                /\ transfers'[t].fee = CalculateFee(transfers'[t].cmd.amount)
                /\ transfers'[t].status = "pending"
                /\ UNCHANGED ledgerPostings

FaultCounted == faults' \in {faults, faults + 1} /\ faults' <= MaxFaults

(* What every step below may assume. *)
CalmContext ==
    /\ FewFaults /\ SteadyCompliance
    /\ SagaInv /\ RowsSound /\ CalmInv
    /\ SagaStep /\ MoneyStep /\ RowsSound'

LEMMA CalmFacts ==
    ASSUME CalmContext
    PROVE  /\ TypeOK /\ TypeOK' /\ StoreTypeOK /\ PostedAfterApproval /\ RowsSound /\ RowsSound'
           /\ RowsMoveForward /\ EffectsKept /\ FewFaults /\ SteadyCompliance /\ SagaInv /\ CalmInv
           /\ ledgerPostings \subseteq Present /\ Present \subseteq TransferIDs
           /\ faults \in Nat /\ faults' \in Nat /\ MaxFaults \in Nat /\ MaxAttempts \in Nat
           /\ 0 <= faults' /\ 0 <= faults
           /\ holds \in [TransferIDs -> {"none", "reserved", "captured", "released"}]
           /\ decisions \in [TransferIDs -> {"none", "approved", "rejected"}]
           /\ transfers \in [TransferIDs -> Rows \cup {Absent}]
           /\ accounts \in [AccountIDs -> Accounts]
<1>1. TypeOK /\ TypeOK' /\ PostedAfterApproval /\ RowsMoveForward /\ EffectsKept
    BY DEF CalmContext, SagaInv, SagaStep
<1>2. ledgerPostings \subseteq Present
    BY <1>1 DEF PostedAfterApproval, RowsSound, TypeOK, CalmContext
<1>. QED
    BY <1>1, <1>2, StoreTyped, FaultsAssumption, LimitsAssumption DEF CalmContext, TypeOK, Present

(* An account stays open. *)
LEMMA StaysOpen ==
    ASSUME MoneyStep, NEW a \in AccountIDs, accounts[a].opened
    PROVE  accounts'[a].opened
BY DEF MoneyStep, Quiet, Opening, AtCounter, Reserving, Posting, Closing, Adjusted

(* Ranks of the steps. *)
LEMMA RankFacts ==
    /\ \A s \in Steps : Rank[s] \in Nat
    /\ \A s \in Steps : s \in Early <=> Rank[s] < 2
    /\ Rank["compliance_approved"] = 2
BY DEF Rank, Steps, Early

(* A row that was there keeps what the invariant reads, and never goes     *)
(* back.                                                                   *)
LEMMA RowMoves ==
    ASSUME CalmContext, NEW t \in Present
    PROVE  /\ t \in Present' /\ transfers'[t].cmd = transfers[t].cmd
           /\ transfers'[t].fee = transfers[t].fee
           /\ transfers[t].step \in Steps /\ transfers'[t].step \in Steps
           /\ Rank[transfers[t].step] <= Rank[transfers'[t].step]
           /\ transfers[t].step \notin Early => transfers'[t].step \notin Early
           /\ transfers[t].attempts \in Nat
           /\ transfers[t].status # "pending" => transfers'[t] = transfers[t]
<1>1. t \in Present' /\ MovesForward(transfers[t], transfers'[t]) /\ t \in TransferIDs
    BY CalmFacts DEF RowsMoveForward, Present
<1>2. transfers[t] \in Rows /\ transfers'[t] \in Rows
    BY <1>1, CalmFacts DEF TypeOK, Present
<1>3. transfers[t].step \in Steps /\ transfers'[t].step \in Steps /\ transfers[t].attempts \in Nat
    BY <1>2 DEF Rows
<1>. QED
    BY <1>1, <1>3, RankFacts DEF MovesForward

(* So copies stay calm, as long as faults are only counted up. *)
LEMMA CopyStays ==
    ASSUME CalmContext, FaultCounted, NEW it \in Items, it.id \in Present, CopyCalm(it)
    PROVE  CopyCalm(it)'
<1>1. /\ it.attempts \in Nat /\ it.step \in Steps
      /\ faults \in Nat /\ faults' \in Nat /\ faults <= faults'
    BY CalmFacts DEF Items, FaultCounted
<1>2. it.attempts <= faults'
    BY <1>1 DEF CopyCalm
<1>3. Rank[it.step] <= Rank[transfers'[it.id].step]
    BY <1>1, RowMoves, RankFacts DEF CopyCalm
<1>. QED
    BY <1>2, <1>3 DEF CopyCalm

LEMMA JobStays ==
    ASSUME CalmContext, FaultCounted, NEW j \in Jobs, JobSupported(j), JobCalm(j)
    PROVE  JobCalm(j)'
<1>1. CASE j = Idle
    BY <1>1 DEF JobCalm
<1>2. CASE j # Idle
  <2>1. j.item \in Items /\ j.item.id \in Present /\ CopyCalm(j.item) /\ j.item.id \in TransferIDs
    BY <1>2 DEF Jobs, JobSupported, Supported, JobCalm, Items
  <2>2. CopyCalm(j.item)'
    BY <2>1, CopyStays
  <2>3. ASSUME j.pc = "reject" PROVE decisions'[j.item.id] = "rejected"
    BY <1>2, <2>1, <2>3, CalmFacts DEF JobCalm, EffectsKept
  <2>4. ASSUME j.pc # "publish" PROVE j.upd.attempts <= faults'
    <3>1. j.upd.attempts \in Nat
      BY <1>2, <2>4 DEF Jobs, Updates
    <3>. QED
      BY <1>2, <2>4, <3>1, CalmFacts DEF JobCalm, FaultCounted
  <2>. QED
    BY <1>2, <2>2, <2>3, <2>4 DEF JobCalm
<1>. QED
    BY <1>1, <1>2

LEMMA RowsStayCalm ==
    ASSUME CalmContext, FaultCounted, \A t \in TransferIDs : Justified(t)
    PROVE  \A t \in Present' : RowCalm(t)'
<1>1. SUFFICES ASSUME NEW t \in Present' PROVE RowCalm(t)'
    OBVIOUS
<1>2. t \in TransferIDs /\ Justified(t)
    BY DEF Present
<1>3. CASE t \in Present
  <2>1. RowCalm(t)
    BY <1>3, CalmFacts DEF CalmInv
  <2>2. transfers'[t].attempts <= faults'
    <3>1. transfers[t].attempts <= faults'
      BY <1>3, <2>1, CalmFacts, RowMoves DEF RowCalm, FaultCounted
    <3>. QED
      BY <1>2, <3>1 DEF Justified
  <2>3. transfers'[t].fee = CalculateFee(transfers'[t].cmd.amount)
    BY <1>3, <2>1, RowMoves DEF RowCalm
  <2>4. transfers'[t].status = "failed" => transfers'[t].step \in Early
    BY <1>2, <2>1 DEF Justified, RowCalm
  <2>5. t \in ledgerPostings' => transfers'[t].step \notin Early
    BY <1>2, <1>3, <2>1, RowMoves DEF Justified, RowCalm
  <2>. QED
    BY <2>2, <2>3, <2>4, <2>5 DEF RowCalm
<1>4. CASE t \notin Present
  <2>1. transfers[t] = Absent /\ transfers'[t] # Absent
    BY <1>2, <1>4 DEF Present
  <2>2. t \notin ledgerPostings'
    BY <1>2, <1>4, <2>1, CalmFacts DEF Justified
  <2>3. transfers'[t].status # "failed"
    BY <1>2, <1>4, <2>1 DEF Justified
  <2>. QED
    BY <1>2, <1>4, <2>1, <2>2, <2>3 DEF Justified, RowCalm
<1>. QED
    BY <1>3, <1>4

LEMMA EffectsStayCalm ==
    ASSUME CalmContext, FaultCounted, \A t \in TransferIDs : Justified(t)
    PROVE  \A t \in TransferIDs : EffectCalm(t)'
<1>1. SUFFICES ASSUME NEW t \in TransferIDs PROVE EffectCalm(t)'
    OBVIOUS
<1>2. Justified(t) /\ EffectCalm(t)
    BY CalmFacts DEF CalmInv
<1>3. ASSUME decisions'[t] # "none"
      PROVE  t \in Present' /\ decisions'[t] \in ComplianceVerdicts(transfers'[t].cmd)
  <2>1. t \in Present /\ decisions'[t] \in ComplianceVerdicts(transfers[t].cmd)
    BY <1>2, <1>3 DEF Justified, EffectCalm
  <2>. QED
    BY <2>1, RowMoves
<1>4. ASSUME holds'[t] = "released" PROVE decisions'[t] = "rejected"
  <2>1. decisions[t] = "rejected"
    BY <1>2, <1>4 DEF Justified, EffectCalm
  <2>. QED
    BY <2>1, CalmFacts DEF EffectsKept
<1>5. ASSUME holds'[t] # "none"
      PROVE  /\ t \in Present' /\ accounts'[transfers'[t].cmd.src].opened
             /\ accounts'[transfers'[t].cmd.dst].opened
  <2>1. t \in Present /\ accounts[Source(t)].opened /\ accounts[Target(t)].opened
    BY <1>2, <1>5 DEF Justified, EffectCalm, Source, Target
  <2>2. accounts'[Source(t)].opened /\ accounts'[Target(t)].opened
    BY <2>1, CalmFacts, RowFacts, StaysOpen DEF CalmContext
  <2>. QED
    BY <2>1, <2>2, RowMoves DEF Source, Target
<1>. QED
    BY <1>3, <1>4, <1>5 DEF EffectCalm

(* The end of every step: what it changed was justified, and what the      *)
(* workers carry now is calm.                                              *)
LEMMA CalmKept ==
    ASSUME CalmContext, FaultCounted, \A t \in TransferIDs : Justified(t),
           \A w \in Workers : JobCalm(job[w])' /\ \A it \in queue'[w] : CopyCalm(it)'
    PROVE  CalmInv'
<1>1. faults' <= MaxFaults
    BY DEF FaultCounted
<1>. QED
    BY <1>1, RowsStayCalm, EffectsStayCalm DEF CalmInv

LEMMA WorkerCalm ==
    ASSUME CalmContext, FaultCounted, \A t \in TransferIDs : Justified(t),
           \A v \in Workers : queue'[v] \subseteq queue[v],
           NEW w \in Workers, NEW j, JobCalm(j)', Goto(w, j)
    PROVE  CalmInv'
<1>1. ASSUME NEW v \in Workers PROVE JobCalm(job[v])'
  <2>1. CASE v = w
    <3>1. job'[v] = j
      BY <2>1, CalmFacts DEF Goto, TypeOK
    <3>. QED
      BY <3>1
  <2>2. CASE v # w
    <3>1. PICK k : k = job[v]
      OBVIOUS
    <3>2. k \in Jobs /\ JobSupported(k) /\ JobCalm(k) /\ job'[v] = k
      BY <2>2, <3>1, CalmFacts DEF TypeOK, Goto, SagaInv, JobsSupported, CalmInv
    <3>3. JobCalm(k)'
      BY <3>2, JobStays
    <3>. QED
      BY <3>2, <3>3
  <2>. QED
    BY <2>1, <2>2
<1>2. ASSUME NEW v \in Workers, NEW it \in queue'[v] PROVE CopyCalm(it)'
  <2>1. it \in queue[v]
    OBVIOUS
  <2>2. it \in Items /\ it.id \in Present /\ CopyCalm(it)
    BY <2>1, CalmFacts DEF TypeOK, SagaInv, QueuesSupported, Supported, CalmInv
  <2>. QED
    BY <2>2, CopyStays
<1>. QED
    BY <1>1, <1>2, CalmKept

(* A step of the saga is about one transfer. *)
OnlyAbout(t) ==
    \A u \in TransferIDs : u # t =>
        /\ transfers'[u] = transfers[u] /\ holds'[u] = holds[u] /\ decisions'[u] = decisions[u]
        /\ u \in ledgerPostings' => u \in ledgerPostings

LEMMA OthersJustified ==
    ASSUME NEW t, OnlyAbout(t), Justified(t)
    PROVE  \A u \in TransferIDs : Justified(u)
BY DEF OnlyAbout, Justified

LEMMA NothingChanged ==
    ASSUME UNCHANGED tables
    PROVE  (\A u \in TransferIDs : Justified(u)) /\ \A t : OnlyAbout(t)
BY DEF tables, Justified, OnlyAbout

-----------------------------------------------------------------------------
(* Under few faults, what the store may answer *)

Unanswered(res) == res = "unavailable" /\ faults' = faults + 1

LEMMA CountedFault ==
    ASSUME CalmContext, faults' = faults \/ \E kind : Fault(kind)
    PROVE  FaultCounted
BY CalmFacts DEF FaultCounted, Fault, CalmInv

LEMMA ReserveCalm ==
    ASSUME CalmContext, NEW t \in Present, NEW res, CallReserve(t, res)
    PROVE  /\ \A u \in TransferIDs : Justified(u)
           /\ OnlyAbout(t) /\ FaultCounted
           /\ Unanswered(res) \/ res = "nil" \/ (Permanent(res) /\ holds[t] = "none" /\ UNCHANGED holds)
<1>1. FaultCounted
    BY CountedFault DEF CallReserve, StoreCall
<1>2. ASSUME NEW r, ReserveTransferFunds(t, r)
      PROVE  /\ \A u \in TransferIDs : Justified(u)
             /\ OnlyAbout(t)
             /\ r = "nil" \/ (Permanent(r) /\ holds[t] = "none" /\ UNCHANGED holds)
  <2>1. UNCHANGED <<transfers, decisions, ledgerPostings>>
    BY <1>2 DEF ReserveTransferFunds
  <2>2. CASE UNCHANGED holds
    BY <1>2, <2>1, <2>2, NothingChanged DEF ReserveTransferFunds, Permanent, Reserved, tables
  <2>3. CASE /\ accounts[Source(t)].opened /\ accounts[Target(t)].opened
             /\ holds' = [holds EXCEPT ![t] = "reserved"] /\ r = "nil"
    <3>1. OnlyAbout(t) /\ t \in TransferIDs
      BY <2>1, <2>3, CalmFacts DEF OnlyAbout
    <3>2. Justified(t)
      BY <2>1, <2>3, <3>1, CalmFacts DEF Justified
    <3>. QED
      BY <2>3, <3>1, <3>2, OthersJustified
  <2>. QED
    BY <1>2, <2>2, <2>3 DEF ReserveTransferFunds, Source, Target
<1>3. CASE UNCHANGED store /\ Unanswered(res)
    BY <1>1, <1>3, NothingChanged DEF store, tables
<1>. QED
    BY <1>1, <1>2, <1>3 DEF CallReserve, StoreCall, Unanswered, Fault

(* The checker is steady, so a repeated decision is the same. *)
LEMMA RecordCalm ==
    ASSUME CalmContext, NEW t \in Present, NEW res,
           NEW verdict \in ComplianceVerdicts(transfers[t].cmd) \ {"error"},
           CallRecord(t, verdict, res)
    PROVE  /\ \A u \in TransferIDs : Justified(u)
           /\ OnlyAbout(t) /\ FaultCounted
           /\ Unanswered(res) \/ (res = "nil" /\ decisions'[t] = verdict)
<1>1. FaultCounted
    BY CountedFault DEF CallRecord, StoreCall
<1>2. t \in TransferIDs /\ transfers[t].cmd \in Commands
    BY CalmFacts, RowType
<1>3. decisions[t] \in {"none", verdict}
    BY <1>2, CalmFacts DEF CalmInv, EffectCalm, SteadyCompliance
<1>4. ASSUME NEW r, RecordComplianceDecision(t, verdict, r)
      PROVE  r = "nil" /\ decisions'[t] = verdict /\ OnlyAbout(t) /\ \A u \in TransferIDs : Justified(u)
  <2>1. /\ UNCHANGED <<accounts, transfers, holds, ledgerPostings>> /\ r = "nil"
        /\ decisions' = [decisions EXCEPT ![t] = verdict]
    BY <1>3, <1>4 DEF RecordComplianceDecision
  <2>2. OnlyAbout(t) /\ decisions'[t] = verdict
    BY <1>2, <2>1, CalmFacts DEF OnlyAbout
  <2>3. Justified(t)
    BY <1>2, <2>1, <2>2 DEF Justified
  <2>. QED
    BY <2>1, <2>2, <2>3, OthersJustified
<1>5. CASE UNCHANGED store /\ Unanswered(res)
    BY <1>1, <1>5, NothingChanged DEF store, tables
<1>. QED
    BY <1>1, <1>4, <1>5 DEF CallRecord, StoreCall, Unanswered, Fault

(* A hold was made on accounts that exist, and they still do. *)
LEMMA PostCalm ==
    ASSUME CalmContext, NEW t \in Present, NEW res, CallPost(t, res),
           holds[t] # "none", transfers[t].step \notin Early
    PROVE  /\ \A u \in TransferIDs : Justified(u)
           /\ OnlyAbout(t) /\ FaultCounted
           /\ Unanswered(res) \/ res = "nil"
<1>1. FaultCounted
    BY CountedFault DEF CallPost, StoreCall
<1>2. /\ t \in TransferIDs
      /\ accounts[transfers[t].cmd.src].opened /\ accounts[transfers[t].cmd.dst].opened
    BY CalmFacts DEF CalmInv, EffectCalm
<1>3. ASSUME NEW r, PostTransferLedger(t, r)
      PROVE  r = "nil" /\ OnlyAbout(t) /\ \A u \in TransferIDs : Justified(u)
  <2>1. /\ UNCHANGED <<transfers, holds, decisions>> /\ r = "nil"
        /\ ledgerPostings' \subseteq ledgerPostings \cup {t}
    BY <1>2, <1>3 DEF PostTransferLedger
  <2>2. OnlyAbout(t) /\ Justified(t)
    BY <2>1 DEF OnlyAbout, Justified
  <2>. QED
    BY <2>1, <2>2, OthersJustified
<1>4. CASE UNCHANGED store /\ Unanswered(res)
    BY <1>1, <1>4, NothingChanged DEF store, tables
<1>. QED
    BY <1>1, <1>3, <1>4 DEF CallPost, StoreCall, Unanswered, Fault

(* What was posted was approved and what was released was rejected, so a   *)
(* hold is never found closed in the other way.                            *)
LEMMA FinishCalm ==
    ASSUME CalmContext, NEW t \in Present, NEW res,
           NEW target \in {"captured", "released"}, CallFinish(t, target, res),
           target = "captured" => t \in ledgerPostings,
           target = "released" => decisions[t] = "rejected"
    PROVE  /\ \A u \in TransferIDs : Justified(u)
           /\ OnlyAbout(t) /\ FaultCounted
           /\ Unanswered(res) \/ (res = "nil" /\ holds'[t] # "reserved")
<1>1. FaultCounted
    BY CountedFault DEF CallFinish, StoreCall
<1>2. /\ t \in TransferIDs
      /\ target = "captured" => holds[t] # "released"
      /\ target = "released" => holds[t] # "captured"
    BY CalmFacts DEF CalmInv, EffectCalm, PostedAfterApproval
<1>3. ASSUME NEW r, FinishReservation(t, target, r)
      PROVE  /\ r = "nil" /\ holds'[t] # "reserved"
             /\ OnlyAbout(t) /\ \A u \in TransferIDs : Justified(u)
  <2>1. UNCHANGED <<transfers, decisions, ledgerPostings>> /\ r = "nil"
    BY <1>2, <1>3, CalmFacts DEF FinishReservation, Finished, Open
  <2>2. CASE UNCHANGED holds /\ holds[t] # "reserved"
    BY <2>1, <2>2, NothingChanged DEF tables
  <2>3. CASE holds' = [holds EXCEPT ![t] = target] /\ holds[t] = "reserved"
    <3>1. OnlyAbout(t) /\ holds'[t] = target
      BY <1>2, <2>1, <2>3, CalmFacts DEF OnlyAbout
    <3>2. Justified(t)
      BY <2>1, <2>3, <3>1 DEF Justified
    <3>. QED
      BY <2>1, <3>1, <3>2, OthersJustified
  <2>. QED
    BY <1>2, <1>3, <2>2, <2>3, CalmFacts DEF FinishReservation, Finished, Open
<1>4. CASE UNCHANGED store /\ Unanswered(res)
    BY <1>1, <1>4, NothingChanged DEF store, tables
<1>. QED
    BY <1>1, <1>3, <1>4 DEF CallFinish, StoreCall, Unanswered, Fault

LEMMA UpdateCalm ==
    ASSUME CalmContext, NEW t \in Present, NEW expected, NEW u \in Updates, NEW res,
           CallUpdate(t, expected, u, res), u.attempts <= faults,
           u.status = "failed" => u.step = expected /\ u.step \in Early
    PROVE  (\A v \in TransferIDs : Justified(v)) /\ OnlyAbout(t) /\ FaultCounted
<1>1. FaultCounted
    BY CountedFault DEF CallUpdate, StoreCall
<1>2. t \in TransferIDs /\ u.attempts \in Nat
    BY CalmFacts DEF Updates
<1>3. u.attempts <= faults'
    BY <1>1, <1>2, CalmFacts DEF FaultCounted
<1>4. CASE UNCHANGED tables
    BY <1>1, <1>4, NothingChanged
<1>5. CASE /\ Current(t, expected)
           /\ transfers' = [transfers EXCEPT ![t] = Written(transfers[t], u)]
           /\ UNCHANGED <<accounts, holds, decisions, ledgerPostings>>
  <2>1. OnlyAbout(t) /\ transfers'[t] = Written(transfers[t], u)
    BY <1>2, <1>5, CalmFacts DEF OnlyAbout
  <2>2. /\ transfers'[t].attempts = u.attempts /\ transfers'[t].status = u.status
        /\ transfers'[t].step = u.step /\ transfers[t].step = expected
    BY <1>5, <2>1 DEF Written, Current
  <2>3. Justified(t)
    BY <1>3, <1>5, <2>2 DEF Justified
  <2>. QED
    BY <1>1, <2>1, <2>3, OthersJustified
<1>. QED
    BY <1>4, <1>5 DEF CallUpdate, StoreCall, UpdateTransferSaga, store, tables

-----------------------------------------------------------------------------
(* What a worker plans under few faults *)

(* The item a worker works on, after its call. *)
Working(it) == it \in Items /\ it.id \in Present /\ CopyCalm(it)

(* A call that failed is tried again: there were not enough faults to use  *)
(* up the attempts.                                                        *)
LEMMA RetryCalm ==
    ASSUME CalmContext, FaultCounted, NEW it, Working(it), faults' = faults + 1,
           NEW afterLedger \in BOOLEAN
    PROVE  JobCalm(Retry(it, afterLedger))' /\ Retry(it, afterLedger).upd.status = "pending"
<1>1. it \in Items /\ it.attempts \in Nat /\ it.attempts <= faults
    BY DEF Working, CopyCalm, Items
<1>2. it.attempts + 1 <= faults' /\ it.attempts < MaxAttempts /\ ~(it.attempts + 1 >= MaxAttempts)
    BY <1>1, CalmFacts DEF FaultCounted, FewFaults
<1>3. Retry(it, afterLedger) = Update(it, TryLater(it, it.attempts + 1))
    BY <1>2 DEF Retry, Exhausted
<1>4. CopyCalm(it)'
    BY CopyStays DEF Working
<1>5. JobCalm(Update(it, TryLater(it, it.attempts + 1)))'
    BY <1>2, <1>4 DEF JobCalm, Update, TryLater
<1>6. Update(it, TryLater(it, it.attempts + 1)).upd.status = "pending"
    BY DEF Update, TryLater
<1>. QED
    BY <1>3, <1>5, <1>6

LEMMA ErrorCalm ==
    ASSUME CalmContext, FaultCounted, NEW it, Working(it), NEW res, Unanswered(res),
           NEW reserved \in BOOLEAN
    PROVE  /\ JobCalm(HandleStepError(it, res, reserved))'
           /\ HandleStepError(it, res, reserved).upd.status = "pending"
<1>1. HandleStepError(it, res, reserved) = Retry(it, FALSE)
    BY DEF HandleStepError, Permanent, Unanswered
<1>2. JobCalm(Retry(it, FALSE))' /\ Retry(it, FALSE).upd.status = "pending"
    BY RetryCalm DEF Unanswered
<1>. QED
    BY <1>1, <1>2

LEMMA PlanCalm ==
    ASSUME CalmContext, FaultCounted, NEW it, Working(it)
    PROVE  /\ \A step \in Steps : JobCalm(Update(it, AdvanceTo(step)))'
           /\ it.step \in Early => \A code : JobCalm(Update(it, Failed(it, code, 0)))'
           /\ JobCalm([pc |-> "publish", item |-> it])'
           /\ it.step \in Early /\ decisions'[it.id] = "rejected" =>
                \A code : JobCalm([pc |-> "reject", item |-> it, upd |-> Failed(it, code, 0)])'
           /\ JobCalm(Idle)'
<1>1. CopyCalm(it)' /\ 0 <= faults'
    BY CopyStays, CalmFacts DEF Working
<1>. QED
    BY <1>1 DEF JobCalm, Update, AdvanceTo, Failed

-----------------------------------------------------------------------------
(* The actions under few faults *)

LEMMA TakeCalm ==
    ASSUME CalmContext, NEW w \in Workers, NEW it, NEW step, Take(w, it, step)
    PROVE  /\ Working(it) /\ it.step = step /\ it.id \in Present /\ StepFacts(it.id, step)
           /\ \A v \in Workers : queue'[v] \subseteq queue[v]
           /\ Rank[step] <= Rank[transfers[it.id].step]
<1>1. CopyCalm(it)
    BY CalmFacts DEF CalmInv, Take
<1>. QED
    BY <1>1, CalmFacts, TakeItem DEF Working, CopyCalm

LEMMA CreatedCalm ==
    ASSUME CalmContext, NEW w \in Workers, NEW it, ProcessCreated(w, it)
    PROVE  CalmInv'
<1>1. Take(w, it, "created")
    BY DEF ProcessCreated
<1>2. PICK res \in Results : CallReserve(it.id, res) /\ Goto(w, AfterReserve(it, res))
    BY DEF ProcessCreated
<1>3. /\ Working(it) /\ it.step = "created" /\ it.id \in Present
      /\ \A v \in Workers : queue'[v] \subseteq queue[v]
    BY <1>1, TakeCalm
<1>4. /\ \A u \in TransferIDs : Justified(u)
      /\ FaultCounted
      /\ Unanswered(res) \/ res = "nil" \/ Permanent(res)
    BY <1>2, <1>3, ReserveCalm
<1>5. JobCalm(AfterReserve(it, res))'
  <2>1. CASE res = "nil"
    <3>1. AfterReserve(it, res) = Update(it, AdvanceTo("funds_reserved")) /\ "funds_reserved" \in Steps
      BY <2>1 DEF AfterReserve, Steps
    <3>2. JobCalm(Update(it, AdvanceTo("funds_reserved")))'
      BY <1>3, <1>4, <3>1, PlanCalm
    <3>. QED
      BY <3>1, <3>2
  <2>2. CASE Unanswered(res)
    <3>1. AfterReserve(it, res) = HandleStepError(it, res, FALSE)
      BY <2>2 DEF AfterReserve, Unanswered
    <3>2. JobCalm(HandleStepError(it, res, FALSE))'
      BY <1>3, <1>4, <2>2, ErrorCalm
    <3>. QED
      BY <3>1, <3>2
  <2>3. CASE Permanent(res)
    <3>1. AfterReserve(it, res) = Update(it, Failed(it, res, 0)) /\ it.step \in Early
      BY <1>3, <2>3 DEF AfterReserve, HandleStepError, Permanent, Early
    <3>2. JobCalm(Update(it, Failed(it, res, 0)))'
      BY <1>3, <1>4, <3>1, PlanCalm
    <3>. QED
      BY <3>1, <3>2
  <2>. QED
    BY <1>4, <2>1, <2>2, <2>3
<1>. QED
    BY <1>2, <1>3, <1>4, <1>5, WorkerCalm

LEMMA FundsReservedCalm ==
    ASSUME CalmContext, NEW w \in Workers, NEW it, ProcessFundsReserved(w, it)
    PROVE  CalmInv'
<1>1. Take(w, it, "funds_reserved")
    BY DEF ProcessFundsReserved
<1>2. /\ Working(it) /\ it.step = "funds_reserved" /\ it.id \in Present
      /\ \A v \in Workers : queue'[v] \subseteq queue[v]
    BY <1>1, TakeCalm
<1>3. transfers[it.id].cmd \in Commands
    BY <1>2, CalmFacts, RowType
<1>4. PICK verdict \in ComplianceVerdicts(transfers[it.id].cmd) \ {"error"}, res \in Results :
         CallRecord(it.id, verdict, res) /\ Goto(w, AfterDecision(it, verdict, res))
    BY <1>3, CalmFacts DEF ProcessFundsReserved, SteadyCompliance
<1>5. verdict \in {"approved", "rejected"}
    BY <1>3, ComplianceAssumption DEF Verdicts
<1>6. /\ \A u \in TransferIDs : Justified(u)
      /\ FaultCounted
      /\ Unanswered(res) \/ (res = "nil" /\ decisions'[it.id] = verdict)
    BY <1>2, <1>4, RecordCalm
<1>7. JobCalm(AfterDecision(it, verdict, res))'
  <2>1. CASE Unanswered(res)
    <3>1. AfterDecision(it, verdict, res) = HandleStepError(it, res, TRUE)
      BY <2>1 DEF AfterDecision, Unanswered
    <3>2. JobCalm(HandleStepError(it, res, TRUE))'
      BY <1>2, <1>6, <2>1, ErrorCalm
    <3>. QED
      BY <3>1, <3>2
  <2>2. CASE res = "nil" /\ verdict = "approved"
    <3>1. /\ AfterDecision(it, verdict, res) = Update(it, AdvanceTo("compliance_approved"))
          /\ "compliance_approved" \in Steps
      BY <2>2 DEF AfterDecision, Steps
    <3>2. JobCalm(Update(it, AdvanceTo("compliance_approved")))'
      BY <1>2, <1>6, <3>1, PlanCalm
    <3>. QED
      BY <3>1, <3>2
  <2>3. CASE res = "nil" /\ verdict = "rejected"
    <3> DEFINE j == [pc |-> "reject", item |-> it, upd |-> Failed(it, "compliance_rejected", 0)]
    <3>1. AfterDecision(it, verdict, res) = j /\ it.step \in Early
      BY <1>2, <2>3 DEF AfterDecision, Early
    <3>2. decisions'[it.id] = "rejected"
      BY <1>6, <2>3 DEF Unanswered
    <3>3. JobCalm(j)'
      BY <1>2, <1>6, <3>1, <3>2, PlanCalm
    <3>. QED
      BY <3>1, <3>3
  <2>. QED
    BY <1>5, <1>6, <2>1, <2>2, <2>3
<1>. QED
    BY <1>2, <1>4, <1>6, <1>7, WorkerCalm

LEMMA ComplianceApprovedCalm ==
    ASSUME CalmContext, NEW w \in Workers, NEW it, ProcessComplianceApproved(w, it)
    PROVE  CalmInv'
<1>1. Take(w, it, "compliance_approved")
    BY DEF ProcessComplianceApproved
<1>2. PICK res \in Results : CallPost(it.id, res) /\ Goto(w, AfterPost(it, res))
    BY DEF ProcessComplianceApproved
<1>3. /\ Working(it) /\ it.id \in Present /\ StepFacts(it.id, "compliance_approved")
      /\ \A v \in Workers : queue'[v] \subseteq queue[v]
      /\ Rank["compliance_approved"] <= Rank[transfers[it.id].step]
    BY <1>1, TakeCalm
<1>4. holds[it.id] # "none" /\ transfers[it.id].step \notin Early
  <2>1. transfers[it.id].step \in Steps
    BY <1>3, RowMoves
  <2>. QED
    BY <1>3, <2>1, RankFacts DEF StepFacts
<1>5. (\A u \in TransferIDs : Justified(u)) /\ FaultCounted /\ (Unanswered(res) \/ res = "nil")
    BY <1>2, <1>3, <1>4, PostCalm
<1>6. JobCalm(AfterPost(it, res))'
  <2>1. CASE res = "nil"
    <3>1. AfterPost(it, res) = Update(it, AdvanceTo("ledger_posted")) /\ "ledger_posted" \in Steps
      BY <2>1 DEF AfterPost, Steps
    <3>2. JobCalm(Update(it, AdvanceTo("ledger_posted")))'
      BY <1>3, <1>5, <3>1, PlanCalm
    <3>. QED
      BY <3>1, <3>2
  <2>2. CASE Unanswered(res)
    <3>1. AfterPost(it, res) = HandleStepError(it, res, TRUE)
      BY <2>2 DEF AfterPost, Unanswered
    <3>2. JobCalm(HandleStepError(it, res, TRUE))'
      BY <1>3, <1>5, <2>2, ErrorCalm
    <3>. QED
      BY <3>1, <3>2
  <2>. QED
    BY <1>5, <2>1, <2>2
<1>. QED
    BY <1>2, <1>3, <1>5, <1>6, WorkerCalm

LEMMA LedgerPostedCalm ==
    ASSUME CalmContext, NEW w \in Workers, NEW it, ProcessLedgerPosted(w, it)
    PROVE  CalmInv'
<1>1. Take(w, it, "ledger_posted")
    BY DEF ProcessLedgerPosted
<1>2. PICK res \in Results : CallFinish(it.id, "captured", res) /\ Goto(w, AfterCapture(it, res))
    BY DEF ProcessLedgerPosted
<1>3. /\ Working(it) /\ it.id \in Present /\ it.id \in ledgerPostings
      /\ \A v \in Workers : queue'[v] \subseteq queue[v]
    BY <1>1, TakeCalm DEF StepFacts
<1>4. (\A u \in TransferIDs : Justified(u)) /\ FaultCounted /\ (Unanswered(res) \/ res = "nil")
    BY <1>2, <1>3, FinishCalm
<1>5. JobCalm(AfterCapture(it, res))'
  <2>1. CASE res = "nil"
    <3>1. /\ AfterCapture(it, res) = Update(it, AdvanceTo("reservation_captured"))
          /\ "reservation_captured" \in Steps
      BY <2>1 DEF AfterCapture, Steps
    <3>2. JobCalm(Update(it, AdvanceTo("reservation_captured")))'
      BY <1>3, <1>4, <3>1, PlanCalm
    <3>. QED
      BY <3>1, <3>2
  <2>2. CASE Unanswered(res)
    <3>1. AfterCapture(it, res) = Retry(it, TRUE)
      BY <2>2 DEF AfterCapture, Unanswered
    <3>2. JobCalm(Retry(it, TRUE))'
      BY <1>3, <1>4, <2>2, RetryCalm DEF Unanswered
    <3>. QED
      BY <3>1, <3>2
  <2>. QED
    BY <1>4, <2>1, <2>2
<1>. QED
    BY <1>2, <1>3, <1>4, <1>5, WorkerCalm

LEMMA ReservationCapturedCalm ==
    ASSUME CalmContext, NEW w \in Workers, NEW it, ProcessReservationCaptured(w, it)
    PROVE  CalmInv'
<1>1. Take(w, it, "reservation_captured")
    BY DEF ProcessReservationCaptured
<1>2. PICK res \in Results : CallUpdate(it.id, it.step, Completed(it), res)
                             /\ Goto(w, AfterComplete(it, res))
    BY DEF ProcessReservationCaptured
<1>3. /\ Working(it) /\ it.id \in Present
      /\ \A v \in Workers : queue'[v] \subseteq queue[v]
    BY <1>1, TakeCalm
<1>4. Completed(it) \in Updates /\ Completed(it).attempts = 0 /\ Completed(it).status # "failed"
    BY <1>3, LimitsAssumption DEF Completed, Updates, Statuses, Failures, Working, Items
<1>5. Completed(it).attempts <= faults
    BY <1>4, CalmFacts
<1>6. (\A u \in TransferIDs : Justified(u)) /\ FaultCounted
    BY <1>2, <1>3, <1>4, <1>5, UpdateCalm
<1>7. JobCalm(AfterComplete(it, res))'
  <2>1. JobCalm([pc |-> "publish", item |-> it])' /\ JobCalm(Idle)'
    BY <1>3, <1>6, PlanCalm
  <2>. QED
    BY <2>1 DEF AfterComplete
<1>. QED
    BY <1>2, <1>3, <1>6, <1>7, WorkerCalm

(* The job a worker has, when it carries an update. *)
LEMMA CarryCalm ==
    ASSUME CalmContext, NEW w \in Workers, job[w].pc \in {"reject", "release", "update"}
    PROVE  /\ job[w] # Idle /\ JobCalm(job[w]) /\ Working(job[w].item) /\ job[w].pc # "release"
           /\ job[w].item.id \in Present /\ job[w].upd \in Updates
<1>1. job[w] # Idle
    BY DEF Idle
<1>2. JobCalm(job[w])
    BY CalmFacts DEF CalmInv
<1>. QED
    BY <1>1, <1>2, CalmFacts, JobCarries DEF JobCalm, Working

LEMMA RejectCalm ==
    ASSUME CalmContext, NEW w \in Workers, RejectRelease(w)
    PROVE  CalmInv'
<1>1. PICK it, u : it = job[w].item /\ u = job[w].upd
    OBVIOUS
<1>2. /\ Working(it) /\ it.id \in Present /\ u \in Updates
      /\ job[w].pc = "reject" /\ job[w] # Idle /\ JobCalm(job[w])
    BY <1>1, CarryCalm DEF RejectRelease
<1>3. PICK res \in Results : CallFinish(it.id, "released", res) /\ Goto(w, AfterReject(it, u, res))
    BY <1>1 DEF RejectRelease
<1>4. /\ decisions[it.id] = "rejected" /\ u.attempts <= faults /\ u.attempts \in Nat
      /\ u.status = "failed" => u.step = it.step /\ u.step \in Early
    BY <1>1, <1>2 DEF JobCalm, Updates
<1>5. (\A t \in TransferIDs : Justified(t)) /\ FaultCounted /\ (Unanswered(res) \/ res = "nil")
    BY <1>2, <1>3, <1>4, FinishCalm
<1>6. JobCalm(AfterReject(it, u, res))'
  <2>1. CASE res = "nil"
    <3>1. AfterReject(it, u, res) = Update(it, u)
      BY <2>1 DEF AfterReject
    <3>2. CopyCalm(it)' /\ u.attempts <= faults'
      BY <1>2, <1>4, <1>5, CopyStays, CalmFacts DEF Working, FaultCounted
    <3>3. JobCalm(Update(it, u))'
      BY <1>4, <3>2 DEF JobCalm, Update
    <3>. QED
      BY <3>1, <3>3
  <2>2. CASE Unanswered(res)
    <3>1. AfterReject(it, u, res) = HandleStepError(it, res, TRUE)
      BY <2>2 DEF AfterReject, Unanswered
    <3>2. JobCalm(HandleStepError(it, res, TRUE))'
      BY <1>2, <1>5, <2>2, ErrorCalm
    <3>. QED
      BY <3>1, <3>2
  <2>. QED
    BY <1>5, <2>1, <2>2
<1>. QED
    BY <1>3, <1>5, <1>6, WorkerCalm DEF RejectRelease

LEMMA AdvanceActionCalm ==
    ASSUME CalmContext, NEW w \in Workers, Advance(w)
    PROVE  CalmInv'
<1>1. PICK it, u : it = job[w].item /\ u = job[w].upd
    OBVIOUS
<1>2. /\ Working(it) /\ it.id \in Present /\ u \in Updates
      /\ job[w].pc = "update" /\ job[w] # Idle /\ JobCalm(job[w])
    BY <1>1, CarryCalm DEF Advance
<1>3. PICK res \in Results : CallUpdate(it.id, it.step, u, res)
    BY <1>1 DEF Advance
<1>4. /\ u.attempts <= faults
      /\ u.status = "failed" => u.step = it.step /\ u.step \in Early
    BY <1>1, <1>2 DEF JobCalm
<1>5. (\A t \in TransferIDs : Justified(t)) /\ FaultCounted
    BY <1>2, <1>3, <1>4, UpdateCalm
<1>6. JobCalm(Idle)'
    BY DEF JobCalm
<1>. QED
    BY <1>5, <1>6, WorkerCalm DEF Advance

LEMMA StopCalm ==
    ASSUME CalmContext, NEW w \in Workers, Publish(w) \/ Crash(w)
    PROVE  CalmInv'
<1>1. FaultCounted
    BY CountedFault DEF Publish, Crash
<1>2. \A t \in TransferIDs : Justified(t)
    BY NothingChanged DEF Publish, Crash, store, tables
<1>3. JobCalm(Idle)' /\ Goto(w, Idle)
    BY DEF JobCalm, Publish, Crash
<1>4. \A v \in Workers : queue'[v] \subseteq queue[v]
    BY CalmFacts DEF Publish, Crash, TypeOK
<1>. QED
    BY <1>1, <1>2, <1>3, <1>4, WorkerCalm

(* A fetched copy is at its row's step, with its row's attempts. *)
LEMMA ListDueCalm ==
    ASSUME CalmContext, NEW w \in Workers, ListDueTransfers(w)
    PROVE  CalmInv'
<1>1. FaultCounted
    BY CountedFault DEF ListDueTransfers
<1>2. \A t \in TransferIDs : Justified(t)
    BY NothingChanged DEF ListDueTransfers, store, tables
<1>3. PICK batch \in SUBSET Due : queue' = [queue EXCEPT ![w] = {Fetch(t) : t \in batch}]
    BY DEF ListDueTransfers
<1>4. ASSUME NEW v \in Workers PROVE JobCalm(job[v])'
  <2>1. PICK j : j = job[v]
    OBVIOUS
  <2>2. j \in Jobs /\ JobSupported(j) /\ JobCalm(j) /\ job'[v] = j
    BY <2>1, CalmFacts DEF TypeOK, SagaInv, JobsSupported, CalmInv, ListDueTransfers
  <2>3. JobCalm(j)'
    BY <1>1, <2>2, JobStays
  <2>. QED
    BY <2>2, <2>3
<1>5. ASSUME NEW v \in Workers, NEW it \in queue'[v] PROVE CopyCalm(it)'
  <2>1. CASE it \in queue[v]
    <3>1. it \in Items /\ it.id \in Present /\ CopyCalm(it)
      BY <2>1, CalmFacts DEF TypeOK, SagaInv, QueuesSupported, Supported, CalmInv
    <3>. QED
      BY <1>1, <3>1, CopyStays
  <2>2. CASE it \notin queue[v]
    <3>1. v = w
      BY <1>3, <1>5, <2>2, CalmFacts DEF TypeOK
    <3>2. PICK t \in Present : it = Fetch(t)
      BY <1>3, <1>5, <3>1, CalmFacts DEF TypeOK, Due
    <3>3. RowCalm(t) /\ transfers[t].step \in Steps /\ UNCHANGED <<transfers, faults>>
      BY <3>2, CalmFacts, RowMoves DEF CalmInv, ListDueTransfers, store
    <3>. QED
      BY <3>2, <3>3, RankFacts DEF Fetch, CopyCalm, RowCalm
  <2>. QED
    BY <2>1, <2>2
<1>. QED
    BY <1>1, <1>2, <1>4, <1>5, CalmKept

(* The end of every step that is not a worker's. *)
LEMMA OutsideCalm ==
    ASSUME CalmContext, UNCHANGED local, FaultCounted, \A t \in TransferIDs : Justified(t)
    PROVE  CalmInv'
<1>1. ASSUME NEW v \in Workers PROVE JobCalm(job[v])'
  <2>1. PICK j : j = job[v]
    OBVIOUS
  <2>2. j \in Jobs /\ JobSupported(j) /\ JobCalm(j) /\ job'[v] = j
    BY <2>1, CalmFacts DEF TypeOK, SagaInv, JobsSupported, CalmInv, local
  <2>3. JobCalm(j)'
    BY <2>2, JobStays
  <2>. QED
    BY <2>2, <2>3
<1>2. ASSUME NEW v \in Workers, NEW it \in queue'[v] PROVE CopyCalm(it)'
  <2>1. it \in Items /\ it.id \in Present /\ CopyCalm(it)
    BY CalmFacts DEF TypeOK, SagaInv, QueuesSupported, Supported, CalmInv, local
  <2>. QED
    BY <2>1, CopyStays
<1>. QED
    BY <1>1, <1>2, CalmKept

LEMMA BackoffCalm ==
    ASSUME CalmContext, NEW t \in TransferIDs, BackoffElapses(t)
    PROVE  CalmInv'
<1>1. FaultCounted
    BY CountedFault DEF BackoffElapses
<1>2. /\ t \in Present /\ transfers[t] \in Rows /\ RowCalm(t)
      /\ transfers' = [transfers EXCEPT ![t].due = TRUE]
      /\ transfers[t].status = "pending"
      /\ UNCHANGED <<holds, decisions, ledgerPostings, faults>>
    BY CalmFacts, RowType DEF BackoffElapses, CalmInv
<1>3. /\ transfers'[t].attempts = transfers[t].attempts /\ transfers'[t].status = "pending"
      /\ \A u \in TransferIDs : u # t => transfers'[u] = transfers[u]
    BY <1>2, CalmFacts DEF Rows
<1>4. OnlyAbout(t) /\ Justified(t)
    BY <1>2, <1>3 DEF OnlyAbout, Justified, RowCalm
<1>5. \A u \in TransferIDs : Justified(u)
    BY <1>4, OthersJustified
<1>. QED
    BY <1>1, <1>5, OutsideCalm DEF BackoffElapses

LEMMA TransferCalm ==
    ASSUME CalmContext, NEW c \in Commands, Transfer(c)
    PROVE  CalmInv'
<1>1. FaultCounted
    BY CountedFault DEF Transfer
<1>2. PICK t \in TransferIDs : CreateTransfer(c, t)
    BY DEF Transfer
<1>3. UNCHANGED <<holds, decisions, ledgerPostings, local>>
    BY DEF Transfer
<1>4. CASE UNCHANGED transfers
  <2>1. \A u \in TransferIDs : Justified(u)
    BY <1>3, <1>4, NothingChanged DEF tables
  <2>. QED
    BY <1>1, <1>3, <2>1, OutsideCalm
<1>5. CASE transfers[t] = Absent /\ transfers' = [transfers EXCEPT ![t] = NewRow(c)]
  <2>1. OnlyAbout(t) /\ transfers'[t] = NewRow(c) /\ 0 <= faults'
    BY <1>3, <1>5, CalmFacts DEF OnlyAbout
  <2>2. /\ transfers'[t].attempts <= faults' /\ transfers'[t].status = "pending"
        /\ transfers'[t].fee = CalculateFee(transfers'[t].cmd.amount)
    <3>1. /\ NewRow(c).attempts = 0 /\ NewRow(c).status = "pending"
          /\ NewRow(c).cmd = c
      BY DEF NewRow
    <3>2. NewRow(c).fee = CalculateFee(c.amount)
      BY Zenon DEF NewRow
    <3>. QED
      BY <2>1, <3>1, <3>2
  <2>3. Justified(t)
    BY <1>3, <2>2 DEF Justified
  <2>4. \A u \in TransferIDs : Justified(u)
    BY <2>1, <2>3, OthersJustified
  <2>. QED
    BY <1>1, <1>3, <2>4, OutsideCalm
<1>. QED
    BY <1>2, <1>4, <1>5 DEF CreateTransfer

LEMMA CounterCalm ==
    ASSUME CalmContext, UNCHANGED <<tables, local, faults>>
    PROVE  CalmInv'
BY NothingChanged, CountedFault, OutsideCalm

LEMMA CalmInit == Init => CalmInv
<1>1. SUFFICES ASSUME Init PROVE CalmInv
    OBVIOUS
<1>2. Present = {}
    BY <1>1 DEF Init, Present
<1>. QED
    BY <1>1, <1>2, FaultsAssumption DEF Init, CalmInv, EffectCalm, JobCalm

LEMMA CalmNext ==
    ASSUME FewFaults, SteadyCompliance, SagaInv, MoneyInv, CalmInv, [Next]_vars
    PROVE  CalmContext /\ CalmInv'
<1>1. SagaStep /\ RowsSound /\ MoneyStep
    BY SagaNext, StepsOfMoney DEF MoneyInv
<1>2. CalmContext
    BY <1>1, RowsSoundKept DEF CalmContext
<1>3. CASE \E c \in Commands : Transfer(c)
    BY <1>2, <1>3, TransferCalm
<1>4. ASSUME NEW w \in Workers, WorkerStep(w) \/ Crash(w) PROVE CalmInv'
  <2>1. CASE ListDueTransfers(w)
    BY <1>2, <2>1, ListDueCalm
  <2>2. CASE \E it \in queue[w] : ProcessCreated(w, it)
    BY <1>2, <2>2, CreatedCalm
  <2>3. CASE \E it \in queue[w] : ProcessFundsReserved(w, it)
    BY <1>2, <2>3, FundsReservedCalm
  <2>4. CASE \E it \in queue[w] : ProcessComplianceApproved(w, it)
    BY <1>2, <2>4, ComplianceApprovedCalm
  <2>5. CASE \E it \in queue[w] : ProcessLedgerPosted(w, it)
    BY <1>2, <2>5, LedgerPostedCalm
  <2>6. CASE \E it \in queue[w] : ProcessReservationCaptured(w, it)
    BY <1>2, <2>6, ReservationCapturedCalm
  <2>7. CASE RejectRelease(w)
    BY <1>2, <2>7, RejectCalm
  <2>8. CASE FailRelease(w)
    BY <1>2, <2>8, CarryCalm DEF FailRelease
  <2>9. CASE Advance(w)
    BY <1>2, <2>9, AdvanceActionCalm
  <2>10. CASE Publish(w) \/ Crash(w)
    BY <1>2, <2>10, StopCalm
  <2>. QED
    BY <1>4, <2>1, <2>2, <2>3, <2>4, <2>5, <2>6, <2>7, <2>8, <2>9, <2>10
    DEF WorkerStep, Process
<1>5. CASE \E t \in TransferIDs : BackoffElapses(t)
    BY <1>2, <1>5, BackoffCalm
<1>6. CASE \E a \in AccountIDs, m \in CashAmounts : Deposit(a, m) \/ Withdraw(a, m)
    BY <1>2, <1>6, CounterCalm DEF Deposit, Withdraw
<1>7. CASE \E a \in AccountIDs : OpenAccount(a)
    BY <1>2, <1>7, CounterCalm DEF OpenAccount
<1>8. CASE UNCHANGED vars
    BY <1>2, <1>8, CounterCalm DEF vars, tables, local
<1>. QED
    BY <1>2, <1>3, <1>4, <1>5, <1>6, <1>7, <1>8 DEF Next

(* With fewer faults than attempts and a checker that always answers, and  *)
(* the same, no worker ever gives a transfer up once its money is held:    *)
(* Retry never exhausts the attempts, and a transfer fails before any of   *)
(* its money was posted, whatever stale copies the workers act on.         *)
THEOREM NobodyGivesUp == FewFaults /\ SteadyCompliance => (Spec => []CalmInv)
<1> SUFFICES ASSUME FewFaults, SteadyCompliance PROVE Spec => []CalmInv
    OBVIOUS
<1>1. Init => SagaInv /\ MoneyInv /\ CalmInv
    BY SagaInit, MoneyInit, CalmInit
<1>2. (SagaInv /\ MoneyInv /\ CalmInv) /\ [Next]_vars => (SagaInv /\ MoneyInv /\ CalmInv)'
    BY SagaNext, MoneyNext, CalmNext DEF SagaStep
<1>. QED
    BY <1>1, <1>2, PTL DEF Spec

-----------------------------------------------------------------------------
(* The saga is an atomic payment *)

(* The variables of the abstract specification. *)
PayOrders == [t \in TransferIDs |->
    IF transfers[t] = Absent THEN [src |-> "none"] ELSE OrderOf(transfers[t].cmd)]
PayStatus == [t \in TransferIDs |-> transfers[t].status]

LEMMA BalanceOf ==
    /\ DOMAIN Balances = AccountIDs /\ DOMAIN Balances' = AccountIDs
    /\ \A a \in AccountIDs : Balances[a] = accounts[a].balance /\ Balances'[a] = accounts'[a].balance
    /\ Balances = [a \in AccountIDs |-> Balances[a]]
    /\ Balances' = [a \in AccountIDs |-> Balances'[a]]
BY DEF Balances

LEMMA PayInStep ==
    ASSUME NEW a \in AccountIDs, NEW m \in CashAmounts \cup {OpeningDeposit},
           Balances' = [Balances EXCEPT ![a] = @ + m],
           UNCHANGED <<transfers, ledgerPostings>>
    PROVE  Atomic!PayNext
<1>1. UNCHANGED PayOrders /\ UNCHANGED PayStatus
    BY DEF PayOrders, PayStatus
<1>2. Atomic!PayIn(a, m)
    BY <1>1 DEF Atomic!PayIn, Balances, PayOrders, PayStatus
<1>. QED
    BY <1>2 DEF Atomic!PayNext

LEMMA PayOutStep ==
    ASSUME NEW a \in AccountIDs, NEW m \in CashAmounts \cup {OpeningDeposit},
           Balances[a] >= m, Balances' = [Balances EXCEPT ![a] = @ - m],
           UNCHANGED <<transfers, ledgerPostings>>
    PROVE  Atomic!PayNext
<1>1. UNCHANGED PayOrders /\ UNCHANGED PayStatus
    BY DEF PayOrders, PayStatus
<1>2. Atomic!PayOut(a, m)
    BY <1>1 DEF Atomic!PayOut, Balances, PayOrders, PayStatus
<1>. QED
    BY <1>2 DEF Atomic!PayNext

LEMMA PayStep ==
    ASSUME NEW t \in TransferIDs, PayStatus[t] = "pending", t \notin ledgerPostings,
           Balances[PayOrders[t].src] >= PayOrders[t].amount + PayOrders[t].fee,
           Balances' = [Balances EXCEPT ![PayOrders[t].src] = @ - (PayOrders[t].amount + PayOrders[t].fee),
                                        ![PayOrders[t].dst] = @ + PayOrders[t].amount],
           ledgerPostings' = ledgerPostings \cup {t}, UNCHANGED transfers
    PROVE  Atomic!PayNext
<1>1. UNCHANGED PayOrders /\ UNCHANGED PayStatus
    BY DEF PayOrders, PayStatus
<1>2. Atomic!Pay(t)
    BY <1>1 DEF Atomic!Pay, Balances, PayOrders, PayStatus
<1>. QED
    BY <1>2 DEF Atomic!PayNext

LEMMA EndStep ==
    ASSUME NEW t \in TransferIDs, NEW end \in {"completed", "failed"},
           PayStatus[t] = "pending", (t \in ledgerPostings) <=> (end = "completed"),
           PayStatus' = [PayStatus EXCEPT ![t] = end],
           UNCHANGED <<Balances, PayOrders, ledgerPostings>>
    PROVE  Atomic!PayNext
<1>1. CASE end = "completed"
  <2>1. Atomic!Complete(t)
    BY <1>1 DEF Atomic!Complete, Balances, PayOrders, PayStatus
  <2>. QED
    BY <2>1 DEF Atomic!PayNext
<1>2. CASE end = "failed"
  <2>1. Atomic!Fail(t)
    BY <1>2 DEF Atomic!Fail, Balances, PayOrders, PayStatus
  <2>. QED
    BY <2>1 DEF Atomic!PayNext
<1>. QED
    BY <1>1, <1>2

LEMMA AcceptStep ==
    ASSUME NEW t \in TransferIDs, NEW c \in Commands, PayStatus[t] = "absent",
           PayStatus' = [PayStatus EXCEPT ![t] = "pending"],
           PayOrders' = [PayOrders EXCEPT ![t] = OrderOf(c)],
           UNCHANGED <<Balances, ledgerPostings>>
    PROVE  Atomic!PayNext
<1>1. Atomic!Accept(t)
    BY DEF Atomic!Accept, Balances, PayOrders, PayStatus
<1>. QED
    BY <1>1 DEF Atomic!PayNext

LEMMA PayStutter ==
    ASSUME UNCHANGED <<Balances, PayOrders, PayStatus, ledgerPostings>>
    PROVE  UNCHANGED Atomic!payVars
BY DEF Atomic!payVars, Balances, PayOrders, PayStatus

(* A step writes one row at most. *)
WritesOneRow ==
    \/ UNCHANGED transfers
    \/ \E t \in TransferIDs : \E row : transfers' = [transfers EXCEPT ![t] = row]

LEMMA OneRow ==
    ASSUME SagaInv, [Next]_vars
    PROVE  WritesOneRow
<1>1. ASSUME NEW u \in TransferIDs, NEW expected, NEW upd, NEW res,
             CallUpdate(u, expected, upd, res)
      PROVE  WritesOneRow
    BY <1>1 DEF WritesOneRow, CallUpdate, StoreCall, UpdateTransferSaga, store
<1>2. \A w \in Workers : \A it \in queue[w] : it.id \in TransferIDs
    BY DEF SagaInv, TypeOK, Items
<1>3. CASE UNCHANGED transfers
    BY <1>3 DEF WritesOneRow
<1>4. ASSUME NEW w \in Workers, WorkerStep(w) \/ Crash(w) PROVE WritesOneRow
  <2>1. ASSUME NEW it \in queue[w], ProcessReservationCaptured(w, it) PROVE WritesOneRow
    BY <1>1, <1>2, <2>1 DEF ProcessReservationCaptured
  <2>2. ASSUME Advance(w) PROVE WritesOneRow
    <3>1. job[w].item.id \in TransferIDs
      BY <2>2, JobCarries DEF Advance, Present
    <3>. QED
      BY <1>1, <2>2, <3>1 DEF Advance
  <2>3. ASSUME NEW it \in queue[w], ProcessCreated(w, it) PROVE UNCHANGED transfers
    BY <2>3 DEF ProcessCreated, CallReserve, StoreCall, ReserveTransferFunds, store
  <2>4. ASSUME NEW it \in queue[w], ProcessFundsReserved(w, it) PROVE UNCHANGED transfers
    BY <2>4 DEF ProcessFundsReserved, CallRecord, StoreCall, RecordComplianceDecision, store
  <2>5. ASSUME NEW it \in queue[w], ProcessComplianceApproved(w, it) PROVE UNCHANGED transfers
    BY <2>5 DEF ProcessComplianceApproved, CallPost, StoreCall, PostTransferLedger, store
  <2>6. ASSUME NEW it \in queue[w], ProcessLedgerPosted(w, it) PROVE UNCHANGED transfers
    BY <2>6 DEF ProcessLedgerPosted, CallFinish, StoreCall, FinishReservation, store
  <2>7. ASSUME ListDueTransfers(w) \/ Publish(w) \/ Crash(w) PROVE UNCHANGED transfers
    BY <2>7 DEF ListDueTransfers, Publish, Crash, store
  <2>8. ASSUME RejectRelease(w) \/ FailRelease(w) PROVE UNCHANGED transfers
    BY <2>8 DEF RejectRelease, FailRelease, CallFinish, StoreCall, FinishReservation, store
  <2>. QED
    BY <1>3, <1>4, <2>1, <2>2, <2>3, <2>4, <2>5, <2>6, <2>7, <2>8 DEF WorkerStep, Process
<1>5. ASSUME NEW u \in TransferIDs, BackoffElapses(u) PROVE WritesOneRow
    BY <1>5 DEF BackoffElapses, WritesOneRow
<1>6. ASSUME NEW c \in Commands, Transfer(c) PROVE WritesOneRow
    BY <1>6 DEF Transfer, CreateTransfer, WritesOneRow
<1>7. CASE \E a \in AccountIDs, m \in CashAmounts : Deposit(a, m) \/ Withdraw(a, m)
    BY <1>3, <1>7 DEF Deposit, Withdraw, tables
<1>8. CASE \E a \in AccountIDs : OpenAccount(a)
    BY <1>3, <1>8 DEF OpenAccount, tables
<1>9. CASE UNCHANGED vars
    BY <1>3, <1>9 DEF vars
<1>. QED
    BY <1>4, <1>5, <1>6, <1>7, <1>8, <1>9 DEF Next

(* What every step of the refinement may assume. *)
PayContext == CalmContext /\ MoneyInv /\ CalmInv'

(* Nothing was posted on a released hold, so every account covers its open *)
(* holds.                                                                  *)
LEMMA OpenHoldsCovered ==
    ASSUME SagaInv, MoneyInv, CalmInv, NEW a \in AccountIDs
    PROVE  /\ accounts[a].balance >= Amount(OpenHolds(a) \ ledgerPostings)
           /\ accounts[a].reserved = Amount(OpenHolds(a))
           /\ Amount(OpenHolds(a)) \in Nat
           /\ Amount(OpenHolds(a) \ ledgerPostings) \in Nat
<1>1. TypeOK /\ ledgerPostings \subseteq TransferIDs
    BY DEF SagaInv, TypeOK
<1>2. \A t \in ledgerPostings : holds[t] # "released"
    BY <1>1 DEF CalmInv, EffectCalm, SagaInv, PostedAfterApproval
<1>3. OpenHolds(a) \in SUBSET Present
    BY DEF OpenHolds
<1>. QED
    BY <1>1, <1>2, <1>3, Amounts
    DEF MoneyInv, CoveredUnlessPostedOnReleasedHold, HoldsMatchReserved, Amount

LEMMA Covered ==
    ASSUME PayContext, NEW a \in AccountIDs
    PROVE  /\ accounts[a].balance >= Amount(OpenHolds(a) \ ledgerPostings)
           /\ accounts[a].reserved = Amount(OpenHolds(a))
           /\ Amount(OpenHolds(a)) \in Nat
BY OpenHoldsCovered, CalmFacts DEF PayContext

(* A posting is a payment: the transfer is pending, and the money there. *)
LEMMA PostingPays ==
    ASSUME PayContext, NEW t \in Present, Posting(t)
    PROVE  Atomic!PayNext
<1>1. /\ t \in TransferIDs /\ Source(t) \in AccountIDs /\ Target(t) \in AccountIDs
      /\ Source(t) # Target(t) /\ transfers[t].cmd.amount \in Nat /\ Total(t) \in Nat
    BY CalmFacts, RowFacts DEF PayContext, RowsSound
<1>2. /\ t \notin ledgerPostings /\ holds[t] # "none"
      /\ ledgerPostings' = ledgerPostings \cup {t} /\ UNCHANGED <<transfers, holds>>
    BY DEF Posting
<1>3. transfers[t].step \notin Early
  <2>1. t \in Present' /\ RowCalm(t)'
    BY CalmFacts, RowMoves DEF PayContext, CalmInv
  <2>. QED
    BY <1>2, <2>1 DEF RowCalm
<1>4. transfers[t].status = "pending"
  <2>1. transfers[t].status # "failed"
    BY <1>3, CalmFacts DEF PayContext, CalmInv, RowCalm
  <2>2. transfers[t].status # "completed"
    BY <1>2, CalmFacts DEF PayContext, SagaInv, RowsSupported, StepFacts
  <2>. QED
    BY <2>1, <2>2, CalmFacts, RowType DEF PayContext, Rows, Statuses
<1>5. holds[t] = "reserved"
  <2>1. decisions'[t] = "approved"
    BY <1>1, <1>2 DEF PayContext, CalmContext, SagaStep, SagaInv, PostedAfterApproval
  <2>2. holds[t] # "released"
    BY <1>1, <2>1, CalmFacts DEF PayContext, CalmInv, EffectCalm, EffectsKept
  <2>3. holds[t] # "captured"
    BY <1>1, <1>2, CalmFacts DEF PayContext, PostedAfterApproval
  <2>. QED
    BY <1>1, <1>2, <2>2, <2>3, CalmFacts DEF PayContext
<1>6. accounts[Source(t)].balance >= Total(t)
  <2> DEFINE S == OpenHolds(Source(t)) \ ledgerPostings
  <2>1. t \in S /\ S \in SUBSET Present /\ S \ {t} \in SUBSET Present
    BY <1>2, <1>5 DEF OpenHolds, Source
  <2>2. Amount(S) = Amount(S \ {t}) + Total(t) /\ Amount(S \ {t}) \in Nat /\ Amount(S) \in Nat
    BY <2>1, CalmFacts, Amounts DEF PayContext
  <2>3. accounts[Source(t)].balance >= Amount(S) /\ accounts[Source(t)].balance \in Int
    BY <1>1, Covered, CalmFacts DEF PayContext, Accounts
  <2>. HIDE DEF S
  <2>. QED
    BY <1>1, <2>2, <2>3
<1>7. /\ PayOrders[t].src = Source(t) /\ PayOrders[t].dst = Target(t)
      /\ PayOrders[t].amount = transfers[t].cmd.amount
      /\ PayOrders[t].amount + PayOrders[t].fee = Total(t)
  <2>1. transfers[t] # Absent /\ transfers[t].fee = CalculateFee(transfers[t].cmd.amount)
    BY CalmFacts DEF PayContext, CalmInv, RowCalm, Present
  <2>2. PayOrders[t] = OrderOf(transfers[t].cmd)
    BY <1>1, <2>1 DEF PayOrders
  <2>. QED
    BY <2>1, <2>2 DEF OrderOf, Source, Target, Total
<1>8. Balances' = [Balances EXCEPT ![PayOrders[t].src] = @ - (PayOrders[t].amount + PayOrders[t].fee),
                                   ![PayOrders[t].dst] = @ + PayOrders[t].amount]
    BY <1>1, <1>7, BalanceOf DEF Posting
<1>9. PayStatus[t] = "pending" /\ Balances[Source(t)] = accounts[Source(t)].balance
    BY <1>1, <1>4 DEF PayStatus, Balances
<1>. QED
    BY <1>1, <1>2, <1>6, <1>7, <1>8, <1>9, PayStep

LEMMA CounterPays ==
    ASSUME PayContext, NEW a \in AccountIDs, NEW m \in Int, AtCounter(a, m)
    PROVE  Atomic!PayNext
<1>1. /\ accounts[a].balance \in Int /\ accounts[a].reserved \in Nat /\ CashAmounts \subseteq Nat
      /\ \A b \in AccountIDs : accounts[b].balance \in Int
    BY Covered, CalmFacts, MoneyAssumption DEF PayContext, Accounts
<1>2. Adjusted(a, m, 0) /\ UNCHANGED <<transfers, ledgerPostings>>
    BY DEF AtCounter
<1>3. CASE m \in CashAmounts
  <2>1. Balances' = [Balances EXCEPT ![a] = @ + m]
    BY <1>1, <1>2, BalanceOf DEF Adjusted
  <2>. QED
    BY <1>2, <1>3, <2>1, PayInStep
<1>4. CASE -m \in CashAmounts
  <2>1. Balances' = [Balances EXCEPT ![a] = @ - (-m)]
    BY <1>1, <1>2, BalanceOf DEF Adjusted
  <2>2. CASE m >= 0
    <3>1. m = 0 /\ -m = 0
      BY <1>1, <1>4, <2>2
    <3>2. Balances' = [Balances EXCEPT ![a] = @ + (-m)]
      BY <1>1, <1>2, <3>1, BalanceOf DEF Adjusted
    <3>. QED
      BY <1>2, <1>4, <3>2, PayInStep
  <2>3. CASE AvailableBalance(accounts[a]) + m >= 0
    <3>1. Balances[a] >= -m
      BY <1>1, <2>3 DEF AvailableBalance, Balances
    <3>. QED
      BY <1>2, <1>4, <2>1, <3>1, PayOutStep
  <2>. QED
    BY <2>2, <2>3 DEF AtCounter
<1>. QED
    BY <1>3, <1>4 DEF AtCounter

LEMMA OpeningPays ==
    ASSUME PayContext, NEW a \in AccountIDs, Opening(a)
    PROVE  Atomic!PayNext
<1>1. accounts[a].balance = 0 /\ OpeningDeposit \in Nat
    BY MoneyAssumption DEF PayContext, MoneyInv, UnopenedEmpty, Opening
<1>2. Balances' = [Balances EXCEPT ![a] = @ + OpeningDeposit]
    BY <1>1, BalanceOf DEF Opening
<1>. QED
    BY <1>2, PayInStep DEF Opening

(* A hold moves no money. *)
LEMMA HoldsPayNothing ==
    ASSUME PayContext, NEW t \in Present,
           Reserving(t) \/ Closing(t, "captured") \/ Closing(t, "released")
    PROVE  UNCHANGED Atomic!payVars
<1>1. \A a \in AccountIDs : accounts[a].balance \in Int
    BY CalmFacts DEF PayContext, Accounts
<1>2. PICK r : Adjusted(Source(t), 0, r)
    BY DEF Reserving, Closing
<1>3. UNCHANGED <<transfers, ledgerPostings>>
    BY DEF Reserving, Closing
<1>4. \A a \in AccountIDs : accounts'[a].balance = accounts[a].balance
    BY <1>1, <1>2 DEF Adjusted
<1>5. UNCHANGED Balances
    BY <1>4 DEF Balances
<1>. QED
    BY <1>3, <1>5, PayStutter DEF PayOrders, PayStatus

(* Of the rest, only a new row, a completion and a failure are seen. *)
LEMMA RowPays ==
    ASSUME PayContext, [Next]_vars, Quiet
    PROVE  Atomic!PayNext \/ UNCHANGED Atomic!payVars
<1>1. UNCHANGED <<Balances, ledgerPostings>>
    BY DEF Quiet, Balances
<1>2. CASE UNCHANGED transfers
    BY <1>1, <1>2, PayStutter DEF PayOrders, PayStatus
<1>3. ASSUME NEW t \in TransferIDs, NEW row, transfers' = [transfers EXCEPT ![t] = row]
      PROVE  Atomic!PayNext \/ UNCHANGED Atomic!payVars
  <2>1. /\ DOMAIN transfers = TransferIDs
        /\ transfers'[t] = row /\ \A u \in TransferIDs : u # t => transfers'[u] = transfers[u]
    BY <1>3, CalmFacts DEF PayContext
  <2>2. /\ PayOrders' = [PayOrders EXCEPT ![t] = IF row = Absent THEN [src |-> "none"]
                                                 ELSE OrderOf(row.cmd)]
        /\ PayStatus' = [PayStatus EXCEPT ![t] = row.status]
        /\ PayStatus[t] = transfers[t].status
    BY <2>1 DEF PayOrders, PayStatus
  <2>3. CASE t \in Present
    <3>1. /\ row # Absent /\ row.cmd = transfers[t].cmd /\ t \in Present'
          /\ transfers[t].status # "pending" => row = transfers[t]
      BY <2>1, <2>3, RowMoves DEF PayContext, Present
    <3>2. UNCHANGED PayOrders
      BY <2>1, <2>3, <3>1 DEF PayOrders, Present
    <3>3. CASE row.status = transfers[t].status
      <4>1. UNCHANGED PayStatus
        BY <2>1, <3>3 DEF PayStatus
      <4>. QED
        BY <1>1, <3>2, <4>1, PayStutter
    <3>4. CASE row.status # transfers[t].status
      <4>1. transfers[t].status = "pending" /\ row.status \in {"completed", "failed"}
        <5>1. row \in Rows
          BY <2>1, <3>1, CalmFacts DEF PayContext, TypeOK
        <5>. QED
          BY <3>1, <3>4, <5>1 DEF Rows, Statuses
      <4>2. RowCalm(t)' /\ (row.status = "completed" => t \in ledgerPostings')
        BY <2>1, <3>1 DEF PayContext, CalmContext, CalmInv, SagaStep, SagaInv, RowsSupported, StepFacts
      <4>3. (t \in ledgerPostings) <=> (row.status = "completed")
        BY <1>1, <2>1, <4>1, <4>2 DEF RowCalm
      <4>. QED
        BY <1>1, <2>2, <3>2, <4>1, <4>3, EndStep
    <3>. QED
      BY <3>3, <3>4
  <2>4. CASE t \notin Present
    <3>1. transfers[t] = Absent /\ PayStatus[t] = "absent"
      BY <2>2, <2>4 DEF Present, Absent
    <3>2. CASE row = Absent
      BY <1>2, <1>3, <2>1, <3>1, <3>2, CalmFacts DEF PayContext
    <3>3. CASE row # Absent
      <4>1. PICK c \in Commands : Accepts(c, t)
        BY <2>1, <2>4, <3>3, RowsAppear, CalmFacts DEF PayContext, Present
      <4>2. row = NewRow(c) /\ row.cmd = c
        BY <2>1, <4>1 DEF Accepts
      <4>3. row.status = "pending"
        BY <4>2 DEF NewRow
      <4>4. PayOrders' = [PayOrders EXCEPT ![t] = OrderOf(c)] /\ PayStatus' = [PayStatus EXCEPT ![t] = "pending"]
        BY <2>2, <3>3, <4>2, <4>3
      <4>. QED
        BY <1>1, <3>1, <4>4, AcceptStep
    <3>. QED
      BY <3>2, <3>3
  <2>. QED
    BY <2>3, <2>4
<1>4. WritesOneRow
    BY OneRow, CalmFacts DEF PayContext
<1>. QED
    BY <1>2, <1>3, <1>4 DEF WritesOneRow

LEMMA StepsPay ==
    ASSUME FewFaults, SteadyCompliance, SagaInv, MoneyInv, CalmInv, [Next]_vars
    PROVE  [Atomic!PayNext]_(Atomic!payVars)
<1>1. PayContext /\ MoneyStep
    BY CalmNext DEF PayContext, CalmContext
<1>2. CASE Quiet
    BY <1>1, <1>2, RowPays
<1>3. ASSUME NEW a \in AccountIDs, Opening(a) \/ \E m \in Int : AtCounter(a, m)
      PROVE  Atomic!PayNext
    BY <1>1, <1>3, OpeningPays, CounterPays
<1>4. ASSUME NEW t \in Present, Posting(t) PROVE Atomic!PayNext
    BY <1>1, <1>4, PostingPays
<1>5. ASSUME NEW t \in Present, Reserving(t) \/ Closing(t, "captured") \/ Closing(t, "released")
      PROVE  UNCHANGED Atomic!payVars
    BY <1>1, <1>5, HoldsPayNothing
<1>. QED
    BY <1>1, <1>2, <1>3, <1>4, <1>5 DEF MoneyStep

LEMMA PaysInit == Init => Atomic!PayInit
<1>1. SUFFICES ASSUME Init PROVE Atomic!PayInit
    OBVIOUS
<1>2. \A a \in AccountIDs :
        accounts[a].balance = IF a \in DOMAIN SeedBalances THEN SeedBalances[a] ELSE 0
    BY <1>1, SeedAccounts
<1>3. \A t \in TransferIDs : transfers[t] = Absent /\ transfers[t].status = "absent"
    BY <1>1 DEF Init, Absent
<1>4. ledgerPostings = {}
    BY <1>1 DEF Init
<1>. QED
    BY <1>2, <1>3, <1>4 DEF Atomic!PayInit, Atomic!NoOrder

(* With fewer faults than attempts and a steady checker the saga, with its *)
(* holds, retries, crashes and any number of workers on stale copies,      *)
(* implements one atomic payment per transfer: money moves once, out of    *)
(* money that is there, and never for a transfer that fails.               *)
THEOREM PaymentsAreAtomic == FewFaults /\ SteadyCompliance => (Spec => ImplementsAtomicPayments)
<1> SUFFICES ASSUME FewFaults, SteadyCompliance PROVE Spec => ImplementsAtomicPayments
    OBVIOUS
<1>1. SagaInv /\ MoneyInv /\ CalmInv /\ [Next]_vars => [Atomic!PayNext]_(Atomic!payVars)
    BY StepsPay
<1>2. Spec => []CalmInv
    BY NobodyGivesUp
<1>. QED
    BY <1>1, <1>2, PaysInit, SagaInvariant, MoneyInvariant, PTL
    DEF Spec, ImplementsAtomicPayments, Atomic!PaySpec

(* With fewer faults than attempts and a steady checker no account is ever *)
(* overdrawn: the interleaving in which a released hold is posted needs a  *)
(* transfer that runs out of attempts, or a checker that changes its mind. *)
THEOREM NobodyIsOverdrawn == FewFaults /\ SteadyCompliance => (Spec => []NoOverdraft)
<1> SUFFICES ASSUME FewFaults, SteadyCompliance PROVE Spec => []NoOverdraft
    OBVIOUS
<1>1. ASSUME SagaInv, MoneyInv, CalmInv PROVE NoOverdraft
  <2>1. SUFFICES ASSUME NEW a \in AccountIDs PROVE accounts[a].balance >= 0
    BY DEF NoOverdraft
  <2>2. accounts[a].balance \in Int
    BY <1>1 DEF SagaInv, TypeOK, StoreTypeOK, Accounts
  <2>3. PICK n \in Nat : accounts[a].balance >= n
    BY <1>1, OpenHoldsCovered
  <2>. QED
    BY <2>2, <2>3
<1>2. Spec => []CalmInv
    BY NobodyGivesUp
<1>. QED
    BY <1>1, <1>2, SagaInvariant, MoneyInvariant, PTL

-----------------------------------------------------------------------------
(* One worker: its copies are fresh *)

FreshWorker(w) ==
    /\ \A it \in queue[w] : transfers[it.id].status = "pending"
    /\ \A it, other \in queue[w] : it.id = other.id => it = other
    /\ job[w] # Idle => \A it \in queue[w] : it.id # job[w].item.id
    /\ job[w].pc = "update" /\ job[w].upd.status = "failed" => holds[job[w].item.id] # "reserved"

FreshInv == FailedMeansReleased /\ \A w \in Workers : FreshWorker(w)

FreshContext == OneWorker /\ CalmContext /\ FreshInv

LEMMA FreshFacts ==
    ASSUME FreshContext, NEW w \in Workers
    PROVE  /\ CalmContext /\ FailedMeansReleased /\ FreshWorker(w) /\ \A v \in Workers : v = w
           /\ job \in [Workers -> Jobs] /\ queue \in [Workers -> SUBSET Items]
           /\ \A it \in queue[w] : it.id \in Present
BY CalmFacts DEF FreshContext, FreshInv, OneWorker, TypeOK, SagaInv, QueuesSupported, Supported

(* The end of a step of the worker on transfer t, which is not in its      *)
(* queue any more.                                                         *)
LEMMA FreshKept ==
    ASSUME FreshContext, NEW w \in Workers, NEW t \in Present, OnlyAbout(t),
           queue'[w] \subseteq queue[w], \A it \in queue'[w] : it.id # t,
           NEW j, Goto(w, j), j # Idle => j.item.id = t,
           j.pc = "update" /\ j.upd.status = "failed" => holds'[t] # "reserved",
           transfers'[t].status = "failed" => holds'[t] # "reserved"
    PROVE  FreshInv'
<1>1. /\ CalmContext /\ FailedMeansReleased /\ FreshWorker(w) /\ \A v \in Workers : v = w
      /\ \A it \in queue[w] : it.id \in TransferIDs
    BY FreshFacts DEF Present
<1>2. job'[w] = j
    BY FreshFacts DEF Goto
<1>3. FailedMeansReleased'
  <2>1. \A u \in Present' : u # t => u \in Present /\ transfers'[u] = transfers[u] /\ holds'[u] = holds[u]
    BY DEF OnlyAbout, Present
  <2>. QED
    BY <1>1, <2>1 DEF FailedMeansReleased
<1>4. \A it \in queue'[w] : transfers'[it.id].status = "pending"
    BY <1>1 DEF FreshWorker, OnlyAbout
<1>5. FreshWorker(w)'
  <2>1. \A it, other \in queue'[w] : it.id = other.id => it = other
    BY <1>1 DEF FreshWorker
  <2>2. j.pc = "update" => j # Idle
    BY DEF Idle
  <2>. QED
    BY <1>2, <1>4, <2>1, <2>2 DEF FreshWorker
<1>. QED
    BY <1>1, <1>3, <1>5 DEF FreshInv

(* The item the worker takes was the only copy of its row, and the row is  *)
(* still pending.                                                          *)
LEMMA TakeFresh ==
    ASSUME FreshContext, NEW w \in Workers, NEW it, NEW step, Take(w, it, step)
    PROVE  /\ it \in Items /\ it.id \in Present /\ Working(it) /\ transfers[it.id].status = "pending"
           /\ queue'[w] \subseteq queue[w] /\ \A other \in queue'[w] : other.id # it.id
<1>1. Working(it) /\ it.id \in Present /\ it \in queue[w] /\ it \in Items
    BY FreshFacts, TakeCalm DEF Take, Working
<1>2. queue'[w] = queue[w] \ {it}
    BY FreshFacts DEF Take
<1>. QED
    BY <1>1, <1>2, FreshFacts DEF FreshWorker

(* Rows are left alone by all calls but the update. *)
LEMMA WorkFresh ==
    ASSUME FreshContext, NEW w \in Workers, NEW it, NEW step, Take(w, it, step),
           OnlyAbout(it.id), UNCHANGED transfers, NEW j, Goto(w, j), j.item = it,
           j.pc = "update" /\ j.upd.status = "failed" => holds'[it.id] # "reserved"
    PROVE  FreshInv'
<1>1. /\ it.id \in Present /\ transfers[it.id].status = "pending"
      /\ queue'[w] \subseteq queue[w] /\ \A other \in queue'[w] : other.id # it.id
    BY TakeFresh
<1>. QED
    BY <1>1, FreshKept

LEMMA CreatedFresh ==
    ASSUME FreshContext, NEW w \in Workers, NEW it, ProcessCreated(w, it)
    PROVE  FreshInv'
<1>1. Take(w, it, "created")
    BY DEF ProcessCreated
<1>2. PICK res \in Results : CallReserve(it.id, res) /\ Goto(w, AfterReserve(it, res))
    BY DEF ProcessCreated
<1>3. CalmContext /\ it.id \in Present /\ it \in Items /\ Working(it)
    BY <1>1, TakeFresh, FreshFacts
<1>4. /\ OnlyAbout(it.id) /\ FaultCounted
      /\ Unanswered(res) \/ res = "nil" \/ (Permanent(res) /\ holds[it.id] = "none" /\ UNCHANGED holds)
    BY <1>2, <1>3, ReserveCalm
<1>5. UNCHANGED transfers
    BY <1>2 DEF CallReserve, StoreCall, ReserveTransferFunds, store
<1>6. AfterReserve(it, res).item = it
  <2>1. res # "nil" => HandleStepError(it, res, FALSE).item = it
    BY <1>2, <1>3, HandleStepErrorPlans DEF Plans
  <2>. QED
    BY <2>1 DEF AfterReserve, Update
<1>7. AfterReserve(it, res).upd.status = "failed" => holds'[it.id] # "reserved"
  <2>1. CASE res = "nil"
    BY <2>1 DEF AfterReserve, Update, AdvanceTo
  <2>2. CASE Unanswered(res)
    <3>1. HandleStepError(it, res, FALSE).upd.status = "pending"
      BY <1>3, <1>4, <2>2, ErrorCalm
    <3>. QED
      BY <2>2, <3>1 DEF AfterReserve, Unanswered
  <2>3. CASE holds[it.id] = "none" /\ UNCHANGED holds
    BY <2>3
  <2>. QED
    BY <1>4, <2>1, <2>2, <2>3
<1>. QED
    BY <1>1, <1>2, <1>4, <1>5, <1>6, <1>7, WorkFresh

LEMMA FundsReservedFresh ==
    ASSUME FreshContext, NEW w \in Workers, NEW it, ProcessFundsReserved(w, it)
    PROVE  FreshInv'
<1>1. Take(w, it, "funds_reserved")
    BY DEF ProcessFundsReserved
<1>2. CalmContext /\ it.id \in Present /\ it \in Items /\ Working(it) /\ transfers[it.id].cmd \in Commands
    BY <1>1, TakeFresh, FreshFacts, CalmFacts, RowType
<1>3. PICK verdict \in ComplianceVerdicts(transfers[it.id].cmd) \ {"error"}, res \in Results :
         CallRecord(it.id, verdict, res) /\ Goto(w, AfterDecision(it, verdict, res))
    BY <1>2, CalmFacts DEF ProcessFundsReserved, SteadyCompliance
<1>4. OnlyAbout(it.id) /\ FaultCounted /\ (Unanswered(res) \/ res = "nil")
    BY <1>2, <1>3, RecordCalm
<1>5. UNCHANGED transfers
    BY <1>3 DEF CallRecord, StoreCall, RecordComplianceDecision, store
<1>6. AfterDecision(it, verdict, res).item = it
  <2>1. res # "nil" => HandleStepError(it, res, TRUE).item = it
    BY <1>2, <1>3, HandleStepErrorPlans DEF Plans
  <2>. QED
    BY <2>1 DEF AfterDecision, Update
<1>7. LET j == AfterDecision(it, verdict, res) IN ~(j.pc = "update" /\ j.upd.status = "failed")
  <2>1. CASE res = "nil"
    BY <2>1 DEF AfterDecision, Update, AdvanceTo
  <2>2. CASE Unanswered(res)
    <3>1. HandleStepError(it, res, TRUE).upd.status = "pending"
      BY <1>2, <1>4, <2>2, ErrorCalm
    <3>. QED
      BY <2>2, <3>1 DEF AfterDecision, Unanswered
  <2>. QED
    BY <1>4, <2>1, <2>2
<1>. QED
    BY <1>1, <1>3, <1>4, <1>5, <1>6, <1>7, WorkFresh

LEMMA ComplianceApprovedFresh ==
    ASSUME FreshContext, NEW w \in Workers, NEW it, ProcessComplianceApproved(w, it)
    PROVE  FreshInv'
<1>1. Take(w, it, "compliance_approved")
    BY DEF ProcessComplianceApproved
<1>2. PICK res \in Results : CallPost(it.id, res) /\ Goto(w, AfterPost(it, res))
    BY DEF ProcessComplianceApproved
<1>3. /\ CalmContext /\ it.id \in Present /\ it \in Items /\ Working(it)
      /\ StepFacts(it.id, "compliance_approved")
      /\ Rank["compliance_approved"] <= Rank[transfers[it.id].step]
    BY <1>1, TakeFresh, TakeCalm, FreshFacts
<1>4. holds[it.id] # "none" /\ transfers[it.id].step \notin Early
  <2>1. transfers[it.id].step \in Steps
    BY <1>3, RowMoves
  <2>. QED
    BY <1>3, <2>1, RankFacts DEF StepFacts
<1>5. OnlyAbout(it.id) /\ FaultCounted /\ (Unanswered(res) \/ res = "nil")
    BY <1>2, <1>3, <1>4, PostCalm
<1>6. UNCHANGED transfers
    BY <1>2 DEF CallPost, StoreCall, PostTransferLedger, store
<1>7. AfterPost(it, res).item = it
  <2>1. res # "nil" => HandleStepError(it, res, TRUE).item = it
    BY <1>2, <1>3, HandleStepErrorPlans DEF Plans
  <2>. QED
    BY <2>1 DEF AfterPost, Update
<1>8. AfterPost(it, res).upd.status # "failed"
  <2>1. CASE res = "nil"
    BY <2>1 DEF AfterPost, Update, AdvanceTo
  <2>2. CASE Unanswered(res)
    <3>1. HandleStepError(it, res, TRUE).upd.status = "pending"
      BY <1>3, <1>5, <2>2, ErrorCalm
    <3>. QED
      BY <2>2, <3>1 DEF AfterPost, Unanswered
  <2>. QED
    BY <1>5, <2>1, <2>2
<1>. QED
    BY <1>1, <1>2, <1>5, <1>6, <1>7, <1>8, WorkFresh

LEMMA LedgerPostedFresh ==
    ASSUME FreshContext, NEW w \in Workers, NEW it, ProcessLedgerPosted(w, it)
    PROVE  FreshInv'
<1>1. Take(w, it, "ledger_posted")
    BY DEF ProcessLedgerPosted
<1>2. PICK res \in Results : CallFinish(it.id, "captured", res) /\ Goto(w, AfterCapture(it, res))
    BY DEF ProcessLedgerPosted
<1>3. /\ CalmContext /\ it.id \in Present /\ it \in Items /\ Working(it) /\ it.id \in ledgerPostings
    BY <1>1, TakeFresh, TakeCalm, FreshFacts DEF StepFacts
<1>4. OnlyAbout(it.id) /\ FaultCounted /\ (Unanswered(res) \/ res = "nil")
    BY <1>2, <1>3, FinishCalm
<1>5. UNCHANGED transfers
    BY <1>2 DEF CallFinish, StoreCall, FinishReservation, store
<1>6. AfterCapture(it, res).item = it
  <2>1. Retry(it, TRUE).item = it
    BY <1>3, RetryPlans DEF Plans
  <2>. QED
    BY <2>1 DEF AfterCapture, Update
<1>7. AfterCapture(it, res).upd.status # "failed"
  <2>1. CASE res = "nil"
    BY <2>1 DEF AfterCapture, Update, AdvanceTo
  <2>2. CASE Unanswered(res)
    <3>1. Retry(it, TRUE).upd.status = "pending"
      BY <1>3, <1>4, <2>2, RetryCalm DEF Unanswered
    <3>. QED
      BY <2>2, <3>1 DEF AfterCapture, Unanswered
  <2>. QED
    BY <1>4, <2>1, <2>2
<1>. QED
    BY <1>1, <1>2, <1>4, <1>5, <1>6, <1>7, WorkFresh

(* What an update leaves in the row. *)
LEMMA UpdateWrites ==
    ASSUME TypeOK, NEW t \in Present, NEW expected, NEW u, NEW res,
           CallUpdate(t, expected, u, res)
    PROVE  /\ UNCHANGED holds
           /\ transfers'[t] = transfers[t] \/ transfers'[t].status = u.status
<1>1. UNCHANGED holds
    BY DEF CallUpdate, StoreCall, UpdateTransferSaga, store
<1>2. UNCHANGED transfers \/ transfers' = [transfers EXCEPT ![t] = Written(transfers[t], u)]
    BY DEF CallUpdate, StoreCall, UpdateTransferSaga, store
<1>3. t \in TransferIDs /\ transfers \in [TransferIDs -> Rows \cup {Absent}]
    BY DEF Present, TypeOK
<1>. QED
    BY <1>1, <1>2, <1>3 DEF Written

LEMMA ReservationCapturedFresh ==
    ASSUME FreshContext, NEW w \in Workers, NEW it, ProcessReservationCaptured(w, it)
    PROVE  FreshInv'
<1>1. Take(w, it, "reservation_captured")
    BY DEF ProcessReservationCaptured
<1>2. PICK res \in Results : CallUpdate(it.id, it.step, Completed(it), res)
                             /\ Goto(w, AfterComplete(it, res))
    BY DEF ProcessReservationCaptured
<1>3. /\ CalmContext /\ it.id \in Present /\ it \in Items /\ Working(it) /\ TypeOK
      /\ transfers[it.id].status = "pending"
      /\ queue'[w] \subseteq queue[w] /\ \A other \in queue'[w] : other.id # it.id
    BY <1>1, TakeFresh, FreshFacts, CalmFacts
<1>4. Completed(it) \in Updates /\ Completed(it).attempts = 0 /\ Completed(it).status = "completed"
    BY <1>3, LimitsAssumption DEF Completed, Updates, Statuses, Failures, Items
<1>5. Completed(it).attempts <= faults
    BY <1>3, <1>4, CalmFacts
<1>6. OnlyAbout(it.id)
    BY <1>2, <1>3, <1>4, <1>5, UpdateCalm
<1>7. transfers'[it.id].status # "failed"
    BY <1>2, <1>3, <1>4, UpdateWrites
<1>8. /\ AfterComplete(it, res) # Idle => AfterComplete(it, res).item.id = it.id
      /\ AfterComplete(it, res).pc # "update"
    BY DEF AfterComplete, Idle
<1>. QED
    BY <1>2, <1>3, <1>6, <1>7, <1>8, FreshKept

LEMMA RejectFresh ==
    ASSUME FreshContext, NEW w \in Workers, RejectRelease(w)
    PROVE  FreshInv'
<1>1. PICK it, u : it = job[w].item /\ u = job[w].upd
    OBVIOUS
<1>2. CalmContext /\ TypeOK /\ EffectsKept /\ FailedMeansReleased /\ FreshWorker(w)
    BY FreshFacts, CalmFacts
<1>3. /\ Working(it) /\ it.id \in Present /\ it \in Items
      /\ job[w].pc = "reject" /\ job[w] # Idle /\ JobCalm(job[w])
    BY <1>1, <1>2, CarryCalm DEF RejectRelease, Working
<1>4. PICK res \in Results : CallFinish(it.id, "released", res) /\ Goto(w, AfterReject(it, u, res))
    BY <1>1 DEF RejectRelease
<1>5. decisions[it.id] = "rejected" /\ queue'[w] = queue[w] /\ \A other \in queue[w] : other.id # it.id
    BY <1>1, <1>2, <1>3 DEF JobCalm, FreshWorker, RejectRelease
<1>6. /\ OnlyAbout(it.id) /\ FaultCounted
      /\ Unanswered(res) \/ (res = "nil" /\ holds'[it.id] # "reserved")
    BY <1>2, <1>3, <1>4, <1>5, FinishCalm
<1>7. UNCHANGED transfers /\ it.id \in TransferIDs
    BY <1>3, <1>4 DEF CallFinish, StoreCall, FinishReservation, store, Present
<1>8. transfers'[it.id].status = "failed" => holds'[it.id] # "reserved"
  <2>1. UNCHANGED holds \/ holds' = [holds EXCEPT ![it.id] = "released"]
    BY <1>4 DEF CallFinish, StoreCall, FinishReservation, store
  <2>2. holds'[it.id] \in {holds[it.id], "released"}
    BY <1>2, <1>7, <2>1 DEF TypeOK
  <2>. QED
    BY <1>2, <1>3, <1>7, <2>2 DEF FailedMeansReleased
<1>9. AfterReject(it, u, res).item = it
  <2>1. res # "nil" => HandleStepError(it, res, TRUE).item = it
    BY <1>3, <1>4, HandleStepErrorPlans DEF Plans
  <2>. QED
    BY <2>1 DEF AfterReject, Update
<1>10. AfterReject(it, u, res).upd.status = "failed" => holds'[it.id] # "reserved"
  <2>1. CASE Unanswered(res)
    <3>1. HandleStepError(it, res, TRUE).upd.status = "pending"
      BY <1>2, <1>3, <1>6, <2>1, ErrorCalm
    <3>. QED
      BY <2>1, <3>1 DEF AfterReject, Unanswered
  <2>. QED
    BY <1>6, <2>1
<1>. QED
    BY <1>3, <1>4, <1>5, <1>6, <1>8, <1>9, <1>10, FreshKept

LEMMA AdvanceFresh ==
    ASSUME FreshContext, NEW w \in Workers, Advance(w)
    PROVE  FreshInv'
<1>1. PICK it, u : it = job[w].item /\ u = job[w].upd
    OBVIOUS
<1>2. CalmContext /\ TypeOK /\ FailedMeansReleased /\ FreshWorker(w)
    BY FreshFacts, CalmFacts
<1>3. /\ it.id \in Present /\ u \in Updates
      /\ job[w].pc = "update" /\ job[w] # Idle /\ JobCalm(job[w])
    BY <1>1, <1>2, CarryCalm DEF Advance
<1>4. PICK res \in Results : CallUpdate(it.id, it.step, u, res)
    BY <1>1 DEF Advance
<1>5. /\ u.attempts <= faults
      /\ u.status = "failed" => u.step = it.step /\ u.step \in Early
      /\ u.status = "failed" => holds[it.id] # "reserved"
      /\ queue'[w] = queue[w] /\ \A other \in queue[w] : other.id # it.id
    BY <1>1, <1>2, <1>3 DEF JobCalm, FreshWorker, Advance
<1>6. OnlyAbout(it.id)
    BY <1>2, <1>3, <1>4, <1>5, UpdateCalm
<1>7. transfers'[it.id].status = "failed" => holds'[it.id] # "reserved"
    BY <1>2, <1>3, <1>4, <1>5, UpdateWrites DEF FailedMeansReleased
<1>8. Goto(w, Idle) /\ Idle.pc # "update"
    BY DEF Advance, Idle
<1>. QED
    BY <1>3, <1>5, <1>6, <1>7, <1>8, FreshKept

LEMMA StopFresh ==
    ASSUME FreshContext, NEW w \in Workers, Publish(w) \/ Crash(w)
    PROVE  FreshInv'
<1>1. /\ FailedMeansReleased /\ FreshWorker(w) /\ \A v \in Workers : v = w
      /\ job'[w] = Idle /\ queue'[w] \subseteq queue[w]
    BY FreshFacts DEF Publish, Crash, Goto
<1>2. UNCHANGED <<transfers, holds>>
    BY DEF Publish, Crash, store
<1>3. FailedMeansReleased'
    BY <1>1, <1>2 DEF FailedMeansReleased, Present
<1>4. FreshWorker(w)'
    BY <1>1, <1>2 DEF FreshWorker, Idle
<1>. QED
    BY <1>1, <1>3, <1>4 DEF FreshInv

(* A poll copies rows that are pending now, each once. *)
LEMMA ListDueFresh ==
    ASSUME FreshContext, NEW w \in Workers, ListDueTransfers(w)
    PROVE  FreshInv'
<1>1. /\ FailedMeansReleased /\ FreshWorker(w) /\ \A v \in Workers : v = w
      /\ queue \in [Workers -> SUBSET Items]
    BY FreshFacts
<1>2. UNCHANGED <<transfers, holds>> /\ job'[w] = Idle /\ Idle.pc # "update"
    BY DEF ListDueTransfers, store, Idle
<1>3. PICK batch \in SUBSET Due : queue'[w] = {Fetch(t) : t \in batch}
    BY <1>1 DEF ListDueTransfers
<1>4. \A t \in batch : Fetch(t).id = t /\ transfers[t].status = "pending"
    BY DEF Fetch, Due
<1>5. FailedMeansReleased'
    BY <1>1, <1>2 DEF FailedMeansReleased, Present
<1>6. FreshWorker(w)'
    BY <1>2, <1>3, <1>4 DEF FreshWorker
<1>. QED
    BY <1>1, <1>5, <1>6 DEF FreshInv

(* A step that is not the worker's starts no hold and ends no transfer. *)
LEMMA OutsideFresh ==
    ASSUME FreshContext, UNCHANGED local, UNCHANGED holds,
           \A t \in Present : transfers'[t].status = transfers[t].status,
           \A t \in Present' : t \in Present \/ transfers'[t].status = "pending"
    PROVE  FreshInv'
<1>1. FailedMeansReleased
    BY DEF FreshContext, FreshInv
<1>2. FailedMeansReleased'
    BY <1>1 DEF FailedMeansReleased
<1>3. ASSUME NEW w \in Workers PROVE FreshWorker(w)'
  <2>1. FreshWorker(w) /\ \A it \in queue[w] : it.id \in Present
    BY FreshFacts
  <2>2. queue'[w] = queue[w] /\ job'[w] = job[w]
    BY DEF local
  <2>. QED
    BY <2>1, <2>2 DEF FreshWorker
<1>. QED
    BY <1>2, <1>3 DEF FreshInv

LEMMA FreshNext ==
    ASSUME OneWorker, CalmContext, FreshInv, [Next]_vars
    PROVE  FreshInv'
<1>1. FreshContext /\ SagaInv /\ TypeOK
    BY CalmFacts DEF FreshContext
<1>2. ASSUME NEW c \in Commands, Transfer(c) PROVE FreshInv'
  <2>1. PICK t \in TransferIDs : CreateTransfer(c, t)
    BY <1>2 DEF Transfer
  <2>2. UNCHANGED local /\ UNCHANGED holds
    BY <1>2 DEF Transfer
  <2>3. CASE UNCHANGED transfers
    BY <1>1, <2>2, <2>3, OutsideFresh DEF Present
  <2>4. CASE transfers[t] = Absent /\ transfers' = [transfers EXCEPT ![t] = NewRow(c)]
    <3>1. transfers'[t].status = "pending" /\ \A u \in TransferIDs : u # t => transfers'[u] = transfers[u]
      BY <1>1, <2>4 DEF TypeOK, NewRow
    <3>. QED
      BY <1>1, <2>2, <2>4, <3>1, OutsideFresh DEF Present
  <2>. QED
    BY <2>1, <2>3, <2>4 DEF CreateTransfer
<1>3. ASSUME NEW w \in Workers, WorkerStep(w) \/ Crash(w) PROVE FreshInv'
  <2>1. CASE ListDueTransfers(w)
    BY <1>1, <2>1, ListDueFresh
  <2>2. CASE \E it \in queue[w] : ProcessCreated(w, it)
    BY <1>1, <2>2, CreatedFresh
  <2>3. CASE \E it \in queue[w] : ProcessFundsReserved(w, it)
    BY <1>1, <2>3, FundsReservedFresh
  <2>4. CASE \E it \in queue[w] : ProcessComplianceApproved(w, it)
    BY <1>1, <2>4, ComplianceApprovedFresh
  <2>5. CASE \E it \in queue[w] : ProcessLedgerPosted(w, it)
    BY <1>1, <2>5, LedgerPostedFresh
  <2>6. CASE \E it \in queue[w] : ProcessReservationCaptured(w, it)
    BY <1>1, <2>6, ReservationCapturedFresh
  <2>7. CASE RejectRelease(w)
    BY <1>1, <2>7, RejectFresh
  <2>8. CASE FailRelease(w)
    BY <2>8, CarryCalm DEF FailRelease
  <2>9. CASE Advance(w)
    BY <1>1, <2>9, AdvanceFresh
  <2>10. CASE Publish(w) \/ Crash(w)
    BY <1>1, <2>10, StopFresh
  <2>. QED
    BY <1>3, <2>1, <2>2, <2>3, <2>4, <2>5, <2>6, <2>7, <2>8, <2>9, <2>10
    DEF WorkerStep, Process
<1>4. ASSUME NEW t \in TransferIDs, BackoffElapses(t) PROVE FreshInv'
  <2>1. UNCHANGED local /\ UNCHANGED holds /\ t \in Present /\ transfers[t] \in Rows
    BY <1>1, <1>4, CalmFacts, RowType DEF BackoffElapses
  <2>2. /\ transfers'[t].status = transfers[t].status
        /\ \A u \in TransferIDs : u # t => transfers'[u] = transfers[u]
    BY <1>1, <1>4, <2>1 DEF BackoffElapses, TypeOK, Rows
  <2>. QED
    BY <1>1, <2>1, <2>2, OutsideFresh DEF Present
<1>5. ASSUME UNCHANGED <<tables, local>> PROVE FreshInv'
    BY <1>1, <1>5, OutsideFresh DEF tables, Present
<1>6. CASE \E a \in AccountIDs, m \in CashAmounts : Deposit(a, m) \/ Withdraw(a, m)
    BY <1>5, <1>6 DEF Deposit, Withdraw
<1>7. CASE \E a \in AccountIDs : OpenAccount(a)
    BY <1>5, <1>7 DEF OpenAccount
<1>8. CASE UNCHANGED vars
    BY <1>5, <1>8 DEF vars, tables, local
<1>. QED
    BY <1>2, <1>3, <1>4, <1>6, <1>7, <1>8 DEF Next

LEMMA FreshInit == Init => FreshInv
<1>1. SUFFICES ASSUME Init PROVE FreshInv
    OBVIOUS
<1>2. Present = {}
    BY <1>1 DEF Init, Present
<1>. QED
    BY <1>1, <1>2 DEF Init, FreshInv, FreshWorker, FailedMeansReleased, Idle

(* With a single worker as well, a failed transfer holds no money: the     *)
(* worker fails a transfer only before its hold or after releasing it, and *)
(* no copy of it is left to reserve again.                                 *)
THEOREM FailedTransfersHoldNothing ==
    FewFaults /\ SteadyCompliance /\ OneWorker => (Spec => []FailedMeansReleased)
<1> SUFFICES ASSUME FewFaults, SteadyCompliance, OneWorker
             PROVE  Spec => []FailedMeansReleased
    OBVIOUS
<1>1. SagaInv /\ MoneyInv /\ CalmInv /\ FreshInv /\ [Next]_vars => FreshInv'
    BY CalmNext, FreshNext
<1>2. Spec => []CalmInv
    BY NobodyGivesUp
<1>3. FreshInv => FailedMeansReleased
    BY DEF FreshInv
<1>. QED
    BY <1>1, <1>2, <1>3, FreshInit, SagaInvariant, MoneyInvariant, PTL DEF Spec
=============================================================================
