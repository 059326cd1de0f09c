--------------------------- MODULE AccountStreams ---------------------------
(***************************************************************************)
(* The operations of the PostgreSQL store on account streams, statement by *)
(* statement.  A transaction takes advisory locks on accounts, reads rows  *)
(* and streams, inserts events at the positions it computed from what it   *)
(* read, and commits; its inserts become visible at the commit.  A deposit *)
(* takes no lock: it loads the stream and inserts in two statements of     *)
(* their own, against the key (aggregate_id, sequence).                    *)
(*                                                                         *)
(* Isolation is READ COMMITTED: every statement reads what is committed    *)
(* when it runs.  An insert at a position another transaction has inserted *)
(* and not committed waits for that transaction.                           *)
(***************************************************************************)
EXTENDS AtomicStreams

CONSTANTS
    Processes,   \* requests and workers at the database
    Workloads,   \* bound: by name, the sets of operations that run together
    MaxEvents    \* bound: no operation begins on a stream this long

VARIABLES
    tx,          \* per process: the operation under way
    workload     \* the name of the operations of this behaviour

vars == <<streams, hold, posted, reversed, tx, workload>>

Kinds == {"deposit", "withdraw", "reserve", "post", "capture", "release", "reverse"}

CashOps == [kind : {"deposit", "withdraw"}, acct : AccountIDs, amount : CashAmounts]
TransferOps == [kind : Kinds \ {"deposit", "withdraw"}, id : TransferIDs]

ASSUME ProcessesAssumption ==
    /\ MaxEvents \in Nat /\ IsFiniteSet(Processes)
    /\ \A w \in DOMAIN Workloads : Workloads[w] \subseteq CashOps \cup TransferOps

(* How an operation ended, as far as a property asks: with an insert that  *)
(* met an occupied sequence and was answered by the database's own error,  *)
(* or in any other way (success, refusal, ErrConcurrencyConflict, no       *)
(* answer of the database).                                                *)
Answers == {"plain", "duplicate key"}

NoOp == [kind |-> "none"]

Ended(answer) == [op |-> NoOp, answer |-> answer, todo |-> <<>>, locks |-> {},
                  view |-> [a \in AccountIDs |-> <<>>],
                  added |-> [a \in AccountIDs |-> <<>>]]

Active(p) == tx[p].op # NoOp

Init ==
    /\ AtomicInit
    /\ tx = [p \in Processes |-> Ended("plain")]
    /\ workload \in DOMAIN Workloads

-----------------------------------------------------------------------------
(* The statements of an operation *)

Lock(l)       == [do |-> "lock", on |-> l]
CheckRow      == [do |-> "row"]
Load(a)       == [do |-> "load", on |-> a]               \* the stream of a
Find(a)       == [do |-> "find", on |-> a]               \* ... which must not be empty
Cover(a, m)   == [do |-> "cover", on |-> a, amount |-> m] \* ... and m available
Insert(a, ev) == [do |-> "insert", on |-> a, event |-> ev]
AppendNow(a, ev) == [do |-> "append", on |-> a, event |-> ev]

InsertAll(a, evs) == [i \in DOMAIN evs |-> Insert(a, evs[i])]

(* variant: the source is always locked first *)
SourceFirst(t) == <<Lock(Transfers[t].src), Lock(Transfers[t].dst)>>

(* Both accounts, in the order of their ids. *)
LockBoth(t) ==
    LET two == {Transfers[t].src, Transfers[t].dst} IN
    <<Lock(Min(two)), Lock(Max(two))>>

Deposit(a, m) == <<Find(a), AppendNow(a, Ev("MoneyCredited", m))>>

(* variant: the available balance is not asked for *)
WithdrawUnchecked(a, m) == <<Lock(a), Find(a), Insert(a, Ev("MoneyDebited", m))>>

WithdrawAvailable(a, m) == <<Lock(a), Cover(a, m), Insert(a, Ev("MoneyDebited", m))>>

ReserveTransferFunds(t) ==
    LET src == Transfers[t].src IN
    <<Lock(src), CheckRow, Cover(src, Total(t)), Find(Transfers[t].dst),
      Insert(src, Ev("FundsReserved", Total(t)))>>

PostTransferLedger(t) ==
    LET src == Transfers[t].src  dst == Transfers[t].dst IN
    LockBoth(t)
        \o <<CheckRow, Load(src), Load(dst)>>
        \o InsertAll(src, SourceEntries(t))
        \o <<Insert(dst, Ev("MoneyCredited", Transfers[t].amount))>>

FinishTransferReservation(t, type) ==
    LET src == Transfers[t].src IN
    <<Lock(src), CheckRow, Load(src), Insert(src, Ev(type, Total(t)))>>

(* ApproveAdjustment of a transfer reversal.  The request row, locked with *)
(* FOR UPDATE before the accounts, is known here by its transfer: at most  *)
(* one request of a transfer is not rejected (module Adjustments).         *)
ReverseTransfer(t) ==
    LET src == Transfers[t].src  dst == Transfers[t].dst IN
    <<Lock(t), CheckRow>>
        \o LockBoth(t)
        \o <<Cover(dst, Transfers[t].amount),
             Insert(dst, Ev("MoneyDebited", Transfers[t].amount)),
             Load(src), Insert(src, Ev("MoneyCredited", Total(t)))>>

Statements(op) ==
    CASE op.kind = "deposit"  -> Deposit(op.acct, op.amount)
      [] op.kind = "withdraw" -> WithdrawAvailable(op.acct, op.amount)
      [] op.kind = "reserve"  -> ReserveTransferFunds(op.id)
      [] op.kind = "post"     -> PostTransferLedger(op.id)
      [] op.kind = "capture"  -> FinishTransferReservation(op.id, "ReservationCaptured")
      [] op.kind = "release"  -> FinishTransferReservation(op.id, "ReservationReleased")
      [] op.kind = "reverse"  -> ReverseTransfer(op.id)

(* variant: a transfer that was not posted may be reversed *)
RequestedEarly(op) ==
    CASE op.kind \in {"deposit", "withdraw"} -> Len(streams[op.acct]) < MaxEvents
      [] op.kind = "post"    -> hold[op.id] # "none"
      [] OTHER               -> TRUE

(* The saga posts only what it has reserved; only a transfer that has been *)
(* posted can be completed and then reversed.                              *)
Requested(op) ==
    CASE op.kind \in {"deposit", "withdraw"} -> Len(streams[op.acct]) < MaxEvents
      [] op.kind = "post"    -> hold[op.id] # "none"
      [] op.kind = "reverse" -> op.id \in posted
      [] OTHER               -> TRUE

(* What the transfer's rows must say for the operation to go on. *)
RowAllows(op) ==
    CASE op.kind = "reserve" -> hold[op.id] = "none"
      [] op.kind = "post"    -> op.id \notin posted
      [] op.kind \in {"capture", "release"} -> hold[op.id] = "reserved"
      [] op.kind = "reverse" -> op.id \notin reversed

-----------------------------------------------------------------------------
(* Running the statements *)

Doing(p, what) == tx[p].todo # <<>> /\ Head(tx[p].todo).do = what
On(p)          == Head(tx[p].todo).on

Set(p, t) == tx' = [tx EXCEPT ![p] = t]

(* The transaction ends: rolled back, its locks released. *)
End(p, answer) == Set(p, Ended(answer))

Step(p, t) == Set(p, [t EXCEPT !.todo = Tail(@)])

Begin(p) ==
    /\ ~Active(p)
    /\ \E op \in Workloads[workload] :
          /\ Requested(op)
          /\ Set(p, [Ended("plain") EXCEPT !.op = op, !.todo = Statements(op)])
    /\ UNCHANGED <<streams, rows>>

Free(l) == \A q \in Processes : l \notin tx[q].locks

LockAccount(p) ==
    /\ Doing(p, "lock")
    /\ Free(On(p))
    /\ Step(p, [tx[p] EXCEPT !.locks = @ \cup {On(p)}])
    /\ UNCHANGED <<streams, rows>>

ReadRow(p) ==
    /\ Doing(p, "row")
    /\ IF RowAllows(tx[p].op) THEN Step(p, tx[p]) ELSE End(p, "plain")
    /\ UNCHANGED <<streams, rows>>

(* What the code asks of a stream it has loaded. *)
Acceptable(stmt, s) ==
    /\ stmt.do \in {"find", "cover"} => s # <<>>
    /\ stmt.do = "cover" => Available(s) >= stmt.amount

LoadEvents(p) ==
    /\ Doing(p, "load") \/ Doing(p, "find") \/ Doing(p, "cover")
    /\ LET s == streams[On(p)] IN
       IF Acceptable(Head(tx[p].todo), s)
       THEN Step(p, [tx[p] EXCEPT !.view[On(p)] = s])
       ELSE End(p, "plain")
    /\ UNCHANGED <<streams, rows>>

(* The position at which p inserts next on a, 1 more than its sequence. *)
Position(p, a) == Len(tx[p].view[a]) + 1

(* q has inserted at this position and not committed. *)
Claims(q, a, n) ==
    /\ n <= Len(tx[q].view[a])
    /\ n > Len(tx[q].view[a]) - Len(tx[q].added[a])

(* variant: the expected version is not compared *)
NeverOccupied(p, a) == FALSE

Occupied(p, a) == Position(p, a) <= Len(streams[a])

InsertEvent(p) ==
    LET a == On(p)  ev == Head(tx[p].todo).event IN
    /\ Doing(p, "insert")
    /\ \A q \in Processes \ {p} : ~Claims(q, a, Position(p, a))
    /\ IF Occupied(p, a)
       THEN End(p, "duplicate key")              \* 23505, returned as it is
       ELSE Step(p, [tx[p] EXCEPT !.view[a] = Append(@, ev),
                                  !.added[a] = Append(@, ev)])
    /\ UNCHANGED <<streams, rows>>

(* INSERT ... ON CONFLICT DO NOTHING, committed at once. *)
AppendEvent(p) ==
    LET a == On(p)  ev == Head(tx[p].todo).event IN
    /\ Doing(p, "append")
    /\ \A q \in Processes \ {p} : ~Claims(q, a, Position(p, a))
    /\ IF Occupied(p, a)
       THEN End(p, "plain") /\ UNCHANGED streams     \* ErrConcurrencyConflict
       ELSE End(p, "plain") /\ Add(a, <<ev>>)
    /\ UNCHANGED rows

(* The operation's own row is written before the commit. *)
WriteRow(op) ==
    /\ hold' = CASE op.kind = "reserve" -> [hold EXCEPT ![op.id] = "reserved"]
                 [] op.kind = "capture" -> [hold EXCEPT ![op.id] = "captured"]
                 [] op.kind = "release" -> [hold EXCEPT ![op.id] = "released"]
                 [] OTHER               -> hold
    /\ posted' = IF op.kind = "post" THEN posted \cup {op.id} ELSE posted
    /\ reversed' = IF op.kind = "reverse" THEN reversed \cup {op.id} ELSE reversed

Commit(p) ==
    /\ Active(p) /\ tx[p].todo = <<>>
    /\ streams' = [a \in AccountIDs |-> streams[a] \o tx[p].added[a]]
    /\ WriteRow(tx[p].op)
    /\ End(p, "plain")

(* An error, the context timeout or the end of the process: the database   *)
(* rolls back and drops the locks.                                         *)
Rollback(p) ==
    /\ Active(p)
    /\ End(p, "plain")
    /\ UNCHANGED <<streams, rows>>

Run(p) ==
    \/ LockAccount(p) \/ ReadRow(p) \/ LoadEvents(p)
    \/ InsertEvent(p) \/ AppendEvent(p) \/ Commit(p)

Next ==
    /\ \E p \in Processes : Begin(p) \/ Run(p) \/ Rollback(p)
    /\ UNCHANGED workload

Spec == Init /\ [][Next]_vars

-----------------------------------------------------------------------------
(* Properties *)

StatementKinds == {"lock", "row", "load", "find", "cover", "insert", "append"}

TypeOK ==
    /\ streams \in [AccountIDs -> Seq(Events)]
    /\ hold \in [TransferIDs -> HoldStates]
    /\ posted \subseteq TransferIDs /\ reversed \subseteq posted
    /\ \A p \in Processes :
          /\ tx[p].op \in Workloads[workload] \cup {NoOp}
          /\ tx[p].answer \in Answers
          /\ \A i \in DOMAIN tx[p].todo : tx[p].todo[i].do \in StatementKinds
          /\ tx[p].locks \subseteq AccountIDs \cup TransferIDs
          /\ tx[p].view \in [AccountIDs -> Seq(Events)]
          /\ tx[p].added \in [AccountIDs -> Seq(Events)]

(* Every operation takes effect as one step on the streams as they are at  *)
(* that step, although its reads, checks and inserts are spread over       *)
(* several statements and deposits take no lock: the funds check of a      *)
(* withdrawal, a hold or a reversal still holds when it commits, and       *)
(* nothing is posted, held or reversed twice (postgres_store.go).          *)
ImplementsAtomicStreams == AtomicSpec

(* Events a transaction has inserted continue the committed stream, until  *)
(* it ends: nobody else writes to a stream under a transaction's feet, the *)
(* deposits without lock included.                                         *)
PendingEventsFit ==
    \A p \in Processes, a \in AccountIDs :
        tx[p].added[a] # <<>> => streams[a] \o tx[p].added[a] = tx[p].view[a]

WaitsFor(p, q) ==
    /\ p # q
    /\ \/ Doing(p, "lock") /\ On(p) \in tx[q].locks
       \/ (Doing(p, "insert") \/ Doing(p, "append")) /\ Claims(q, On(p), Position(p, On(p)))

(* No processes wait for each other in a circle: the two account locks of  *)
(* a posting or a reversal are taken in one order, and the row lock of a   *)
(* request before them.                                                    *)
NoWaitCycle ==
    \A S \in (SUBSET Processes) \ {{}} :
        \E p \in S : \A q \in S : ~WaitsFor(p, q)

(* requirement/EventSourcing.md: an append at an occupied sequence returns *)
(* ErrConcurrencyConflict.                                                 *)
OccupiedIsConflict == \A p \in Processes : tx[p].answer # "duplicate key"
=============================================================================
