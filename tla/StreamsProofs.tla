---------------------------- MODULE StreamsProofs ---------------------------
(***************************************************************************)
(* Proofs about the transactions on account streams, for any accounts,     *)
(* transfers, amounts, workloads and number of processes.                  *)
(*                                                                         *)
(* The statements of an operation are its plan, and every plan has a shape *)
(* (PlanSound): an insert comes under the lock of its account, a row is    *)
(* read under its lock, locks are taken in ascending order, a stream is    *)
(* loaded once and before it is extended.  The invariant places every      *)
(* transaction somewhere on its plan, with the locks and inserts that go   *)
(* with the place, and says that what it has read and checked still holds. *)
(***************************************************************************)
EXTENDS AccountStreams, FoldTheorems

Ops == CashOps \cup TransferOps

Locks == AccountIDs \cup TransferIDs

Stmts == [do : {"lock"}, on : Locks] \cup [do : {"row"}]
           \cup [do : {"load", "find"}, on : AccountIDs]
           \cup [do : {"cover"}, on : AccountIDs, amount : Nat]
           \cup [do : {"insert", "append"}, on : AccountIDs, event : Events]

-----------------------------------------------------------------------------
(* What the statements of each operation are *)

LEMMA TransferFacts ==
    ASSUME NEW t \in TransferIDs
    PROVE  /\ Transfers[t].src \in AccountIDs /\ Transfers[t].dst \in AccountIDs
           /\ Transfers[t].src # Transfers[t].dst
           /\ Transfers[t].src \in Nat /\ Transfers[t].dst \in Nat
           /\ Transfers[t].amount \in Nat /\ Transfers[t].fee \in Nat
           /\ Total(t) \in Nat
<1>1. /\ Transfers[t].src \in AccountIDs /\ Transfers[t].dst \in AccountIDs
      /\ Transfers[t].src # Transfers[t].dst
      /\ Transfers[t].amount \in Nat /\ Transfers[t].fee \in Nat
    BY StreamsAssumption DEF TransferIDs
<1>2. Transfers[t].src \in Nat /\ Transfers[t].dst \in Nat
    BY <1>1, StreamsAssumption
<1>3. Total(t) \in Nat
    BY <1>1 DEF Total
<1>. QED
    BY <1>1, <1>2, <1>3

LEMMA TwoOrdered ==
    ASSUME NEW a \in Nat, NEW b \in Nat, a # b
    PROVE  /\ Min({a, b}) < Max({a, b})
           /\ \/ Min({a, b}) = a /\ Max({a, b}) = b
              \/ Min({a, b}) = b /\ Max({a, b}) = a
<1>1. CASE a < b
  <2>1. Max({a, b}) = b
    BY <1>1 DEF Max
  <2>2. Min({a, b}) = a
    BY <1>1 DEF Min
  <2>. QED
    BY <1>1, <2>1, <2>2
<1>2. CASE b < a
  <2>1. Max({a, b}) = a
    BY <1>2 DEF Max
  <2>2. Min({a, b}) = b
    BY <1>2 DEF Min
  <2>. QED
    BY <1>2, <2>1, <2>2
<1>. QED
    BY <1>1, <1>2

First(t) == Min({Transfers[t].src, Transfers[t].dst})
Second(t) == Max({Transfers[t].src, Transfers[t].dst})

LEMMA LocksOrdered ==
    ASSUME NEW t \in TransferIDs
    PROVE  /\ First(t) \in AccountIDs /\ Second(t) \in AccountIDs /\ First(t) < Second(t)
           /\ {First(t), Second(t)} = {Transfers[t].src, Transfers[t].dst}
           /\ LockBoth(t) = <<Lock(First(t)), Lock(Second(t))>>
<1>1. /\ Transfers[t].src \in AccountIDs /\ Transfers[t].dst \in AccountIDs
      /\ Transfers[t].src \in Nat /\ Transfers[t].dst \in Nat
      /\ Transfers[t].src # Transfers[t].dst
    BY TransferFacts
<1>2. /\ First(t) < Second(t)
      /\ \/ First(t) = Transfers[t].src /\ Second(t) = Transfers[t].dst
         \/ First(t) = Transfers[t].dst /\ Second(t) = Transfers[t].src
    BY <1>1, TwoOrdered DEF First, Second
<1>3. LockBoth(t) = <<Lock(First(t)), Lock(Second(t))>>
    BY DEF LockBoth, First, Second
<1>. QED
    BY <1>1, <1>2, <1>3

(* The elements of s \o z, of lengths m and n. *)
Cat(s, z, m, n) ==
    /\ Len(s \o z) = m + n
    /\ \A i \in 1..m : (s \o z)[i] = s[i]
    /\ \A i \in 1..n : (s \o z)[m + i] = z[i]

LEMMA CatElements ==
    ASSUME NEW E, NEW s \in Seq(E), NEW z \in Seq(E)
    PROVE  s \o z \in Seq(E) /\ Cat(s, z, Len(s), Len(z))
BY DEF Cat

LEMMA SameElements ==
    ASSUME NEW E, NEW x \in Seq(E), NEW y \in Seq(E), Len(x) = Len(y),
           \A i \in 1..Len(x) : x[i] = y[i]
    PROVE  x = y
OBVIOUS

LEMMA PairElements ==
    ASSUME NEW E, NEW e \in E, NEW f \in E
    PROVE  <<e>> \o <<f>> = <<e, f>> /\ <<>> \o <<e>> = <<e>>
<1> DEFINE x == <<e>> \o <<f>>
           y == <<e, f>>
<1>1. <<e>> \o <<f>> = Append(<<e>>, f)
  <2>1. \A s \in Seq(E) : s \o <<f>> = Append(s, f)
    OBVIOUS
  <2>2. <<e>> \in Seq(E)
    OBVIOUS
  <2>. QED
    BY <2>1, <2>2, Zenon
<1>2. x \in Seq(E) /\ Len(x) = 2 /\ x[1] = e /\ x[2] = f
    BY <1>1
<1>3. y \in Seq(E) /\ Len(y) = 2 /\ y[1] = e /\ y[2] = f
    OBVIOUS
<1>4. x = y
  <2>. HIDE DEF x, y
  <2>. QED
    BY <1>2, <1>3
<1>. QED
    BY <1>4 DEF x, y

LEMMA StatementTypes ==
    /\ \A l \in Locks : Lock(l) \in Stmts
    /\ CheckRow \in Stmts
    /\ \A a \in AccountIDs : Load(a) \in Stmts /\ Find(a) \in Stmts
    /\ \A a \in AccountIDs, m \in Nat : Cover(a, m) \in Stmts
    /\ \A a \in AccountIDs, e \in Events : Insert(a, e) \in Stmts /\ AppendNow(a, e) \in Stmts
BY DEF Stmts, Lock, CheckRow, Load, Find, Cover, Insert, AppendNow

LEMMA EventTypesOK ==
    ASSUME NEW type \in EventTypes, NEW m \in Nat
    PROVE  Ev(type, m) \in Events
BY DEF Ev, Events

(* The events a posting writes on the source. *)
LEMMA EntriesOfSource ==
    ASSUME NEW t \in TransferIDs
    PROVE  LET F == Ev("MoneyDebited", Transfers[t].fee)
               A == Ev("MoneyDebited", Transfers[t].amount) IN
           SourceEntries(t) = IF Transfers[t].fee > 0 THEN <<F, A>> ELSE <<A>>
<1> DEFINE F == Ev("MoneyDebited", Transfers[t].fee)
           A == Ev("MoneyDebited", Transfers[t].amount)
<1>1. F \in Events /\ A \in Events
    BY TransferFacts, EventTypesOK DEF EventTypes
<1>. HIDE DEF F, A
<1>2. <<F>> \o <<A>> = <<F, A>> /\ <<>> \o <<A>> = <<A>>
    BY <1>1, PairElements
<1>. QED
    BY <1>2 DEF SourceEntries, F, A

LEMMA PostStatements ==
    ASSUME NEW t \in TransferIDs
    PROVE  LET St == PostTransferLedger(t)
               src == Transfers[t].src
               dst == Transfers[t].dst
               F == Ev("MoneyDebited", Transfers[t].fee)
               A == Ev("MoneyDebited", Transfers[t].amount)
               C == Ev("MoneyCredited", Transfers[t].amount) IN
           /\ St \in Seq(Stmts)
           /\ St[1] = Lock(First(t)) /\ St[2] = Lock(Second(t)) /\ St[3] = CheckRow
           /\ St[4] = Load(src) /\ St[5] = Load(dst)
           /\ IF Transfers[t].fee > 0
              THEN /\ Len(St) = 8 /\ St[6] = Insert(src, F) /\ St[7] = Insert(src, A)
                   /\ St[8] = Insert(dst, C)
              ELSE Len(St) = 7 /\ St[6] = Insert(src, A) /\ St[7] = Insert(dst, C)
<1> DEFINE src == Transfers[t].src
           dst == Transfers[t].dst
           F == Ev("MoneyDebited", Transfers[t].fee)
           A == Ev("MoneyDebited", Transfers[t].amount)
           C == Ev("MoneyCredited", Transfers[t].amount)
           P1 == LockBoth(t)
           P2 == <<CheckRow, Load(src), Load(dst)>>
           P3 == InsertAll(src, SourceEntries(t))
           P4 == <<Insert(dst, C)>>
           fee == Transfers[t].fee
<1>1. /\ F \in Events /\ A \in Events /\ C \in Events
      /\ src \in AccountIDs /\ dst \in AccountIDs
    BY TransferFacts, EventTypesOK DEF EventTypes
<1>2. /\ P1 \in Seq(Stmts) /\ Len(P1) = 2
      /\ P1[1] = Lock(First(t)) /\ P1[2] = Lock(Second(t))
  <2>1. Lock(First(t)) \in Stmts /\ Lock(Second(t)) \in Stmts
    BY LocksOrdered, StatementTypes DEF Locks
  <2>2. P1 = <<Lock(First(t)), Lock(Second(t))>>
    BY LocksOrdered
  <2>. HIDE DEF P1
  <2>. QED
    BY <2>1, <2>2
<1>3. /\ P2 \in Seq(Stmts) /\ Len(P2) = 3
      /\ P2[1] = CheckRow /\ P2[2] = Load(src) /\ P2[3] = Load(dst)
  <2>1. CheckRow \in Stmts /\ Load(src) \in Stmts /\ Load(dst) \in Stmts
    BY <1>1, StatementTypes
  <2>. QED
    BY <2>1
<1>4. Insert(src, F) \in Stmts /\ Insert(src, A) \in Stmts /\ Insert(dst, C) \in Stmts
    BY <1>1, StatementTypes
<1>5. P4 \in Seq(Stmts) /\ Len(P4) = 1 /\ P4[1] = Insert(dst, C)
    BY <1>4
<1>6. /\ P3 \in Seq(Stmts)
      /\ IF fee > 0 THEN Len(P3) = 2 /\ P3[1] = Insert(src, F) /\ P3[2] = Insert(src, A)
                    ELSE Len(P3) = 1 /\ P3[1] = Insert(src, A)
  <2>1. SourceEntries(t) = IF fee > 0 THEN <<F, A>> ELSE <<A>>
    BY EntriesOfSource
  <2>2. CASE fee > 0
    <3>1. P3 = [i \in 1..2 |-> Insert(src, <<F, A>>[i])]
      BY <2>1, <2>2 DEF InsertAll
    <3>2. <<F, A>>[1] = F /\ <<F, A>>[2] = A
      OBVIOUS
    <3>. HIDE DEF P3, F, A, src
    <3>3. P3[1] = Insert(src, F) /\ P3[2] = Insert(src, A)
      BY <3>1, <3>2
    <3>4. P3 \in Seq(Stmts) /\ Len(P3) = 2
      BY <1>4, <3>1, <3>3
    <3>. QED
      BY <2>2, <3>3, <3>4
  <2>3. CASE ~(fee > 0)
    <3>1. P3 = [i \in 1..1 |-> Insert(src, <<A>>[i])]
      BY <2>1, <2>3 DEF InsertAll
    <3>2. <<A>>[1] = A
      OBVIOUS
    <3>. HIDE DEF P3, A, src
    <3>3. P3[1] = Insert(src, A)
      BY <3>1, <3>2
    <3>4. P3 \in Seq(Stmts) /\ Len(P3) = 1
      BY <1>4, <3>1, <3>3
    <3>. QED
      BY <2>3, <3>3, <3>4
  <2>. QED
    BY <2>2, <2>3
<1> DEFINE Q == P1 \o P2
           R == Q \o P3
           St == R \o P4
<1>7. St = PostTransferLedger(t)
    BY DEF PostTransferLedger
<1>. HIDE DEF P1, P2, P3, P4
<1>8. /\ Q \in Seq(Stmts) /\ Len(Q) = 5
      /\ Q[1] = Lock(First(t)) /\ Q[2] = Lock(Second(t)) /\ Q[3] = CheckRow
      /\ Q[4] = Load(src) /\ Q[5] = Load(dst)
  <2>1. P1 \in Seq(Stmts) /\ P2 \in Seq(Stmts)
    BY <1>2, <1>3
  <2>2. Q \in Seq(Stmts) /\ Cat(P1, P2, Len(P1), Len(P2))
    BY <2>1, CatElements
  <2>3. Cat(P1, P2, 2, 3)
    BY <1>2, <1>3, <2>2
  <2>4. /\ Len(Q) = 2 + 3 /\ Q[1] = P1[1] /\ Q[2] = P1[2]
        /\ Q[2 + 1] = P2[1] /\ Q[2 + 2] = P2[2] /\ Q[2 + 3] = P2[3]
    BY <2>3 DEF Cat
  <2>. HIDE DEF Q
  <2>. QED
    BY <1>2, <1>3, <2>2, <2>4
<1>. HIDE DEF Q, F, A, C, src, dst, fee
<1>9. R \in Seq(Stmts) /\ Cat(Q, P3, Len(Q), Len(P3))
  <2>1. Q \in Seq(Stmts) /\ P3 \in Seq(Stmts)
    BY <1>6, <1>8
  <2>. QED
    BY <2>1, CatElements
<1>10. St \in Seq(Stmts) /\ Cat(R, P4, Len(R), Len(P4))
  <2>1. R \in Seq(Stmts) /\ P4 \in Seq(Stmts)
    BY <1>5, <1>9
  <2>. HIDE DEF R
  <2>. QED
    BY <2>1, CatElements
<1>11. CASE fee > 0
  <2>1. Cat(Q, P3, 5, 2)
    BY <1>6, <1>8, <1>9, <1>11
  <2>2. /\ Len(R) = 7 /\ R[1] = Q[1] /\ R[2] = Q[2] /\ R[3] = Q[3] /\ R[4] = Q[4]
        /\ R[5] = Q[5] /\ R[5 + 1] = P3[1] /\ R[5 + 2] = P3[2]
    BY <2>1 DEF Cat
  <2>. HIDE DEF R
  <2>3. Cat(R, P4, 7, 1)
    BY <1>5, <1>10, <2>2
  <2>4. /\ Len(St) = 8 /\ (\A i \in 1..7 : St[i] = R[i]) /\ St[7 + 1] = P4[1]
    BY <2>3 DEF Cat
  <2>. HIDE DEF St
  <2>. QED
    BY <1>5, <1>6, <1>7, <1>8, <1>10, <1>11, <2>2, <2>4 DEF F, A, C, src, dst, fee
<1>12. CASE ~(fee > 0)
  <2>1. Cat(Q, P3, 5, 1)
    BY <1>6, <1>8, <1>9, <1>12
  <2>2. /\ Len(R) = 6 /\ R[1] = Q[1] /\ R[2] = Q[2] /\ R[3] = Q[3] /\ R[4] = Q[4]
        /\ R[5] = Q[5] /\ R[5 + 1] = P3[1]
    BY <2>1 DEF Cat
  <2>. HIDE DEF R
  <2>3. Cat(R, P4, 6, 1)
    BY <1>5, <1>10, <2>2
  <2>4. /\ Len(St) = 7 /\ (\A i \in 1..6 : St[i] = R[i]) /\ St[6 + 1] = P4[1]
    BY <2>3 DEF Cat
  <2>. HIDE DEF St
  <2>. QED
    BY <1>5, <1>6, <1>7, <1>8, <1>10, <1>12, <2>2, <2>4 DEF A, C, src, dst, fee
<1>. QED
    BY <1>11, <1>12

LEMMA ReverseStatements ==
    ASSUME NEW t \in TransferIDs
    PROVE  LET St == ReverseTransfer(t)
               src == Transfers[t].src
               dst == Transfers[t].dst IN
           /\ St \in Seq(Stmts) /\ Len(St) = 8
           /\ St[1] = Lock(t) /\ St[2] = CheckRow
           /\ St[3] = Lock(First(t)) /\ St[4] = Lock(Second(t))
           /\ St[5] = Cover(dst, Transfers[t].amount)
           /\ St[6] = Insert(dst, Ev("MoneyDebited", Transfers[t].amount))
           /\ St[7] = Load(src)
           /\ St[8] = Insert(src, Ev("MoneyCredited", Total(t)))
<1> DEFINE src == Transfers[t].src
           dst == Transfers[t].dst
           amount == Transfers[t].amount
           D == Ev("MoneyDebited", amount)
           C == Ev("MoneyCredited", Total(t))
           P1 == <<Lock(t), CheckRow>>
           P2 == LockBoth(t)
           P3 == <<Cover(dst, amount), Insert(dst, D), Load(src), Insert(src, C)>>
<1>1. /\ D \in Events /\ C \in Events /\ src \in AccountIDs /\ dst \in AccountIDs
      /\ amount \in Nat
    BY TransferFacts, EventTypesOK DEF EventTypes
<1>2. /\ P1 \in Seq(Stmts) /\ Len(P1) = 2 /\ P1[1] = Lock(t) /\ P1[2] = CheckRow
  <2>1. Lock(t) \in Stmts /\ CheckRow \in Stmts
    BY StatementTypes DEF Locks
  <2>. QED
    BY <2>1
<1>3. /\ P2 \in Seq(Stmts) /\ Len(P2) = 2
      /\ P2[1] = Lock(First(t)) /\ P2[2] = Lock(Second(t))
  <2>1. Lock(First(t)) \in Stmts /\ Lock(Second(t)) \in Stmts
    BY LocksOrdered, StatementTypes DEF Locks
  <2>2. P2 = <<Lock(First(t)), Lock(Second(t))>>
    BY LocksOrdered
  <2>. HIDE DEF P2
  <2>. QED
    BY <2>1, <2>2
<1>4. /\ P3 \in Seq(Stmts) /\ Len(P3) = 4
      /\ P3[1] = Cover(dst, amount) /\ P3[2] = Insert(dst, D)
      /\ P3[3] = Load(src) /\ P3[4] = Insert(src, C)
  <2>1. /\ Cover(dst, amount) \in Stmts /\ Insert(dst, D) \in Stmts
        /\ Load(src) \in Stmts /\ Insert(src, C) \in Stmts
    BY <1>1, StatementTypes
  <2>. QED
    BY <2>1
<1> DEFINE Q == P1 \o P2
           St == Q \o P3
<1>5. St = ReverseTransfer(t)
    BY DEF ReverseTransfer
<1>. HIDE DEF P1, P2, P3
<1>6. Q \in Seq(Stmts) /\ Cat(P1, P2, Len(P1), Len(P2))
  <2>1. P1 \in Seq(Stmts) /\ P2 \in Seq(Stmts)
    BY <1>2, <1>3
  <2>. QED
    BY <2>1, CatElements
<1>7. Cat(P1, P2, 2, 2)
    BY <1>2, <1>3, <1>6
<1>8. /\ Len(Q) = 4 /\ Q[1] = P1[1] /\ Q[2] = P1[2] /\ Q[2 + 1] = P2[1] /\ Q[2 + 2] = P2[2]
    BY <1>7 DEF Cat
<1>. HIDE DEF Q
<1>9. St \in Seq(Stmts) /\ Cat(Q, P3, Len(Q), Len(P3))
  <2>1. Q \in Seq(Stmts) /\ P3 \in Seq(Stmts)
    BY <1>4, <1>6
  <2>. QED
    BY <2>1, CatElements
<1>10. Cat(Q, P3, 4, 4)
    BY <1>4, <1>8, <1>9
<1>11. /\ Len(St) = 8 /\ (\A i \in 1..4 : St[i] = Q[i]) /\ St[4 + 1] = P3[1]
       /\ St[4 + 2] = P3[2] /\ St[4 + 3] = P3[3] /\ St[4 + 4] = P3[4]
    BY <1>10 DEF Cat
<1>. HIDE DEF St, src, dst, D, C, amount
<1>. QED
    BY <1>2, <1>3, <1>4, <1>5, <1>8, <1>9, <1>11 DEF src, dst, D, C, amount

-----------------------------------------------------------------------------
(* The shape of a plan: what holds of the statements of every operation *)

Loading(s) == s.do \in {"load", "find", "cover"}

Once(a, b, k, n, ev) == IF a = b /\ k >= n THEN <<ev>> ELSE <<>>

(* What an operation has inserted on a after k statements. *)
AddedAfter(op, k, a) ==
    LET t == op.id IN
    CASE op.kind = "deposit"  -> <<>>
      [] op.kind = "withdraw" -> Once(a, op.acct, k, 3, Ev("MoneyDebited", op.amount))
      [] op.kind = "reserve"  ->
            Once(a, Transfers[t].src, k, 5, Ev("FundsReserved", Total(t)))
      [] op.kind = "capture"  ->
            Once(a, Transfers[t].src, k, 4, Ev("ReservationCaptured", Total(t)))
      [] op.kind = "release"  ->
            Once(a, Transfers[t].src, k, 4, Ev("ReservationReleased", Total(t)))
      [] op.kind = "post"     ->
            IF a = Transfers[t].src
            THEN IF k >= 5 + Len(SourceEntries(t)) THEN SourceEntries(t)
                 ELSE IF k = 6 THEN <<SourceEntries(t)[1]>> ELSE <<>>
            ELSE Once(a, Transfers[t].dst, k, 6 + Len(SourceEntries(t)),
                      Ev("MoneyCredited", Transfers[t].amount))
      [] op.kind = "reverse"  ->
            IF a = Transfers[t].src
            THEN Once(a, a, k, 8, Ev("MoneyCredited", Total(t)))
            ELSE Once(a, Transfers[t].dst, k, 6, Ev("MoneyDebited", Transfers[t].amount))

(* Row locks come before account locks, and these in the order of the ids. *)
Rank(l) == IF l \in AccountIDs THEN l + 1 ELSE 0

(* The lock under which the row of an operation is read and written. *)
RowLock(op) == IF op.kind = "reverse" THEN op.id ELSE Transfers[op.id].src

(* Statement k of S, the statements of op. *)
StatementSound(op, S, k) ==
    /\ S[k].do = "insert" =>
          /\ \A a \in AccountIDs : AddedAfter(op, k, a) =
                IF a = S[k].on THEN Append(AddedAfter(op, k - 1, a), S[k].event)
                               ELSE AddedAfter(op, k - 1, a)
          /\ \E j \in 1..(k - 1) : S[j].do = "lock" /\ S[j].on = S[k].on
    /\ S[k].do # "insert" =>
          \A a \in AccountIDs : AddedAfter(op, k, a) = AddedAfter(op, k - 1, a)
    /\ Loading(S[k]) =>
          /\ AddedAfter(op, k - 1, S[k].on) = <<>>
          /\ \A j \in 1..(k - 1) : Loading(S[j]) => S[j].on # S[k].on
    /\ S[k].do = "lock" =>
          \A j \in 1..(k - 1) :
             /\ S[j].do # "insert"
             /\ S[j].do = "lock" => Rank(S[j].on) < Rank(S[k].on)
    /\ S[k].do = "row" =>
          /\ op.kind \notin {"deposit", "withdraw"}
          /\ \E j \in 1..(k - 1) : S[j].do = "lock" /\ S[j].on = RowLock(op)
    /\ S[k].do = "append" => op.kind = "deposit" /\ k = 2

PlanSound(op, S) ==
    /\ S \in Seq(Stmts)
    /\ \A a \in AccountIDs : AddedAfter(op, 0, a) = <<>>
    /\ \A k \in 1..Len(S) : StatementSound(op, S, k)

LEMMA Alone ==
    ASSUME NEW e
    PROVE  Append(<<>>, e) = <<e>> /\ <<e>> # <<>>
OBVIOUS

LEMMA AppendedPair ==
    ASSUME NEW e, NEW f, NEW g
    PROVE  Append(<<>>, e) = <<e>> /\ Append(<<e>>, f) = <<e, f>> /\ Append(<<>>, g) = <<g>>
<1> DEFINE x == Append(<<e>>, f)
           y == <<e, f>>
           E == {e, f}
<1>1. x \in Seq(E) /\ Len(x) = 2 /\ x[1] = e /\ x[2] = f
    OBVIOUS
<1>2. y \in Seq(E) /\ Len(y) = 2 /\ y[1] = e /\ y[2] = f
    OBVIOUS
<1>3. x = y
  <2>. HIDE DEF x, y, E
  <2>. QED
    BY <1>1, <1>2
<1>. QED
    BY <1>3, Alone DEF x, y

LEMMA LockRanks ==
    ASSUME NEW t \in TransferIDs
    PROVE  /\ Rank(t) < Rank(First(t)) /\ Rank(First(t)) < Rank(Second(t))
           /\ Rank(t) < Rank(Second(t))
<1>1. /\ First(t) \in AccountIDs /\ Second(t) \in AccountIDs /\ First(t) < Second(t)
    BY LocksOrdered
<1>2. First(t) \in Nat /\ Second(t) \in Nat
    BY <1>1, StreamsAssumption
<1>3. t \notin AccountIDs
    BY StreamsAssumption DEF TransferIDs
<1>. QED
    BY <1>1, <1>2, <1>3 DEF Rank

LEMMA DepositPlan ==
    ASSUME NEW op \in CashOps, op.kind = "deposit"
    PROVE  PlanSound(op, Statements(op)) /\ Len(Statements(op)) = 2
<1> DEFINE a == op.acct
           S == Statements(op)
           e == Ev("MoneyCredited", op.amount)
<1>1. a \in AccountIDs /\ op.amount \in Nat
    BY StreamsAssumption DEF CashOps
<1>2. S = <<Find(a), AppendNow(a, e)>>
    BY DEF Statements, Deposit
<1>3. S \in Seq(Stmts)
  <2>1. e \in Events
    BY <1>1, EventTypesOK DEF EventTypes
  <2>2. Find(a) \in Stmts /\ AppendNow(a, e) \in Stmts
    BY <1>1, <2>1, StatementTypes
  <2>. QED
    BY <1>2, <2>2
<1>4. /\ Len(S) = 2 /\ S[1].do = "find" /\ S[1].on = a
      /\ S[2].do = "append" /\ S[2].on = a /\ S[2].event = e
    BY <1>2 DEF Find, AppendNow
<1>5. \A k, b : AddedAfter(op, k, b) = <<>>
    BY DEF AddedAfter
<1>. HIDE DEF S, e, a
<1>6. ASSUME NEW k \in 1..2 PROVE StatementSound(op, S, k)
  <2>1. CASE k = 1
    BY <1>4, <1>5, <2>1 DEF StatementSound, Loading
  <2>2. CASE k = 2
    BY <1>4, <1>5, <2>2 DEF StatementSound, Loading
  <2>. QED
    BY <2>1, <2>2
<1>7. PlanSound(op, S)
    BY <1>3, <1>4, <1>5, <1>6 DEF PlanSound
<1>. QED
    BY <1>4, <1>7 DEF S

LEMMA WithdrawPlan ==
    ASSUME NEW op \in CashOps, op.kind = "withdraw"
    PROVE  PlanSound(op, Statements(op)) /\ Len(Statements(op)) = 3
<1> DEFINE a == op.acct
           S == Statements(op)
           e == Ev("MoneyDebited", op.amount)
<1>1. a \in AccountIDs /\ op.amount \in Nat
    BY StreamsAssumption DEF CashOps
<1>2. S = <<Lock(a), Cover(a, op.amount), Insert(a, e)>>
    BY DEF Statements, WithdrawAvailable
<1>3. S \in Seq(Stmts)
  <2>1. e \in Events
    BY <1>1, EventTypesOK DEF EventTypes
  <2>2. Lock(a) \in Stmts /\ Cover(a, op.amount) \in Stmts /\ Insert(a, e) \in Stmts
    BY <1>1, <2>1, StatementTypes DEF Locks
  <2>. QED
    BY <1>2, <2>2
<1>4. /\ Len(S) = 3 /\ S[1].do = "lock" /\ S[1].on = a /\ S[2].do = "cover" /\ S[2].on = a
      /\ S[3].do = "insert" /\ S[3].on = a /\ S[3].event = e
    BY <1>2 DEF Lock, Cover, Insert
<1>5. \A k, b : AddedAfter(op, k, b) = Once(b, a, k, 3, e)
    BY DEF AddedAfter
<1>. HIDE DEF S, e, a
<1>6. ASSUME NEW k \in 1..3 PROVE StatementSound(op, S, k)
  <2>1. CASE k = 1
    BY <1>4, <1>5, <2>1 DEF StatementSound, Once, Loading
  <2>2. CASE k = 2
    BY <1>4, <1>5, <2>2 DEF StatementSound, Once, Loading
  <2>3. CASE k = 3
    <3>1. \E j \in 1..(3 - 1) : S[j].do = "lock" /\ S[j].on = S[3].on
      BY <1>4
    <3>2. \A b : AddedAfter(op, 3, b) = IF b = a THEN <<e>> ELSE <<>>
      BY <1>5 DEF Once
    <3>3. \A b : AddedAfter(op, 3 - 1, b) = <<>>
      BY <1>5 DEF Once
    <3>4. Append(<<>>, e) = <<e>>
      BY Alone
    <3>5. \A b : AddedAfter(op, 3, b) =
            IF b = a THEN Append(AddedAfter(op, 3 - 1, b), e) ELSE AddedAfter(op, 3 - 1, b)
      BY <3>2, <3>3, <3>4
    <3>. QED
      BY <1>4, <2>3, <3>1, <3>5 DEF StatementSound, Loading
  <2>. QED
    BY <2>1, <2>2, <2>3
<1>7. \A b \in AccountIDs : AddedAfter(op, 0, b) = <<>>
    BY <1>5 DEF Once
<1>8. PlanSound(op, S)
    BY <1>3, <1>4, <1>6, <1>7 DEF PlanSound
<1>. QED
    BY <1>4, <1>8 DEF S

LEMMA ReservePlan ==
    ASSUME NEW op \in TransferOps, op.kind = "reserve"
    PROVE  PlanSound(op, Statements(op)) /\ Len(Statements(op)) = 5
<1> DEFINE t == op.id
           src == Transfers[t].src
           dst == Transfers[t].dst
           m == Total(t)
           S == Statements(op)
           e == Ev("FundsReserved", m)
<1>1. /\ src \in AccountIDs /\ dst \in AccountIDs /\ src # dst /\ m \in Nat
      /\ RowLock(op) = src
  <2>1. t \in TransferIDs
    BY DEF TransferOps
  <2>. QED
    BY <2>1, TransferFacts DEF RowLock
<1>2. S = <<Lock(src), CheckRow, Cover(src, m), Find(dst), Insert(src, e)>>
    BY DEF Statements, ReserveTransferFunds
<1>3. S \in Seq(Stmts)
  <2>1. e \in Events
    BY <1>1, EventTypesOK DEF EventTypes
  <2>2. /\ Lock(src) \in Stmts /\ CheckRow \in Stmts /\ Cover(src, m) \in Stmts
        /\ Find(dst) \in Stmts /\ Insert(src, e) \in Stmts
    BY <1>1, <2>1, StatementTypes DEF Locks
  <2>. QED
    BY <1>2, <2>2
<1>4. /\ Len(S) = 5 /\ S[1].do = "lock" /\ S[1].on = src /\ S[2].do = "row"
      /\ S[3].do = "cover" /\ S[3].on = src /\ S[4].do = "find" /\ S[4].on = dst
      /\ S[5].do = "insert" /\ S[5].on = src /\ S[5].event = e
    BY <1>2 DEF Lock, CheckRow, Cover, Find, Insert
<1>5. \A k, b : AddedAfter(op, k, b) = Once(b, src, k, 5, e)
    BY DEF AddedAfter
<1>. HIDE DEF S, e, src, dst, m
<1>6. ASSUME NEW k \in 1..5 PROVE StatementSound(op, S, k)
  <2>1. CASE k = 1
    BY <1>1, <1>4, <1>5, <2>1 DEF StatementSound, Once, Loading
  <2>2. CASE k = 2
    BY <1>1, <1>4, <1>5, <2>2 DEF StatementSound, Once, Loading
  <2>3. CASE k = 3
    BY <1>1, <1>4, <1>5, <2>3 DEF StatementSound, Once, Loading
  <2>4. CASE k = 4
    BY <1>1, <1>4, <1>5, <2>4 DEF StatementSound, Once, Loading
  <2>5. CASE k = 5
    <3>1. \E j \in 1..(5 - 1) : S[j].do = "lock" /\ S[j].on = S[5].on
      BY <1>4
    <3>2. \A b : AddedAfter(op, 5, b) = IF b = src THEN <<e>> ELSE <<>>
      BY <1>5 DEF Once
    <3>3. \A b : AddedAfter(op, 5 - 1, b) = <<>>
      BY <1>5 DEF Once
    <3>4. Append(<<>>, e) = <<e>>
      BY Alone
    <3>5. \A b : AddedAfter(op, 5, b) =
            IF b = src THEN Append(AddedAfter(op, 5 - 1, b), e) ELSE AddedAfter(op, 5 - 1, b)
      BY <3>2, <3>3, <3>4
    <3>. QED
      BY <1>4, <2>5, <3>1, <3>5 DEF StatementSound, Loading
  <2>. QED
    BY <2>1, <2>2, <2>3, <2>4, <2>5
<1>7. \A b \in AccountIDs : AddedAfter(op, 0, b) = <<>>
    BY <1>5 DEF Once
<1>8. PlanSound(op, S)
    BY <1>3, <1>4, <1>6, <1>7 DEF PlanSound
<1>. QED
    BY <1>4, <1>8 DEF S

LEMMA FinishPlan ==
    ASSUME NEW op \in TransferOps, op.kind \in {"capture", "release"}
    PROVE  PlanSound(op, Statements(op)) /\ Len(Statements(op)) = 4
<1> DEFINE t == op.id
           type == IF op.kind = "capture" THEN "ReservationCaptured" ELSE "ReservationReleased"
           src == Transfers[t].src
           m == Total(t)
           S == Statements(op)
           e == Ev(type, m)
<1>1. src \in AccountIDs /\ m \in Nat /\ RowLock(op) = src
  <2>1. t \in TransferIDs
    BY DEF TransferOps
  <2>. QED
    BY <2>1, TransferFacts DEF RowLock
<1>2. S = <<Lock(src), CheckRow, Load(src), Insert(src, e)>>
    BY DEF Statements, FinishTransferReservation
<1>3. S \in Seq(Stmts)
  <2>1. e \in Events
    BY <1>1, EventTypesOK DEF EventTypes
  <2>2. /\ Lock(src) \in Stmts /\ CheckRow \in Stmts /\ Load(src) \in Stmts
        /\ Insert(src, e) \in Stmts
    BY <1>1, <2>1, StatementTypes DEF Locks
  <2>. QED
    BY <1>2, <2>2
<1>4. /\ Len(S) = 4 /\ S[1].do = "lock" /\ S[1].on = src /\ S[2].do = "row"
      /\ S[3].do = "load" /\ S[3].on = src
      /\ S[4].do = "insert" /\ S[4].on = src /\ S[4].event = e
    BY <1>2 DEF Lock, CheckRow, Load, Insert
<1>5. \A k, b : AddedAfter(op, k, b) = Once(b, src, k, 4, e)
    BY DEF AddedAfter
<1>. HIDE DEF S, e, src, m
<1>6. ASSUME NEW k \in 1..4 PROVE StatementSound(op, S, k)
  <2>1. CASE k = 1
    BY <1>1, <1>4, <1>5, <2>1 DEF StatementSound, Once, Loading
  <2>2. CASE k = 2
    BY <1>1, <1>4, <1>5, <2>2 DEF StatementSound, Once, Loading
  <2>3. CASE k = 3
    BY <1>1, <1>4, <1>5, <2>3 DEF StatementSound, Once, Loading
  <2>4. CASE k = 4
    <3>1. \E j \in 1..(4 - 1) : S[j].do = "lock" /\ S[j].on = S[4].on
      BY <1>4
    <3>2. \A b : AddedAfter(op, 4, b) = IF b = src THEN <<e>> ELSE <<>>
      BY <1>5 DEF Once
    <3>3. \A b : AddedAfter(op, 4 - 1, b) = <<>>
      BY <1>5 DEF Once
    <3>4. Append(<<>>, e) = <<e>>
      BY Alone
    <3>5. \A b : AddedAfter(op, 4, b) =
            IF b = src THEN Append(AddedAfter(op, 4 - 1, b), e) ELSE AddedAfter(op, 4 - 1, b)
      BY <3>2, <3>3, <3>4
    <3>. QED
      BY <1>4, <2>4, <3>1, <3>5 DEF StatementSound, Loading
  <2>. QED
    BY <2>1, <2>2, <2>3, <2>4
<1>7. \A b \in AccountIDs : AddedAfter(op, 0, b) = <<>>
    BY <1>5 DEF Once
<1>8. PlanSound(op, S)
    BY <1>3, <1>4, <1>6, <1>7 DEF PlanSound
<1>. QED
    BY <1>4, <1>8 DEF S

LEMMA ReversePlan ==
    ASSUME NEW op \in TransferOps, op.kind = "reverse"
    PROVE  PlanSound(op, Statements(op)) /\ Len(Statements(op)) = 8
<1> DEFINE t == op.id
           src == Transfers[t].src
           dst == Transfers[t].dst
           S == Statements(op)
           D == Ev("MoneyDebited", Transfers[t].amount)
           C == Ev("MoneyCredited", Total(t))
<1>1. /\ t \in TransferIDs /\ RowLock(op) = t
    BY DEF TransferOps, RowLock
<1>2. /\ src \in AccountIDs /\ dst \in AccountIDs /\ src # dst
    BY <1>1, TransferFacts
<1>3. S = ReverseTransfer(t)
    BY DEF Statements
<1>4. /\ S \in Seq(Stmts) /\ Len(S) = 8 /\ S[1] = Lock(t) /\ S[2] = CheckRow
      /\ S[3] = Lock(First(t)) /\ S[4] = Lock(Second(t))
      /\ S[5] = Cover(dst, Transfers[t].amount) /\ S[6] = Insert(dst, D)
      /\ S[7] = Load(src) /\ S[8] = Insert(src, C)
    BY <1>1, <1>3, ReverseStatements
<1>. HIDE DEF S
<1>5. /\ S[1].do = "lock" /\ S[1].on = t /\ S[2].do = "row"
      /\ S[3].do = "lock" /\ S[3].on = First(t) /\ S[4].do = "lock" /\ S[4].on = Second(t)
      /\ S[5].do = "cover" /\ S[5].on = dst
      /\ S[6].do = "insert" /\ S[6].on = dst /\ S[6].event = D
      /\ S[7].do = "load" /\ S[7].on = src
      /\ S[8].do = "insert" /\ S[8].on = src /\ S[8].event = C
    BY <1>4 DEF Lock, CheckRow, Cover, Load, Insert
<1>6. /\ \A k : AddedAfter(op, k, src) = Once(src, src, k, 8, C)
      /\ \A k : AddedAfter(op, k, dst) = Once(dst, dst, k, 6, D)
      /\ \A k, b : b # src /\ b # dst => AddedAfter(op, k, b) = <<>>
    BY <1>2 DEF AddedAfter, Once
<1>7. /\ Rank(t) < Rank(First(t)) /\ Rank(First(t)) < Rank(Second(t))
      /\ Rank(t) < Rank(Second(t)) /\ {First(t), Second(t)} = {src, dst}
    BY <1>1, LockRanks, LocksOrdered
<1>. HIDE DEF src, dst, C, D, t
<1>8. ASSUME NEW k \in 1..8 PROVE StatementSound(op, S, k)
  <2>1. CASE k = 1
    BY <1>1, <1>2, <1>5, <1>6, <1>7, <2>1 DEF StatementSound, Once, Loading
  <2>2. CASE k = 2
    BY <1>1, <1>2, <1>5, <1>6, <1>7, <2>2 DEF StatementSound, Once, Loading
  <2>3. CASE k = 3
    BY <1>1, <1>2, <1>5, <1>6, <1>7, <2>3 DEF StatementSound, Once, Loading
  <2>4. CASE k = 4
    BY <1>1, <1>2, <1>5, <1>6, <1>7, <2>4 DEF StatementSound, Once, Loading
  <2>5. CASE k = 5
    BY <1>1, <1>2, <1>5, <1>6, <1>7, <2>5 DEF StatementSound, Once, Loading
  <2>6. CASE k = 6
    <3>1. \E j \in 1..(6 - 1) : S[j].do = "lock" /\ S[j].on = S[6].on
      <4>1. dst = First(t) \/ dst = Second(t)
        BY <1>7
      <4>. QED
        BY <1>5, <4>1
    <3>2. \A b : AddedAfter(op, 6, b) = IF b = dst THEN <<D>> ELSE <<>>
      BY <1>2, <1>6 DEF Once
    <3>3. \A b : AddedAfter(op, 6 - 1, b) = <<>>
      BY <1>2, <1>6 DEF Once
    <3>4. Append(<<>>, D) = <<D>>
      BY Alone
    <3>5. \A b : AddedAfter(op, 6, b) =
            IF b = dst THEN Append(AddedAfter(op, 6 - 1, b), D) ELSE AddedAfter(op, 6 - 1, b)
      BY <1>2, <3>2, <3>3, <3>4
    <3>. QED
      BY <1>5, <2>6, <3>1, <3>5 DEF StatementSound, Loading
  <2>7. CASE k = 7
    BY <1>1, <1>2, <1>5, <1>6, <1>7, <2>7 DEF StatementSound, Once, Loading
  <2>8. CASE k = 8
    <3>1. \E j \in 1..(8 - 1) : S[j].do = "lock" /\ S[j].on = S[8].on
      <4>1. src = First(t) \/ src = Second(t)
        BY <1>7
      <4>. QED
        BY <1>5, <4>1
    <3>2. \A b : AddedAfter(op, 8, b) = IF b = dst THEN <<D>> ELSE IF b = src THEN <<C>> ELSE <<>>
      BY <1>2, <1>6 DEF Once
    <3>3. \A b : AddedAfter(op, 8 - 1, b) = IF b = dst THEN <<D>> ELSE <<>>
      BY <1>2, <1>6 DEF Once
    <3>4. Append(<<>>, C) = <<C>>
      BY Alone
    <3>5. \A b : AddedAfter(op, 8, b) =
            IF b = src THEN Append(AddedAfter(op, 8 - 1, b), C) ELSE AddedAfter(op, 8 - 1, b)
      BY <1>2, <3>2, <3>3, <3>4
    <3>. QED
      BY <1>5, <2>8, <3>1, <3>5 DEF StatementSound, Loading
  <2>. QED
    BY <2>1, <2>2, <2>3, <2>4, <2>5, <2>6, <2>7, <2>8
<1>9. \A b \in AccountIDs : AddedAfter(op, 0, b) = <<>>
    BY <1>6 DEF Once
<1>10. PlanSound(op, S)
    BY <1>4, <1>8, <1>9 DEF PlanSound
<1>. QED
    BY <1>4, <1>10 DEF S

LEMMA PostPlan ==
    ASSUME NEW op \in TransferOps, op.kind = "post"
    PROVE  PlanSound(op, Statements(op))
           /\ Len(Statements(op)) = 6 + Len(SourceEntries(op.id))
<1> DEFINE t == op.id
           src == Transfers[t].src
           dst == Transfers[t].dst
           fee == Transfers[t].fee
           S == Statements(op)
           F == Ev("MoneyDebited", fee)
           A == Ev("MoneyDebited", Transfers[t].amount)
           C == Ev("MoneyCredited", Transfers[t].amount)
<1>1. t \in TransferIDs /\ RowLock(op) = src
    BY DEF TransferOps, RowLock
<1>2. /\ src \in AccountIDs /\ dst \in AccountIDs /\ src # dst
    BY <1>1, TransferFacts
<1>3. S = PostTransferLedger(t)
    BY DEF Statements
<1>4. SourceEntries(t) = IF fee > 0 THEN <<F, A>> ELSE <<A>>
    BY <1>1, EntriesOfSource
<1>5. /\ S \in Seq(Stmts)
      /\ S[1] = Lock(First(t)) /\ S[2] = Lock(Second(t)) /\ S[3] = CheckRow
      /\ S[4] = Load(src) /\ S[5] = Load(dst)
      /\ IF fee > 0
         THEN /\ Len(S) = 8 /\ S[6] = Insert(src, F) /\ S[7] = Insert(src, A)
              /\ S[8] = Insert(dst, C)
         ELSE Len(S) = 7 /\ S[6] = Insert(src, A) /\ S[7] = Insert(dst, C)
    BY <1>1, <1>3, PostStatements
<1>. HIDE DEF S
<1>6. /\ S[1].do = "lock" /\ S[1].on = First(t) /\ S[2].do = "lock" /\ S[2].on = Second(t)
      /\ S[3].do = "row" /\ S[4].do = "load" /\ S[4].on = src
      /\ S[5].do = "load" /\ S[5].on = dst
    BY <1>5 DEF Lock, CheckRow, Load
<1>7. /\ Rank(First(t)) < Rank(Second(t))
      /\ {First(t), Second(t)} = {src, dst}
    BY <1>1, LockRanks, LocksOrdered
<1>8. \A k, b : AddedAfter(op, k, b) =
        IF b = src
        THEN IF k >= 5 + Len(SourceEntries(t)) THEN SourceEntries(t)
             ELSE IF k = 6 THEN <<SourceEntries(t)[1]>> ELSE <<>>
        ELSE Once(b, dst, k, 6 + Len(SourceEntries(t)), C)
    BY DEF AddedAfter
<1>. HIDE DEF src, dst, F, A, C, t, fee
<1>9. CASE fee > 0
  <2>1. /\ Len(S) = 8
        /\ S[1].do = "lock" /\ S[1].on = First(t) /\ S[2].do = "lock" /\ S[2].on = Second(t)
        /\ S[3].do = "row" /\ S[4].do = "load" /\ S[4].on = src
        /\ S[5].do = "load" /\ S[5].on = dst
        /\ S[6].do = "insert" /\ S[6].on = src /\ S[6].event = F
        /\ S[7].do = "insert" /\ S[7].on = src /\ S[7].event = A
        /\ S[8].do = "insert" /\ S[8].on = dst /\ S[8].event = C
    BY <1>5, <1>6, <1>9 DEF Insert
  <2>2. \A k, b : AddedAfter(op, k, b) =
          IF b = src THEN IF k >= 7 THEN <<F, A>> ELSE IF k = 6 THEN <<F>> ELSE <<>>
                     ELSE Once(b, dst, k, 8, C)
    <3>1. SourceEntries(t) = <<F, A>>
      BY <1>4, <1>9
    <3>2. Len(SourceEntries(t)) = 2 /\ SourceEntries(t)[1] = F
      BY <3>1
    <3>3. 5 + Len(SourceEntries(t)) = 7 /\ 6 + Len(SourceEntries(t)) = 8
      BY <3>2
    <3>. QED
      BY <1>8, <3>1, <3>2, <3>3
  <2>3. /\ Append(<<>>, F) = <<F>> /\ Append(<<F>>, A) = <<F, A>> /\ Append(<<>>, C) = <<C>>
    BY AppendedPair
  <2>4. ASSUME NEW k \in 1..8 PROVE StatementSound(op, S, k)
    <3>1. CASE k = 1
      BY <1>1, <1>2, <1>6, <2>1, <2>2, <1>7, <3>1 DEF StatementSound, Once, Loading
    <3>2. CASE k = 2
      BY <1>1, <1>2, <1>6, <2>1, <2>2, <1>7, <3>2 DEF StatementSound, Once, Loading
    <3>3. CASE k = 3
      <4>1. \E j \in 1..(3 - 1) : S[j].do = "lock" /\ S[j].on = RowLock(op)
        <5>1. src = First(t) \/ src = Second(t)
          BY <1>7
        <5>. QED
          BY <1>1, <1>6, <5>1
      <4>2. \A b : AddedAfter(op, 3, b) = AddedAfter(op, 3 - 1, b)
        BY <2>2 DEF Once
      <4>. QED
        BY <1>6, <3>3, <4>1, <4>2 DEF StatementSound, Loading
    <3>4. CASE k = 4
      BY <1>1, <1>2, <1>6, <2>1, <2>2, <1>7, <3>4 DEF StatementSound, Once, Loading
    <3>5. CASE k = 5
      BY <1>1, <1>2, <1>6, <2>1, <2>2, <1>7, <3>5 DEF StatementSound, Once, Loading
    <3>6. CASE k = 6
      <4>1. \E j \in 1..(6 - 1) : S[j].do = "lock" /\ S[j].on = S[6].on
        <5>1. src = First(t) \/ src = Second(t)
          BY <1>7
        <5>. QED
          BY <1>6, <2>1, <5>1
      <4>2. \A b : AddedAfter(op, 6, b) = IF b = src THEN <<F>> ELSE <<>>
        BY <1>2, <2>2 DEF Once
      <4>3. \A b : AddedAfter(op, 6 - 1, b) = <<>>
        BY <1>2, <2>2 DEF Once
      <4>4. \A b : AddedAfter(op, 6, b) =
              IF b = src THEN Append(AddedAfter(op, 6 - 1, b), F)
                         ELSE AddedAfter(op, 6 - 1, b)
        BY <1>2, <2>3, <4>2, <4>3
      <4>. QED
        BY <2>1, <3>6, <4>1, <4>4 DEF StatementSound, Loading
    <3>7. CASE k = 7
      <4>1. \E j \in 1..(7 - 1) : S[j].do = "lock" /\ S[j].on = S[7].on
        <5>1. src = First(t) \/ src = Second(t)
          BY <1>7
        <5>. QED
          BY <1>6, <2>1, <5>1
      <4>2. \A b : AddedAfter(op, 7, b) = IF b = src THEN <<F, A>> ELSE <<>>
        BY <1>2, <2>2 DEF Once
      <4>3. \A b : AddedAfter(op, 7 - 1, b) = IF b = src THEN <<F>> ELSE <<>>
        BY <1>2, <2>2 DEF Once
      <4>4. \A b : AddedAfter(op, 7, b) =
              IF b = src THEN Append(AddedAfter(op, 7 - 1, b), A)
                         ELSE AddedAfter(op, 7 - 1, b)
        BY <1>2, <2>3, <4>2, <4>3
      <4>. QED
        BY <2>1, <3>7, <4>1, <4>4 DEF StatementSound, Loading
    <3>8. CASE k = 8
      <4>1. \E j \in 1..(8 - 1) : S[j].do = "lock" /\ S[j].on = S[8].on
        <5>1. dst = First(t) \/ dst = Second(t)
          BY <1>7
        <5>. QED
          BY <1>6, <2>1, <5>1
      <4>2. \A b : AddedAfter(op, 8, b) = IF b = src THEN <<F, A>> ELSE IF b = dst THEN <<C>> ELSE <<>>
        BY <1>2, <2>2 DEF Once
      <4>3. \A b : AddedAfter(op, 8 - 1, b) = IF b = src THEN <<F, A>> ELSE <<>>
        BY <1>2, <2>2 DEF Once
      <4>4. \A b : AddedAfter(op, 8, b) =
              IF b = dst THEN Append(AddedAfter(op, 8 - 1, b), C)
                         ELSE AddedAfter(op, 8 - 1, b)
        BY <1>2, <2>3, <4>2, <4>3
      <4>. QED
        BY <2>1, <3>8, <4>1, <4>4 DEF StatementSound, Loading
    <3>. QED
      BY <3>1, <3>2, <3>3, <3>4, <3>5, <3>6, <3>7, <3>8
  <2>5. \A b \in AccountIDs : AddedAfter(op, 0, b) = <<>>
    BY <2>2 DEF Once
  <2>6. Len(SourceEntries(t)) = 2
    BY <1>4, <1>9
  <2>7. PlanSound(op, S) /\ Len(S) = 6 + Len(SourceEntries(t))
    BY <1>5, <2>1, <2>4, <2>5, <2>6 DEF PlanSound
  <2>. QED
    BY <2>7 DEF S, t
<1>10. CASE ~(fee > 0)
  <2>1. /\ Len(S) = 7
        /\ S[1].do = "lock" /\ S[1].on = First(t) /\ S[2].do = "lock" /\ S[2].on = Second(t)
        /\ S[3].do = "row" /\ S[4].do = "load" /\ S[4].on = src
        /\ S[5].do = "load" /\ S[5].on = dst
        /\ S[6].do = "insert" /\ S[6].on = src /\ S[6].event = A
        /\ S[7].do = "insert" /\ S[7].on = dst /\ S[7].event = C
    BY <1>5, <1>6, <1>10 DEF Insert
  <2>2. \A k, b : AddedAfter(op, k, b) =
          IF b = src THEN IF k >= 6 THEN <<A>> ELSE IF k = 6 THEN <<A>> ELSE <<>>
                     ELSE Once(b, dst, k, 7, C)
    <3>1. SourceEntries(t) = <<A>>
      BY <1>4, <1>10
    <3>2. Len(SourceEntries(t)) = 1 /\ SourceEntries(t)[1] = A
      BY <3>1
    <3>3. 5 + Len(SourceEntries(t)) = 6 /\ 6 + Len(SourceEntries(t)) = 7
      BY <3>2
    <3>. QED
      BY <1>8, <3>1, <3>2, <3>3
  <2>3. Append(<<>>, A) = <<A>> /\ Append(<<>>, C) = <<C>>
    BY Alone
  <2>4. ASSUME NEW k \in 1..7 PROVE StatementSound(op, S, k)
    <3>1. CASE k = 1
      BY <1>1, <1>2, <1>6, <2>1, <2>2, <1>7, <3>1 DEF StatementSound, Once, Loading
    <3>2. CASE k = 2
      BY <1>1, <1>2, <1>6, <2>1, <2>2, <1>7, <3>2 DEF StatementSound, Once, Loading
    <3>3. CASE k = 3
      <4>1. \E j \in 1..(3 - 1) : S[j].do = "lock" /\ S[j].on = RowLock(op)
        <5>1. src = First(t) \/ src = Second(t)
          BY <1>7
        <5>. QED
          BY <1>1, <1>6, <5>1
      <4>2. \A b : AddedAfter(op, 3, b) = AddedAfter(op, 3 - 1, b)
        BY <2>2 DEF Once
      <4>. QED
        BY <1>6, <3>3, <4>1, <4>2 DEF StatementSound, Loading
    <3>4. CASE k = 4
      BY <1>1, <1>2, <1>6, <2>1, <2>2, <1>7, <3>4 DEF StatementSound, Once, Loading
    <3>5. CASE k = 5
      BY <1>1, <1>2, <1>6, <2>1, <2>2, <1>7, <3>5 DEF StatementSound, Once, Loading
    <3>6. CASE k = 6
      <4>1. \E j \in 1..(6 - 1) : S[j].do = "lock" /\ S[j].on = S[6].on
        <5>1. src = First(t) \/ src = Second(t)
          BY <1>7
        <5>. QED
          BY <1>6, <2>1, <5>1
      <4>2. \A b : AddedAfter(op, 6, b) = IF b = src THEN <<A>> ELSE <<>>
        BY <1>2, <2>2 DEF Once
      <4>3. \A b : AddedAfter(op, 6 - 1, b) = <<>>
        BY <1>2, <2>2 DEF Once
      <4>4. \A b : AddedAfter(op, 6, b) =
              IF b = src THEN Append(AddedAfter(op, 6 - 1, b), A)
                         ELSE AddedAfter(op, 6 - 1, b)
        BY <1>2, <2>3, <4>2, <4>3
      <4>. QED
        BY <2>1, <3>6, <4>1, <4>4 DEF StatementSound, Loading
    <3>7. CASE k = 7
      <4>1. \E j \in 1..(7 - 1) : S[j].do = "lock" /\ S[j].on = S[7].on
        <5>1. dst = First(t) \/ dst = Second(t)
          BY <1>7
        <5>. QED
          BY <1>6, <2>1, <5>1
      <4>2. \A b : AddedAfter(op, 7, b) = IF b = src THEN <<A>> ELSE IF b = dst THEN <<C>> ELSE <<>>
        BY <1>2, <2>2 DEF Once
      <4>3. \A b : AddedAfter(op, 7 - 1, b) = IF b = src THEN <<A>> ELSE <<>>
        BY <1>2, <2>2 DEF Once
      <4>4. \A b : AddedAfter(op, 7, b) =
              IF b = dst THEN Append(AddedAfter(op, 7 - 1, b), C)
                         ELSE AddedAfter(op, 7 - 1, b)
        BY <1>2, <2>3, <4>2, <4>3
      <4>. QED
        BY <2>1, <3>7, <4>1, <4>4 DEF StatementSound, Loading
    <3>. QED
      BY <3>1, <3>2, <3>3, <3>4, <3>5, <3>6, <3>7
  <2>5. \A b \in AccountIDs : AddedAfter(op, 0, b) = <<>>
    BY <2>2 DEF Once
  <2>6. Len(SourceEntries(t)) = 1
    BY <1>4, <1>10
  <2>7. PlanSound(op, S) /\ Len(S) = 6 + Len(SourceEntries(t))
    BY <1>5, <2>1, <2>4, <2>5, <2>6 DEF PlanSound
  <2>. QED
    BY <2>7 DEF S, t
<1>. QED
    BY <1>9, <1>10

LEMMA Plans ==
    ASSUME NEW op \in Ops
    PROVE  PlanSound(op, Statements(op))
<1>1. CASE op \in CashOps
  <2>1. op.kind = "deposit" \/ op.kind = "withdraw"
    BY <1>1 DEF CashOps
  <2>. QED
    BY <1>1, <2>1, DepositPlan, WithdrawPlan
<1>2. CASE op \in TransferOps
  <2>1. op.kind \in {"reserve", "post", "capture", "release", "reverse"}
    BY <1>2 DEF TransferOps, Kinds
  <2>. QED
    BY <1>2, <2>1, ReservePlan, PostPlan, FinishPlan, ReversePlan
<1>. QED
    BY <1>1, <1>2 DEF Ops

-----------------------------------------------------------------------------
(* A transaction under way *)

(* What the rows h, po and re of the transfer must say. *)
Allowed(op, h, po, re) ==
    CASE op.kind = "reserve" -> h[op.id] = "none"
      [] op.kind = "post"    -> op.id \notin po
      [] op.kind \in {"capture", "release"} -> h[op.id] = "reserved"
      [] op.kind = "reverse" -> op.id \notin re

(* todo is what remains of S after k statements. *)
Follows(todo, S, k) ==
    /\ k \in Nat /\ k <= Len(S)
    /\ todo \in Seq(Stmts) /\ Len(todo) = Len(S) - k
    /\ \A j \in 1..Len(todo) : todo[j] = S[k + j]

HeldAfter(S, k) == {S[i].on : i \in {j \in 1..k : S[j].do = "lock"}}

Prefix(s, z) == Len(s) <= Len(z) /\ \A i \in 1..Len(s) : z[i] = s[i]

(* A loaded stream v is a prefix of the committed one, s; once events ad   *)
(* have been inserted after it nothing has come in between.                *)
Fits(v, ad, s) == IF ad = <<>> THEN Prefix(v, s) ELSE s \o ad = v

(* What the transaction has read of the stream. *)
Seen(v, ad, s) == IF ad = <<>> THEN v ELSE s

(* What statement s of transaction x has established still holds. *)
StillHolds(s, x, str, h, po, re) ==
    /\ s.do # "append"
    /\ s.do = "row" => Allowed(x.op, h, po, re)
    /\ Loading(s) => Acceptable(s, Seen(x.view[s.on], x.added[s.on], str[s.on]))

TxSound(x, k, str, h, po, re) ==
    LET S == Statements(x.op) IN
    /\ x.op \in Ops
    /\ Follows(x.todo, S, k)
    /\ x.locks = HeldAfter(S, k)
    /\ \A a \in AccountIDs : x.added[a] = AddedAfter(x.op, k, a)
    /\ \A a \in AccountIDs : x.added[a] # <<>> => a \in x.locks
    /\ \A a \in AccountIDs : Fits(x.view[a], x.added[a], str[a])
    /\ \A i \in 1..k : StillHolds(S[i], x, str, h, po, re)
    /\ x.op.kind = "reverse" => x.op.id \in po

TxOK(x, str, h, po, re) ==
    \/ \E answer \in Answers : x = Ended(answer)
    \/ \E k \in Nat : TxSound(x, k, str, h, po, re)

Txs == [op : Ops \cup {NoOp}, answer : Answers, todo : Seq(Stmts), locks : SUBSET Locks,
        view : [AccountIDs -> Seq(Events)], added : [AccountIDs -> Seq(Events)]]

TablesTyped ==
    /\ streams \in [AccountIDs -> Seq(Events)]
    /\ hold \in [TransferIDs -> HoldStates]
    /\ posted \subseteq TransferIDs /\ reversed \subseteq posted
    /\ workload \in DOMAIN Workloads

TxsTyped ==
    /\ tx \in [Processes -> Txs]
    /\ \A p \in Processes : tx[p].op \in Workloads[workload] \cup {NoOp}

TxsSound == \A p \in Processes : TxOK(tx[p], streams, hold, posted, reversed)

LocksExclusive ==
    \A p, q \in Processes : p # q => tx[p].locks \cap tx[q].locks = {}

(* At most one transaction has events pending on a stream. *)
PendingAlone ==
    \A p, q \in Processes, a \in AccountIDs :
        p # q => tx[p].added[a] = <<>> \/ tx[q].added[a] = <<>>

StreamsInv == TablesTyped /\ TxsTyped /\ TxsSound /\ LocksExclusive /\ PendingAlone

LEMMA FollowsHead ==
    ASSUME NEW S \in Seq(Stmts), NEW k, NEW todo, Follows(todo, S, k), todo # <<>>
    PROVE  /\ k \in Nat /\ k + 1 \in 1..Len(S) /\ Head(todo) = S[k + 1]
           /\ Follows(Tail(todo), S, k + 1)
<1>1. /\ todo \in Seq(Stmts) /\ k \in Nat /\ Len(todo) = Len(S) - k /\ Len(S) \in Nat
      /\ \A j \in 1..Len(todo) : todo[j] = S[k + j]
    BY DEF Follows
<1>2. Len(todo) >= 1
    BY <1>1
<1>3. Head(todo) = S[k + 1]
    BY <1>1, <1>2
<1>4. PICK z : z = Tail(todo)
    OBVIOUS
<1>5. z \in Seq(Stmts) /\ Len(z) = Len(todo) - 1 /\ \A j \in 1..Len(z) : z[j] = todo[j + 1]
    BY <1>1, <1>2, <1>4
<1>6. \A j \in 1..Len(z) : z[j] = S[k + 1 + j]
  <2>. SUFFICES ASSUME NEW j \in 1..Len(z) PROVE z[j] = S[k + 1 + j]
    OBVIOUS
  <2>1. j + 1 \in 1..Len(todo) /\ k + (j + 1) = k + 1 + j
    BY <1>1, <1>5
  <2>2. todo[j + 1] = S[k + (j + 1)]
    BY <1>1, <2>1
  <2>. QED
    BY <1>5, <2>1, <2>2
<1>7. Follows(z, S, k + 1)
    BY <1>1, <1>2, <1>5, <1>6 DEF Follows
<1>. QED
    BY <1>1, <1>2, <1>3, <1>4, <1>7

LEMMA FollowsEnd ==
    ASSUME NEW S \in Seq(Stmts), NEW k, NEW todo, Follows(todo, S, k), todo = <<>>
    PROVE  k = Len(S)
BY DEF Follows

LEMMA FollowsAll ==
    ASSUME NEW S \in Seq(Stmts)
    PROVE  Follows(S, S, 0)
BY DEF Follows

LEMMA RowAllowsIs ==
    ASSUME NEW op
    PROVE  RowAllows(op) = Allowed(op, hold, posted, reversed)
BY DEF RowAllows, Allowed

(* The statements already run are those before, and one more. *)
LEMMA HeldMore ==
    ASSUME NEW S \in Seq(Stmts), NEW k \in Nat
    PROVE  HeldAfter(S, k + 1) =
             HeldAfter(S, k) \cup (IF S[k + 1].do = "lock" THEN {S[k + 1].on} ELSE {})
<1>1. \A i : i \in 1..(k + 1) <=> i \in 1..k \/ i = k + 1
    OBVIOUS
<1>. QED
    BY <1>1 DEF HeldAfter

-----------------------------------------------------------------------------
(* One statement *)

Before(x, str, h, po, re, k) ==
    /\ x \in Txs /\ TxSound(x, k, str, h, po, re) /\ x.todo # <<>>
    /\ str \in [AccountIDs -> Seq(Events)]

LEMMA HeadFacts ==
    ASSUME NEW x, NEW k, NEW str, NEW h, NEW po, NEW re, Before(x, str, h, po, re, k)
    PROVE  /\ k \in Nat /\ x.op \in Ops /\ PlanSound(x.op, Statements(x.op))
           /\ Statements(x.op) \in Seq(Stmts)
           /\ k + 1 \in 1..Len(Statements(x.op))
           /\ Head(x.todo) = Statements(x.op)[k + 1] /\ Head(x.todo) \in Stmts
           /\ StatementSound(x.op, Statements(x.op), k + 1)
           /\ Follows(Tail(x.todo), Statements(x.op), k + 1)
           /\ Tail(x.todo) \in Seq(Stmts)
<1>1. PICK S : S = Statements(x.op)
    OBVIOUS
<1>2. x.op \in Ops /\ Follows(x.todo, S, k) /\ x.todo # <<>>
    BY <1>1 DEF Before, TxSound
<1>3. PlanSound(x.op, S)
    BY <1>1, <1>2, Plans
<1>4. S \in Seq(Stmts)
    BY <1>3 DEF PlanSound
<1>5. /\ k \in Nat /\ k + 1 \in 1..Len(S) /\ Head(x.todo) = S[k + 1]
      /\ Follows(Tail(x.todo), S, k + 1)
    BY <1>2, <1>4, FollowsHead
<1>6. StatementSound(x.op, S, k + 1)
    BY <1>3, <1>5 DEF PlanSound
<1>7. S[k + 1] \in Stmts
    BY <1>4, <1>5
<1>8. Tail(x.todo) \in Seq(Stmts)
    BY <1>5 DEF Follows
<1>. QED
    BY <1>1, <1>2, <1>3, <1>4, <1>5, <1>6, <1>7, <1>8

(* A statement that neither loads nor inserts leaves what was read. *)
LEMMA SameReads ==
    ASSUME NEW x, NEW y, NEW s, NEW str, NEW h, NEW po, NEW re,
           y.op = x.op, y.view = x.view, y.added = x.added,
           StillHolds(s, x, str, h, po, re)
    PROVE  StillHolds(s, y, str, h, po, re)
BY DEF StillHolds

LEMMA QuietStep ==
    ASSUME NEW x, NEW k, NEW str, NEW h, NEW po, NEW re, Before(x, str, h, po, re, k),
           NEW y, y \in Txs, y.op = x.op, y.view = x.view, y.added = x.added,
           y.todo = Tail(x.todo),
           Head(x.todo).do # "insert", StillHolds(Head(x.todo), x, str, h, po, re),
           y.locks = x.locks \cup (IF Head(x.todo).do = "lock" THEN {Head(x.todo).on} ELSE {})
    PROVE  TxSound(y, k + 1, str, h, po, re)
<1>1. PICK S : S = Statements(x.op)
    OBVIOUS
<1>2. /\ k \in Nat /\ x.op \in Ops /\ S \in Seq(Stmts)
      /\ k + 1 \in 1..Len(S) /\ Head(x.todo) = S[k + 1]
      /\ StatementSound(x.op, S, k + 1) /\ Follows(Tail(x.todo), S, k + 1)
    BY <1>1, HeadFacts
<1>3. /\ x.locks = HeldAfter(S, k)
      /\ \A a \in AccountIDs : x.added[a] = AddedAfter(x.op, k, a)
      /\ \A a \in AccountIDs : x.added[a] # <<>> => a \in x.locks
      /\ \A a \in AccountIDs : Fits(x.view[a], x.added[a], str[a])
      /\ \A i \in 1..k : StillHolds(S[i], x, str, h, po, re)
      /\ x.op.kind = "reverse" => x.op.id \in po
    BY <1>1 DEF Before, TxSound
<1>4. y.locks = HeldAfter(S, k + 1)
    BY <1>2, <1>3, HeldMore
<1>5. \A a \in AccountIDs : y.added[a] = AddedAfter(y.op, k + 1, a)
  <2>1. k + 1 - 1 = k
    BY <1>2
  <2>2. \A a \in AccountIDs : AddedAfter(x.op, k + 1, a) = AddedAfter(x.op, k + 1 - 1, a)
    BY <1>2 DEF StatementSound
  <2>. QED
    BY <1>3, <2>1, <2>2
<1>6. \A i \in 1..(k + 1) : StillHolds(S[i], y, str, h, po, re)
  <2>. SUFFICES ASSUME NEW i \in 1..(k + 1) PROVE StillHolds(S[i], y, str, h, po, re)
    OBVIOUS
  <2>1. StillHolds(S[i], x, str, h, po, re)
    <3>1. i \in 1..k \/ i = k + 1
      BY <1>2
    <3>. QED
      BY <1>2, <1>3, <3>1
  <2>. QED
    BY <2>1, SameReads
<1>. QED
    BY <1>1, <1>2, <1>3, <1>4, <1>5, <1>6 DEF TxSound

LEMMA LoadStep ==
    ASSUME NEW x, NEW k, NEW str, NEW h, NEW po, NEW re, Before(x, str, h, po, re, k),
           Loading(Head(x.todo)), Acceptable(Head(x.todo), str[Head(x.todo).on]),
           NEW y, y \in Txs, y.op = x.op, y.added = x.added, y.todo = Tail(x.todo),
           y.locks = x.locks,
           y.view = [x.view EXCEPT ![Head(x.todo).on] = str[Head(x.todo).on]]
    PROVE  TxSound(y, k + 1, str, h, po, re)
<1>1. PICK S : S = Statements(x.op)
    OBVIOUS
<1>2. /\ k \in Nat /\ x.op \in Ops /\ S \in Seq(Stmts)
      /\ k + 1 \in 1..Len(S) /\ Head(x.todo) = S[k + 1] /\ Head(x.todo) \in Stmts
      /\ StatementSound(x.op, S, k + 1) /\ Follows(Tail(x.todo), S, k + 1)
    BY <1>1, HeadFacts
<1>3. /\ x.locks = HeldAfter(S, k)
      /\ \A a \in AccountIDs : x.added[a] = AddedAfter(x.op, k, a)
      /\ \A a \in AccountIDs : x.added[a] # <<>> => a \in x.locks
      /\ \A a \in AccountIDs : Fits(x.view[a], x.added[a], str[a])
      /\ \A i \in 1..k : StillHolds(S[i], x, str, h, po, re)
      /\ x.op.kind = "reverse" => x.op.id \in po
    BY <1>1 DEF Before, TxSound
<1>4. PICK b : b = Head(x.todo).on
    OBVIOUS
<1>5. /\ S[k + 1].do \in {"load", "find", "cover"} /\ S[k + 1].on = b
      /\ b \in AccountIDs
    BY <1>2, <1>4 DEF Loading, Stmts
<1>6. k + 1 - 1 = k
    BY <1>2
<1>7. x.added[b] = <<>> /\ \A j \in 1..k : Loading(S[j]) => S[j].on # b
    BY <1>2, <1>3, <1>5, <1>6 DEF StatementSound
<1>8. y.locks = HeldAfter(S, k + 1)
  <2>1. S[k + 1].do # "lock"
    BY <1>5
  <2>2. HeldAfter(S, k + 1) =
          HeldAfter(S, k) \cup (IF S[k + 1].do = "lock" THEN {S[k + 1].on} ELSE {})
    BY <1>2, HeldMore
  <2>. QED
    BY <1>3, <2>1, <2>2
<1>9. \A a \in AccountIDs : y.added[a] = AddedAfter(y.op, k + 1, a)
  <2>1. \A a \in AccountIDs : AddedAfter(x.op, k + 1, a) = AddedAfter(x.op, k + 1 - 1, a)
    BY <1>2, <1>5 DEF StatementSound
  <2>. QED
    BY <1>3, <1>6, <2>1
<1>10. y.view[b] = str[b] /\ \A a \in AccountIDs : a # b => y.view[a] = x.view[a]
    BY <1>4, <1>5 DEF Before, Txs
<1>11. \A a \in AccountIDs : Fits(y.view[a], y.added[a], str[a])
  <2>1. Fits(str[b], <<>>, str[b])
    BY <1>5 DEF Before, Fits, Prefix
  <2>. QED
    BY <1>3, <1>7, <1>10, <2>1
<1>12. \A i \in 1..(k + 1) : StillHolds(S[i], y, str, h, po, re)
  <2>. SUFFICES ASSUME NEW i \in 1..(k + 1) PROVE StillHolds(S[i], y, str, h, po, re)
    OBVIOUS
  <2>1. CASE i \in 1..k
    <3>1. StillHolds(S[i], x, str, h, po, re)
      BY <1>3, <2>1
    <3>2. ASSUME Loading(S[i]) PROVE y.view[S[i].on] = x.view[S[i].on]
      <4>1. S[i] \in Stmts
        BY <1>2, <2>1
      <4>2. S[i].on \in AccountIDs
        BY <3>2, <4>1 DEF Loading, Stmts
      <4>. QED
        BY <1>7, <1>10, <2>1, <3>2, <4>2
    <3>. QED
      BY <3>1, <3>2 DEF StillHolds
  <2>2. CASE i = k + 1
    <3>1. Acceptable(S[i], Seen(y.view[b], y.added[b], str[b]))
      BY <1>2, <1>4, <1>7, <1>10, <2>2 DEF Seen
    <3>. QED
      BY <1>5, <2>2, <3>1 DEF StillHolds
  <2>. QED
    BY <1>2, <2>1, <2>2
<1>. QED
    BY <1>1, <1>2, <1>3, <1>8, <1>9, <1>11, <1>12 DEF TxSound

LEMMA WholeRead ==
    ASSUME NEW E, NEW x \in Seq(E), NEW y \in Seq(E), Prefix(x, y),
           Len(y) < Len(x) + 1
    PROVE  x = y
<1>1. Len(x) \in Nat /\ Len(y) \in Nat
    OBVIOUS
<1>2. Len(x) <= Len(y) /\ \A i \in 1..Len(x) : x[i] = y[i]
    BY DEF Prefix
<1>3. Len(x) = Len(y)
    BY <1>1, <1>2
<1>4. QED
    BY <1>2, <1>3, SameElements

(* y has event e after those of x on b. *)
Extended(y, x, b, e) ==
    /\ y.view[b] = Append(x.view[b], e) /\ y.added[b] = Append(x.added[b], e)
    /\ \A a \in AccountIDs : a # b => y.view[a] = x.view[a] /\ y.added[a] = x.added[a]

(* An insert where nothing has been committed: what was loaded is the      *)
(* whole stream.                                                           *)
LEMMA InsertStep ==
    ASSUME NEW x, NEW k, NEW str, NEW h, NEW po, NEW re, Before(x, str, h, po, re, k),
           Head(x.todo).do = "insert", NEW b, b = Head(x.todo).on,
           Len(str[b]) < Len(x.view[b]) + 1,
           NEW y, y \in Txs, y.op = x.op, y.todo = Tail(x.todo), y.locks = x.locks,
           Extended(y, x, b, Head(x.todo).event)
    PROVE  TxSound(y, k + 1, str, h, po, re) /\ (x.added[b] = <<>> => x.view[b] = str[b])
<1>1. PICK S : S = Statements(x.op)
    OBVIOUS
<1>2. /\ k \in Nat /\ x.op \in Ops /\ S \in Seq(Stmts)
      /\ k + 1 \in 1..Len(S) /\ Head(x.todo) = S[k + 1] /\ Head(x.todo) \in Stmts
      /\ StatementSound(x.op, S, k + 1) /\ Follows(Tail(x.todo), S, k + 1)
    BY <1>1, HeadFacts
<1>3. /\ x.locks = HeldAfter(S, k)
      /\ \A a \in AccountIDs : x.added[a] = AddedAfter(x.op, k, a)
      /\ \A a \in AccountIDs : x.added[a] # <<>> => a \in x.locks
      /\ \A a \in AccountIDs : Fits(x.view[a], x.added[a], str[a])
      /\ \A i \in 1..k : StillHolds(S[i], x, str, h, po, re)
      /\ x.op.kind = "reverse" => x.op.id \in po
    BY <1>1 DEF Before, TxSound
<1>4. PICK e : e = Head(x.todo).event
    OBVIOUS
<1>5. b \in AccountIDs /\ e \in Events /\ S[k + 1].do = "insert" /\ S[k + 1].on = b
      /\ S[k + 1].event = e
    BY <1>2, <1>4 DEF Stmts
<1>6. k + 1 - 1 = k
    BY <1>2
<1>7. /\ x.view[b] \in Seq(Events) /\ x.added[b] \in Seq(Events) /\ str[b] \in Seq(Events)
      /\ y.view[b] = Append(x.view[b], e) /\ y.added[b] = Append(x.added[b], e)
      /\ \A a \in AccountIDs : a # b => y.view[a] = x.view[a] /\ y.added[a] = x.added[a]
    BY <1>4, <1>5 DEF Extended, Before, Txs
<1>8. x.added[b] = <<>> => x.view[b] = str[b]
  <2>1. ASSUME x.added[b] = <<>> PROVE x.view[b] = str[b]
    <3>1. Prefix(x.view[b], str[b])
      BY <1>3, <1>5, <2>1 DEF Fits
    <3>2. x.view[b] \in Seq(Events) /\ str[b] \in Seq(Events) /\ Len(str[b]) < Len(x.view[b]) + 1
      BY <1>7
    <3>. QED
      BY <3>1, <3>2, WholeRead
  <2>. QED
    BY <2>1
<1>9. str[b] \o x.added[b] = x.view[b]
  <2>1. CASE x.added[b] = <<>>
    BY <1>7, <1>8, <2>1
  <2>2. CASE x.added[b] # <<>>
    BY <1>3, <1>5, <2>2 DEF Fits
  <2>. QED
    BY <2>1, <2>2
<1>10. str[b] \o y.added[b] = y.view[b] /\ y.added[b] # <<>>
  <2>1. \A s, z \in Seq(Events) : s \o Append(z, e) = Append(s \o z, e) /\ Append(z, e) # <<>>
    BY <1>5
  <2>2. str[b] \o Append(x.added[b], e) = Append(str[b] \o x.added[b], e)
    BY <1>7, <2>1, Zenon
  <2>3. Append(x.added[b], e) # <<>>
    BY <1>7, <2>1, Zenon
  <2>. QED
    BY <1>7, <1>9, <2>2, <2>3, Zenon
<1>11. \A a \in AccountIDs : Fits(y.view[a], y.added[a], str[a])
  <2>1. Fits(y.view[b], y.added[b], str[b])
    BY <1>10 DEF Fits
  <2>. QED
    BY <1>3, <1>7, <2>1
<1>12. y.locks = HeldAfter(S, k + 1)
  <2>1. S[k + 1].do # "lock"
    BY <1>5
  <2>2. HeldAfter(S, k + 1) =
          HeldAfter(S, k) \cup (IF S[k + 1].do = "lock" THEN {S[k + 1].on} ELSE {})
    BY <1>2, HeldMore
  <2>. QED
    BY <1>3, <2>1, <2>2
<1>13. \A a \in AccountIDs : y.added[a] = AddedAfter(y.op, k + 1, a)
  <2>1. \A a \in AccountIDs : AddedAfter(x.op, k + 1, a) =
          IF a = b THEN Append(AddedAfter(x.op, k + 1 - 1, a), e)
                   ELSE AddedAfter(x.op, k + 1 - 1, a)
    BY <1>2, <1>5 DEF StatementSound
  <2>2. ASSUME NEW a \in AccountIDs, a = b PROVE y.added[a] = AddedAfter(x.op, k + 1, a)
    <3>1. y.added[a] = Append(x.added[a], e) /\ x.added[a] = AddedAfter(x.op, k, a)
      BY <1>3, <1>7, <2>2
    <3>2. AddedAfter(x.op, k + 1, a) = Append(AddedAfter(x.op, k + 1 - 1, a), e)
      BY <2>1, <2>2
    <3>. QED
      BY ONLY <1>6, <3>1, <3>2, Zenon
  <2>3. ASSUME NEW a \in AccountIDs, a # b PROVE y.added[a] = AddedAfter(x.op, k + 1, a)
    <3>1. y.added[a] = x.added[a] /\ x.added[a] = AddedAfter(x.op, k, a)
      BY <1>3, <1>7, <2>3
    <3>2. AddedAfter(x.op, k + 1, a) = AddedAfter(x.op, k + 1 - 1, a)
      BY <2>1, <2>3
    <3>. QED
      BY ONLY <1>6, <3>1, <3>2, Zenon
  <2>. QED
    BY <2>2, <2>3
<1>15. \A a \in AccountIDs : y.added[a] # <<>> => a \in y.locks
  <2>1. \E j \in 1..k : S[j].do = "lock" /\ S[j].on = b
    BY <1>2, <1>5, <1>6 DEF StatementSound
  <2>2. b \in x.locks
    BY <1>3, <2>1 DEF HeldAfter
  <2>. QED
    BY <1>3, <1>7, <2>2
<1>14. \A i \in 1..(k + 1) : StillHolds(S[i], y, str, h, po, re)
  <2>. SUFFICES ASSUME NEW i \in 1..(k + 1) PROVE StillHolds(S[i], y, str, h, po, re)
    OBVIOUS
  <2>1. CASE i \in 1..k
    <3>1. StillHolds(S[i], x, str, h, po, re)
      BY <1>3, <2>1
    <3>2. ASSUME NEW a \in AccountIDs
          PROVE  Seen(y.view[a], y.added[a], str[a]) = Seen(x.view[a], x.added[a], str[a])
      BY <1>7, <1>8, <1>10 DEF Seen
    <3>3. ASSUME Loading(S[i]) PROVE S[i].on \in AccountIDs
      <4>1. S[i] \in Stmts
        BY <1>2, <2>1
      <4>. QED
        BY <3>3, <4>1 DEF Loading, Stmts
    <3>. QED
      BY <3>1, <3>2, <3>3 DEF StillHolds
  <2>2. CASE i = k + 1
    BY <1>5, <2>2 DEF StillHolds, Loading
  <2>. QED
    BY <1>2, <2>1, <2>2
<1>. QED
    BY <1>1, <1>2, <1>3, <1>8, <1>11, <1>12, <1>13, <1>14, <1>15 DEF TxSound

-----------------------------------------------------------------------------
(* What the others have read and inserted stays sound *)

LEMMA PrefixTrans ==
    ASSUME NEW E, NEW s \in Seq(E), NEW z \in Seq(E), NEW w \in Seq(E),
           Prefix(s, z), Prefix(z, w)
    PROVE  Prefix(s, w)
BY DEF Prefix

LEMMA PrefixOfCat ==
    ASSUME NEW E, NEW s \in Seq(E), NEW z \in Seq(E)
    PROVE  Prefix(s, s \o z)
<1>1. Cat(s, z, Len(s), Len(z)) /\ Len(s) \in Nat /\ Len(z) \in Nat
    BY CatElements
<1>. QED
    BY <1>1 DEF Cat, Prefix

(* Streams grow only where x has inserted nothing. *)
GrowsAround(x, str, str2) ==
    \A a \in AccountIDs :
        str2[a] = str[a] \/ (x.added[a] = <<>> /\ Prefix(str[a], str2[a]))

(* The row x has read, if it has, allows it still. *)
StillAllowed(x, k, h, po, re) ==
    \A i \in 1..k : Statements(x.op)[i].do = "row" => Allowed(x.op, h, po, re)

LEMMA OthersStay ==
    ASSUME NEW x, NEW k, NEW str, NEW h, NEW po, NEW re, TxSound(x, k, str, h, po, re),
           x \in Txs, str \in [AccountIDs -> Seq(Events)],
           NEW str2, NEW h2, NEW po2, NEW re2,
           str2 \in [AccountIDs -> Seq(Events)], po \subseteq po2,
           GrowsAround(x, str, str2), StillAllowed(x, k, h2, po2, re2)
    PROVE  TxSound(x, k, str2, h2, po2, re2)
<1>1. PICK S : S = Statements(x.op)
    OBVIOUS
<1>2. /\ x.op \in Ops /\ Follows(x.todo, S, k) /\ x.locks = HeldAfter(S, k)
      /\ \A a \in AccountIDs : x.added[a] = AddedAfter(x.op, k, a)
      /\ \A a \in AccountIDs : x.added[a] # <<>> => a \in x.locks
      /\ \A a \in AccountIDs : Fits(x.view[a], x.added[a], str[a])
      /\ \A i \in 1..k : StillHolds(S[i], x, str, h, po, re)
      /\ x.op.kind = "reverse" => x.op.id \in po
    BY <1>1 DEF TxSound
<1>3. S \in Seq(Stmts) /\ k \in Nat /\ k <= Len(S)
    BY <1>1, <1>2, Plans DEF PlanSound, Follows
<1>4. ASSUME NEW a \in AccountIDs PROVE Fits(x.view[a], x.added[a], str2[a])
  <2>1. Fits(x.view[a], x.added[a], str[a])
    BY <1>2
  <2>2. CASE str2[a] = str[a]
    BY <2>1, <2>2
  <2>3. CASE x.added[a] = <<>> /\ Prefix(str[a], str2[a])
    <3>1. Prefix(x.view[a], str[a])
      BY <2>1, <2>3 DEF Fits
    <3>2. x.view[a] \in Seq(Events) /\ str[a] \in Seq(Events) /\ str2[a] \in Seq(Events)
      BY DEF Txs
    <3>3. Prefix(x.view[a], str2[a])
      BY <2>3, <3>1, <3>2, PrefixTrans
    <3>. QED
      BY <2>3, <3>3 DEF Fits
  <2>. QED
    BY <2>2, <2>3 DEF GrowsAround
<1>5. ASSUME NEW a \in AccountIDs
      PROVE  Seen(x.view[a], x.added[a], str2[a]) = Seen(x.view[a], x.added[a], str[a])
    BY DEF GrowsAround, Seen
<1>6. ASSUME NEW i \in 1..k PROVE StillHolds(S[i], x, str2, h2, po2, re2)
  <2>1. StillHolds(S[i], x, str, h, po, re)
    BY <1>2
  <2>2. S[i] \in Stmts
    BY <1>3
  <2>3. Loading(S[i]) => S[i].on \in AccountIDs
    BY <2>2 DEF Loading, Stmts
  <2>4. S[i].do = "row" => Allowed(x.op, h2, po2, re2)
    BY <1>1 DEF StillAllowed
  <2>. QED
    BY <1>5, <2>1, <2>3, <2>4 DEF StillHolds
<1>7. x.op.kind = "reverse" => x.op.id \in po2
    BY <1>2
<1>. QED
    BY <1>1, <1>2, <1>4, <1>6, <1>7 DEF TxSound

LEMMA HasRow ==
    ASSUME NEW op \in TransferOps
    PROVE  \E j \in 1..Len(Statements(op)) : Statements(op)[j].do = "row"
<1>1. op.id \in TransferIDs /\ op.kind \in {"reserve", "post", "capture", "release", "reverse"}
    BY DEF TransferOps, Kinds
<1> DEFINE S == Statements(op)
           t == op.id
<1>2. CASE op.kind = "reserve"
  <2>1. S = ReserveTransferFunds(t)
    BY <1>2 DEF Statements
  <2>2. Len(S) = 5 /\ S[2] = CheckRow
    BY <2>1 DEF ReserveTransferFunds
  <2>3. 2 \in 1..5 /\ CheckRow.do = "row"
    BY DEF CheckRow
  <2>. HIDE DEF S
  <2>4. \E j \in 1..Len(S) : S[j].do = "row"
    BY <2>2, <2>3
  <2>. QED
    BY <2>4 DEF S
<1>3. CASE op.kind = "capture" \/ op.kind = "release"
  <2>1. PICK type : S = FinishTransferReservation(t, type)
    BY <1>3 DEF Statements
  <2>2. Len(S) = 4 /\ S[2] = CheckRow
    BY <2>1 DEF FinishTransferReservation
  <2>3. 2 \in 1..4 /\ CheckRow.do = "row"
    BY DEF CheckRow
  <2>. HIDE DEF S
  <2>4. \E j \in 1..Len(S) : S[j].do = "row"
    BY <2>2, <2>3
  <2>. QED
    BY <2>4 DEF S
<1>4. CASE op.kind = "reverse"
  <2>1. S = ReverseTransfer(t)
    BY <1>4 DEF Statements
  <2>2. Len(S) = 8 /\ S[2] = CheckRow
    BY <1>1, <2>1, ReverseStatements
  <2>3. 2 \in 1..8 /\ CheckRow.do = "row"
    BY DEF CheckRow
  <2>. HIDE DEF S
  <2>4. \E j \in 1..Len(S) : S[j].do = "row"
    BY <2>2, <2>3
  <2>. QED
    BY <2>4 DEF S
<1>5. CASE op.kind = "post"
  <2>1. S = PostTransferLedger(t)
    BY <1>5 DEF Statements
  <2>2. (Len(S) = 8 \/ Len(S) = 7) /\ S[3] = CheckRow
    BY <1>1, <2>1, PostStatements
  <2>3. 3 \in 1..8 /\ 3 \in 1..7 /\ CheckRow.do = "row"
    BY DEF CheckRow
  <2>. HIDE DEF S
  <2>4. \E j \in 1..Len(S) : S[j].do = "row"
    BY <2>2, <2>3
  <2>. QED
    BY <2>4 DEF S
<1>. QED
    BY <1>1, <1>2, <1>3, <1>4, <1>5

(* Who has read a row holds its lock. *)
LEMMA HoldsRowLock ==
    ASSUME NEW x, NEW k, NEW str, NEW h, NEW po, NEW re, TxSound(x, k, str, h, po, re),
           NEW i \in 1..k, Statements(x.op)[i].do = "row"
    PROVE  RowLock(x.op) \in x.locks /\ x.op \in TransferOps
<1>1. PICK S : S = Statements(x.op)
    OBVIOUS
<1>2. x.op \in Ops /\ Follows(x.todo, S, k) /\ x.locks = HeldAfter(S, k)
    BY <1>1 DEF TxSound
<1>3. PlanSound(x.op, S) /\ k \in Nat /\ k <= Len(S)
    BY <1>1, <1>2, Plans DEF Follows
<1>4. i \in 1..Len(S)
    BY <1>3 DEF PlanSound
<1>5. StatementSound(x.op, S, i)
    BY <1>3, <1>4 DEF PlanSound
<1>6. /\ x.op.kind \notin {"deposit", "withdraw"}
      /\ \E j \in 1..(i - 1) : S[j].do = "lock" /\ S[j].on = RowLock(x.op)
    BY <1>1, <1>5 DEF StatementSound
<1>7. x.op \in TransferOps
    BY <1>2, <1>6 DEF Ops, CashOps
<1>8. \E j \in 1..k : S[j].do = "lock" /\ S[j].on = RowLock(x.op)
    BY <1>3, <1>6
<1>. QED
    BY <1>2, <1>7, <1>8 DEF HeldAfter

(* The rows h, po, re before and after op has written its own. *)
Written(op, h, po, re, h2, po2, re2) ==
    /\ h2 = CASE op.kind = "reserve" -> [h EXCEPT ![op.id] = "reserved"]
              [] op.kind = "capture" -> [h EXCEPT ![op.id] = "captured"]
              [] op.kind = "release" -> [h EXCEPT ![op.id] = "released"]
              [] OTHER               -> h
    /\ po2 = IF op.kind = "post" THEN po \cup {op.id} ELSE po
    /\ re2 = IF op.kind = "reverse" THEN re \cup {op.id} ELSE re

LEMMA WriteRowIs ==
    ASSUME NEW op, WriteRow(op)
    PROVE  Written(op, hold, posted, reversed, hold', posted', reversed')
BY DEF WriteRow, Written

(* Writing a row leaves the rows under other locks. *)
LEMMA AllowedKept ==
    ASSUME NEW op \in Ops, NEW other \in TransferOps,
           op \in TransferOps => RowLock(op) # RowLock(other),
           NEW h, NEW po, NEW re, NEW h2, NEW po2, NEW re2,
           h \in [TransferIDs -> HoldStates], Written(op, h, po, re, h2, po2, re2),
           Allowed(other, h, po, re)
    PROVE  Allowed(other, h2, po2, re2)
<1>1. /\ other.id \in TransferIDs
      /\ other.kind \in {"reserve", "post", "capture", "release", "reverse"}
    BY DEF TransferOps, Kinds
<1>2. op.kind \notin {"deposit", "withdraw"} => op \in TransferOps
    BY DEF Ops, CashOps
<1>3. CASE other.kind \in {"reserve", "capture", "release"}
  <2>1. op.kind \in {"reserve", "capture", "release"} => op.id # other.id
    BY <1>2, <1>3 DEF RowLock
  <2>2. h2[other.id] = h[other.id]
    BY <1>1, <2>1 DEF Written
  <2>. QED
    BY <1>3, <2>2 DEF Allowed
<1>4. CASE other.kind = "post"
  <2>1. op.kind = "post" => op.id # other.id
    BY <1>2, <1>4 DEF RowLock
  <2>. QED
    BY <1>4, <2>1 DEF Allowed, Written
<1>5. CASE other.kind = "reverse"
  <2>1. op.kind = "reverse" => op.id # other.id
    BY <1>2, <1>5 DEF RowLock
  <2>. QED
    BY <1>5, <2>1 DEF Allowed, Written
<1>. QED
    BY <1>1, <1>3, <1>4, <1>5

-----------------------------------------------------------------------------
(* Steps of one process and the invariant *)

LEMMA EndedFacts ==
    ASSUME NEW answer \in Answers
    PROVE  /\ Ended(answer) \in Txs /\ Ended(answer).op = NoOp
           /\ Ended(answer).todo = <<>> /\ Ended(answer).locks = {}
           /\ \A a \in AccountIDs : Ended(answer).added[a] = <<>>
           /\ \A str, h, po, re : TxOK(Ended(answer), str, h, po, re)
<1>1. [a \in AccountIDs |-> <<>>] \in [AccountIDs -> Seq(Events)]
    OBVIOUS
<1>2. Ended(answer) \in Txs
    BY <1>1 DEF Ended, Txs
<1>3. \A str, h, po, re : TxOK(Ended(answer), str, h, po, re)
    BY DEF TxOK
<1>. QED
    BY <1>2, <1>3 DEF Ended

(* The transaction under way of a process that has one. *)
LEMMA UnderWay ==
    ASSUME StreamsInv, NEW p \in Processes, Active(p) \/ tx[p].todo # <<>>
    PROVE  \E k \in Nat : TxSound(tx[p], k, streams, hold, posted, reversed)
<1>1. TxOK(tx[p], streams, hold, posted, reversed)
    BY DEF StreamsInv, TxsSound
<1>2. \A answer \in Answers : tx[p] # Ended(answer)
    BY EndedFacts DEF Active
<1>. QED
    BY <1>1, <1>2 DEF TxOK

(* Transaction x of p does not get in the way of the others. *)
Apart(p, x) ==
    \A q \in Processes : q # p =>
        /\ x.locks \cap tx[q].locks = {}
        /\ \A a \in AccountIDs : x.added[a] = <<>> \/ tx[q].added[a] = <<>>

LEMMA ApartKept ==
    ASSUME StreamsInv, NEW p \in Processes, NEW x, x \in Txs, Apart(p, x),
           x.op \in Workloads[workload] \cup {NoOp},
           tx' = [tx EXCEPT ![p] = x], workload' = workload
    PROVE  TxsTyped' /\ LocksExclusive' /\ PendingAlone'
<1>1. tx \in [Processes -> Txs]
    BY DEF StreamsInv, TxsTyped
<1>2. tx'[p] = x /\ \A q \in Processes : q # p => tx'[q] = tx[q]
    BY <1>1
<1>3. tx' \in [Processes -> Txs]
    BY <1>1
<1>4. TxsTyped'
  <2>1. \A q \in Processes : tx[q].op \in Workloads[workload] \cup {NoOp}
    BY DEF StreamsInv, TxsTyped
  <2>2. \A q \in Processes : tx'[q].op \in Workloads[workload'] \cup {NoOp}
    BY <1>2, <2>1
  <2>. QED
    BY <1>3, <2>2 DEF TxsTyped
<1>5. LocksExclusive'
  <2>1. \A q, r \in Processes : q # r => tx[q].locks \cap tx[r].locks = {}
    BY DEF StreamsInv, LocksExclusive
  <2>2. \A q \in Processes : q # p => x.locks \cap tx[q].locks = {}
    BY DEF Apart
  <2>3. \A q, r \in Processes : q # r => tx'[q].locks \cap tx'[r].locks = {}
    BY <1>2, <2>1, <2>2
  <2>. QED
    BY <2>3 DEF LocksExclusive
<1>6. PendingAlone'
  <2>1. \A q, r \in Processes, a \in AccountIDs :
            q # r => tx[q].added[a] = <<>> \/ tx[r].added[a] = <<>>
    BY DEF StreamsInv, PendingAlone
  <2>2. \A q \in Processes, a \in AccountIDs :
            q # p => x.added[a] = <<>> \/ tx[q].added[a] = <<>>
    BY DEF Apart
  <2>3. \A q, r \in Processes, a \in AccountIDs :
            q # r => tx'[q].added[a] = <<>> \/ tx'[r].added[a] = <<>>
    BY <1>2, <2>1, <2>2
  <2>. QED
    BY <2>3 DEF PendingAlone
<1>. QED
    BY <1>4, <1>5, <1>6

(* A step that leaves the tables. *)
LEMMA OwnStep ==
    ASSUME StreamsInv, NEW p \in Processes, NEW x, x \in Txs, Apart(p, x),
           x.op \in Workloads[workload] \cup {NoOp},
           TxOK(x, streams, hold, posted, reversed),
           tx' = [tx EXCEPT ![p] = x], UNCHANGED <<streams, rows>>, workload' = workload
    PROVE  StreamsInv'
<1>1. TxsTyped' /\ LocksExclusive' /\ PendingAlone'
    BY ApartKept
<1>2. streams' = streams /\ hold' = hold /\ posted' = posted /\ reversed' = reversed
    BY DEF rows
<1>3. TablesTyped'
    BY <1>2 DEF StreamsInv, TablesTyped
<1>4. \A q \in Processes : TxOK(tx'[q], streams, hold, posted, reversed)
  <2>1. tx'[p] = x /\ \A q \in Processes : q # p => tx'[q] = tx[q]
    BY DEF StreamsInv, TxsTyped
  <2>2. \A q \in Processes : TxOK(tx[q], streams, hold, posted, reversed)
    BY DEF StreamsInv, TxsSound
  <2>. QED
    BY <2>1, <2>2
<1>5. TxsSound'
    BY <1>2, <1>4 DEF TxsSound
<1>. QED
    BY <1>1, <1>3, <1>5 DEF StreamsInv

LEMMA ApartEnded ==
    ASSUME NEW p \in Processes, NEW answer \in Answers
    PROVE  Apart(p, Ended(answer))
BY EndedFacts DEF Apart

(* Rolling back. *)
LEMMA EndStep ==
    ASSUME StreamsInv, NEW p \in Processes, NEW answer \in Answers, End(p, answer),
           UNCHANGED <<streams, rows>>, workload' = workload
    PROVE  StreamsInv'
<1>1. PICK x : x = Ended(answer)
    OBVIOUS
<1>2. /\ x \in Txs /\ x.op = NoOp /\ Apart(p, x)
      /\ TxOK(x, streams, hold, posted, reversed)
    BY <1>1, EndedFacts, ApartEnded
<1>3. tx' = [tx EXCEPT ![p] = x]
    BY <1>1 DEF End, Set
<1>. QED
    BY <1>2, <1>3, OwnStep

LEMMA BeginStep ==
    ASSUME StreamsInv, NEW p \in Processes, Begin(p), workload' = workload
    PROVE  StreamsInv'
<1>1. PICK op \in Workloads[workload] :
          /\ Requested(op)
          /\ Set(p, [Ended("plain") EXCEPT !.op = op, !.todo = Statements(op)])
    BY DEF Begin
<1>2. op \in Ops
    BY ProcessesAssumption DEF StreamsInv, TablesTyped, Ops
<1>3. PICK S : S = Statements(op)
    OBVIOUS
<1>4. S \in Seq(Stmts) /\ \A a \in AccountIDs : AddedAfter(op, 0, a) = <<>>
    BY <1>2, <1>3, Plans DEF PlanSound
<1>5. PICK x : x = [Ended("plain") EXCEPT !.op = op, !.todo = S]
    OBVIOUS
<1>6. /\ x.op = op /\ x.todo = S /\ x.locks = {} /\ x.answer = "plain"
      /\ x.view = [a \in AccountIDs |-> <<>>] /\ x.added = [a \in AccountIDs |-> <<>>]
      /\ x = [op |-> op, answer |-> "plain", todo |-> S, locks |-> {},
              view |-> [a \in AccountIDs |-> <<>>], added |-> [a \in AccountIDs |-> <<>>]]
    BY <1>5 DEF Ended
<1>7. x \in Txs
  <2>1. [a \in AccountIDs |-> <<>>] \in [AccountIDs -> Seq(Events)]
    OBVIOUS
  <2>. QED
    BY <1>2, <1>4, <1>6, <2>1 DEF Txs, Answers
<1>8. Apart(p, x)
    BY <1>6 DEF Apart
<1>9. TxSound(x, 0, streams, hold, posted, reversed)
  <2>1. Follows(S, S, 0)
    BY <1>4, FollowsAll
  <2>2. HeldAfter(S, 0) = {}
    BY DEF HeldAfter
  <2>3. \A a \in AccountIDs : x.added[a] = <<>> /\ x.view[a] = <<>>
    BY <1>6
  <2>4. \A a \in AccountIDs : Fits(<<>>, <<>>, streams[a])
    BY DEF StreamsInv, TablesTyped, Fits, Prefix
  <2>5. op.kind = "reverse" => op.id \in posted
    BY <1>1 DEF Requested
  <2>. QED
    BY <1>2, <1>3, <1>4, <1>6, <2>1, <2>2, <2>3, <2>4, <2>5 DEF TxSound
<1>10. TxOK(x, streams, hold, posted, reversed)
    BY <1>9 DEF TxOK
<1>11. tx' = [tx EXCEPT ![p] = x]
    BY <1>1, <1>3, <1>5 DEF Set
<1>12. UNCHANGED <<streams, rows>>
    BY DEF Begin
<1>. QED
    BY <1>6, <1>7, <1>8, <1>10, <1>11, <1>12, OwnStep

(* The state of a process before one of its statements. *)
LEMMA BeforeStatement ==
    ASSUME StreamsInv, NEW p \in Processes, tx[p].todo # <<>>
    PROVE  \E k \in Nat : Before(tx[p], streams, hold, posted, reversed, k)
<1>1. PICK k \in Nat : TxSound(tx[p], k, streams, hold, posted, reversed)
    BY UnderWay
<1>2. tx[p] \in Txs /\ streams \in [AccountIDs -> Seq(Events)]
    BY DEF StreamsInv, TxsTyped, TablesTyped
<1>3. Before(tx[p], streams, hold, posted, reversed, k)
    BY <1>1, <1>2 DEF Before
<1>. QED
    BY <1>3

(* A statement that inserts nothing. *)
LEMMA StatementStep ==
    ASSUME StreamsInv, NEW p \in Processes, NEW x, x \in Txs, NEW k \in Nat,
           TxSound(x, k, streams, hold, posted, reversed),
           x.op = tx[p].op, x.added = tx[p].added,
           \A q \in Processes : q # p => x.locks \cap tx[q].locks = {},
           tx' = [tx EXCEPT ![p] = x], UNCHANGED <<streams, rows>>, workload' = workload
    PROVE  StreamsInv'
<1>1. TxOK(x, streams, hold, posted, reversed)
    BY DEF TxOK
<1>2. x.op \in Workloads[workload] \cup {NoOp}
    BY DEF StreamsInv, TxsTyped
<1>3. Apart(p, x)
    BY DEF Apart, StreamsInv, PendingAlone
<1>. QED
    BY <1>1, <1>2, <1>3, OwnStep

LEMMA LockStep ==
    ASSUME StreamsInv, NEW p \in Processes, LockAccount(p), workload' = workload
    PROVE  StreamsInv'
<1>1. PICK x : x = tx[p]
    OBVIOUS
<1>2. x.todo # <<>> /\ Head(x.todo).do = "lock"
    BY <1>1 DEF LockAccount, Doing
<1>3. PICK k \in Nat : Before(x, streams, hold, posted, reversed, k)
    BY <1>1, <1>2, BeforeStatement
<1>4. PICK l : l = Head(x.todo).on
    OBVIOUS
<1>5. l \in Locks /\ Tail(x.todo) \in Seq(Stmts) /\ x \in Txs
  <2>1. Head(x.todo) \in Stmts /\ Tail(x.todo) \in Seq(Stmts)
    BY <1>3, HeadFacts
  <2>2. l \in Locks
    BY <1>2, <1>4, <2>1 DEF Stmts
  <2>. QED
    BY <1>3, <2>1, <2>2 DEF Before
<1>6. PICK y : y = [[x EXCEPT !.locks = @ \cup {l}] EXCEPT !.todo = Tail(@)]
    OBVIOUS
<1>7. /\ y \in Txs /\ y.op = x.op /\ y.view = x.view /\ y.added = x.added
      /\ y.todo = Tail(x.todo) /\ y.locks = x.locks \cup {l}
    BY <1>5, <1>6 DEF Txs
<1>8. StillHolds(Head(x.todo), x, streams, hold, posted, reversed)
    BY <1>2 DEF StillHolds, Loading
<1>9. TxSound(y, k + 1, streams, hold, posted, reversed)
    BY <1>2, <1>3, <1>4, <1>7, <1>8, QuietStep
<1>10. \A q \in Processes : q # p => y.locks \cap tx[q].locks = {}
  <2>1. \A q \in Processes : l \notin tx[q].locks
    BY <1>1, <1>4 DEF LockAccount, Free, On
  <2>2. \A q \in Processes : q # p => x.locks \cap tx[q].locks = {}
    BY <1>1 DEF StreamsInv, LocksExclusive
  <2>. QED
    BY <1>7, <2>1, <2>2
<1>11. tx' = [tx EXCEPT ![p] = y] /\ UNCHANGED <<streams, rows>>
    BY <1>1, <1>4, <1>6 DEF LockAccount, Step, Set, On
<1>12. k + 1 \in Nat /\ y.op = tx[p].op /\ y.added = tx[p].added
    BY <1>1, <1>7
<1>. QED
    BY <1>7, <1>9, <1>10, <1>11, <1>12, StatementStep

LEMMA RowStep ==
    ASSUME StreamsInv, NEW p \in Processes, ReadRow(p), workload' = workload
    PROVE  StreamsInv'
<1>1. PICK x : x = tx[p]
    OBVIOUS
<1>2. x.todo # <<>> /\ Head(x.todo).do = "row" /\ UNCHANGED <<streams, rows>>
    BY <1>1 DEF ReadRow, Doing
<1>3. CASE RowAllows(x.op)
  <2>1. PICK k \in Nat : Before(x, streams, hold, posted, reversed, k)
    BY <1>1, <1>2, BeforeStatement
  <2>2. Tail(x.todo) \in Seq(Stmts) /\ x \in Txs
    BY <2>1, HeadFacts DEF Before
  <2>3. PICK y : y = [x EXCEPT !.todo = Tail(@)]
    OBVIOUS
  <2>4. /\ y \in Txs /\ y.op = x.op /\ y.view = x.view /\ y.added = x.added
        /\ y.todo = Tail(x.todo) /\ y.locks = x.locks
    BY <2>2, <2>3 DEF Txs
  <2>5. StillHolds(Head(x.todo), x, streams, hold, posted, reversed)
    <3>1. Allowed(x.op, hold, posted, reversed)
      BY <1>3, RowAllowsIs
    <3>. QED
      BY <1>2, <3>1 DEF StillHolds, Loading
  <2>6. y.locks = x.locks \cup (IF Head(x.todo).do = "lock" THEN {Head(x.todo).on} ELSE {})
    BY <1>2, <2>4
  <2>7. TxSound(y, k + 1, streams, hold, posted, reversed)
    BY <1>2, <2>1, <2>4, <2>5, <2>6, QuietStep
  <2>8. \A q \in Processes : q # p => y.locks \cap tx[q].locks = {}
    BY <1>1, <2>4 DEF StreamsInv, LocksExclusive
  <2>9. tx' = [tx EXCEPT ![p] = y]
    BY <1>1, <1>3, <2>3 DEF ReadRow, Step, Set
  <2>10. k + 1 \in Nat /\ y.op = tx[p].op /\ y.added = tx[p].added
    BY <1>1, <2>4
  <2>. QED
    BY <1>2, <2>4, <2>7, <2>8, <2>9, <2>10, StatementStep
<1>4. CASE ~RowAllows(x.op)
  <2>1. End(p, "plain") /\ "plain" \in Answers
    BY <1>1, <1>4 DEF ReadRow, Answers
  <2>. QED
    BY <1>2, <2>1, EndStep
<1>. QED
    BY <1>3, <1>4

LEMMA LoadEventsStep ==
    ASSUME StreamsInv, NEW p \in Processes, LoadEvents(p), workload' = workload
    PROVE  StreamsInv'
<1>1. PICK x : x = tx[p]
    OBVIOUS
<1>2. x.todo # <<>> /\ Loading(Head(x.todo)) /\ UNCHANGED <<streams, rows>>
    BY <1>1 DEF LoadEvents, Doing, Loading
<1>3. PICK b : b = Head(x.todo).on
    OBVIOUS
<1>4. CASE Acceptable(Head(x.todo), streams[b])
  <2>1. PICK k \in Nat : Before(x, streams, hold, posted, reversed, k)
    BY <1>1, <1>2, BeforeStatement
  <2>2. Head(x.todo) \in Stmts /\ Tail(x.todo) \in Seq(Stmts) /\ x \in Txs
    BY <2>1, HeadFacts DEF Before
  <2>3. b \in AccountIDs
    BY <1>2, <1>3, <2>2 DEF Stmts, Loading
  <2>4. streams[b] \in Seq(Events)
    BY <2>3 DEF StreamsInv, TablesTyped
  <2>5. PICK y : y = [[x EXCEPT !.view[b] = streams[b]] EXCEPT !.todo = Tail(@)]
    OBVIOUS
  <2>6. /\ y \in Txs /\ y.op = x.op /\ y.added = x.added
        /\ y.todo = Tail(x.todo) /\ y.locks = x.locks
        /\ y.view = [x.view EXCEPT ![b] = streams[b]]
    BY <2>2, <2>3, <2>4, <2>5 DEF Txs
  <2>7. TxSound(y, k + 1, streams, hold, posted, reversed)
    BY <1>2, <1>3, <1>4, <2>1, <2>6, LoadStep
  <2>8. \A q \in Processes : q # p => y.locks \cap tx[q].locks = {}
    BY <1>1, <2>6 DEF StreamsInv, LocksExclusive
  <2>9. tx' = [tx EXCEPT ![p] = y]
    BY <1>1, <1>3, <1>4, <2>5 DEF LoadEvents, Step, Set, On
  <2>10. k + 1 \in Nat /\ y.op = tx[p].op /\ y.added = tx[p].added
    BY <1>1, <2>6
  <2>. QED
    BY <1>2, <2>6, <2>7, <2>8, <2>9, <2>10, StatementStep
<1>5. CASE ~Acceptable(Head(x.todo), streams[b])
  <2>1. End(p, "plain") /\ "plain" \in Answers
    BY <1>1, <1>3, <1>5 DEF LoadEvents, On, Answers
  <2>. QED
    BY <1>2, <2>1, EndStep
<1>. QED
    BY <1>4, <1>5

(* A process with events pending on a claims the position after the        *)
(* committed ones.                                                         *)
LEMMA PendingClaims ==
    ASSUME StreamsInv, NEW q \in Processes, NEW a \in AccountIDs, tx[q].added[a] # <<>>
    PROVE  Claims(q, a, Len(streams[a]) + 1)
<1>1. PICK x : x = tx[q]
    OBVIOUS
<1>2. PICK s, v, z : s = streams[a] /\ v = x.view[a] /\ z = x.added[a]
    OBVIOUS
<1>3. s \in Seq(Events) /\ v \in Seq(Events) /\ z \in Seq(Events) /\ z # <<>>
    BY <1>1, <1>2 DEF StreamsInv, TablesTyped, TxsTyped, Txs
<1>4. TxOK(x, streams, hold, posted, reversed)
    BY <1>1 DEF StreamsInv, TxsSound
<1>5. \A answer \in Answers : x # Ended(answer)
    BY <1>2, <1>3, EndedFacts
<1>6. PICK k \in Nat : TxSound(x, k, streams, hold, posted, reversed)
    BY <1>4, <1>5 DEF TxOK
<1>7. Fits(v, z, s)
    BY <1>2, <1>6 DEF TxSound
<1>8. s \o z = v
    BY <1>3, <1>7 DEF Fits
<1>9. Len(s) \in Nat /\ Len(z) \in Nat /\ Len(z) > 0 /\ Len(s \o z) = Len(s) + Len(z)
    BY <1>3
<1>10. Len(v) = Len(s) + Len(z)
    BY <1>8, <1>9
<1>11. Len(s) + 1 <= Len(v) /\ Len(s) + 1 > Len(v) - Len(z)
    BY <1>9, <1>10
<1>. QED
    BY <1>1, <1>2, <1>11 DEF Claims

LEMMA InsertEventStep ==
    ASSUME StreamsInv, NEW p \in Processes, InsertEvent(p), workload' = workload
    PROVE  StreamsInv'
<1>1. PICK x : x = tx[p]
    OBVIOUS
<1>2. x.todo # <<>> /\ Head(x.todo).do = "insert" /\ UNCHANGED <<streams, rows>>
    BY <1>1 DEF InsertEvent, Doing
<1>3. PICK b, e : b = Head(x.todo).on /\ e = Head(x.todo).event
    OBVIOUS
<1>4. CASE ~Occupied(p, b)
  <2>1. PICK k \in Nat : Before(x, streams, hold, posted, reversed, k)
    BY <1>1, <1>2, BeforeStatement
  <2>2. Head(x.todo) \in Stmts /\ Tail(x.todo) \in Seq(Stmts) /\ x \in Txs
    BY <2>1, HeadFacts DEF Before
  <2>3. b \in AccountIDs /\ e \in Events
    BY <1>2, <1>3, <2>2 DEF Stmts
  <2>4. /\ x.view \in [AccountIDs -> Seq(Events)] /\ x.added \in [AccountIDs -> Seq(Events)]
        /\ Append(x.view[b], e) \in Seq(Events) /\ Append(x.added[b], e) \in Seq(Events)
    BY <2>2, <2>3 DEF Txs
  <2>5. PICK y : y = [[x EXCEPT !.view[b] = Append(@, e), !.added[b] = Append(@, e)]
                        EXCEPT !.todo = Tail(@)]
    OBVIOUS
  <2>6. /\ y.op = x.op /\ y.todo = Tail(x.todo) /\ y.locks = x.locks
        /\ y.view = [x.view EXCEPT ![b] = Append(@, e)]
        /\ y.added = [x.added EXCEPT ![b] = Append(@, e)]
    BY <2>2, <2>5 DEF Txs
  <2>7. y \in Txs
    <3>1. PICK v, z : v = [x.view EXCEPT ![b] = Append(@, e)]
                      /\ z = [x.added EXCEPT ![b] = Append(@, e)]
      OBVIOUS
    <3>2. v \in [AccountIDs -> Seq(Events)] /\ z \in [AccountIDs -> Seq(Events)]
      BY <2>3, <2>4, <3>1
    <3>3. y = [[x EXCEPT !.view = v, !.added = z] EXCEPT !.todo = Tail(@)]
      BY <2>2, <2>5, <3>1 DEF Txs
    <3>. QED
      BY <2>2, <3>2, <3>3 DEF Txs
  <2>8. Len(streams[b]) < Len(x.view[b]) + 1
    <3>1. ~(Len(x.view[b]) + 1 <= Len(streams[b]))
      BY <1>1, <1>4 DEF Occupied, Position
    <3>2. Len(x.view[b]) \in Nat /\ Len(streams[b]) \in Nat
      BY <2>2, <2>3 DEF Txs, StreamsInv, TablesTyped
    <3>. QED
      BY <3>1, <3>2
  <2>9. /\ TxSound(y, k + 1, streams, hold, posted, reversed)
        /\ x.added[b] = <<>> => x.view[b] = streams[b]
    <3>1. Extended(y, x, b, Head(x.todo).event)
      BY <1>3, <2>3, <2>4, <2>6 DEF Extended
    <3>2. y.op = x.op /\ y.todo = Tail(x.todo) /\ y.locks = x.locks
      BY <2>6
    <3>. QED
      BY <1>2, <1>3, <2>1, <2>7, <2>8, <3>1, <3>2, InsertStep
  <2>10. ASSUME NEW q \in Processes, q # p PROVE tx[q].added[b] = <<>>
    <3>1. CASE x.added[b] # <<>>
      BY <1>1, <2>3, <2>10, <3>1 DEF StreamsInv, PendingAlone
    <3>2. CASE x.added[b] = <<>>
      <4>1. Position(p, b) = Len(streams[b]) + 1
        BY <1>1, <2>9, <3>2 DEF Position
      <4>2. ~Claims(q, b, Position(p, b))
        BY <1>1, <1>3, <2>10 DEF InsertEvent, On
      <4>3. ~Claims(q, b, Len(streams[b]) + 1)
        BY <4>1, <4>2, Zenon
      <4>. QED
        BY <2>3, <4>3, PendingClaims
    <3>. QED
      BY <3>1, <3>2
  <2>11. Apart(p, y)
    <3>1. \A a \in AccountIDs : a # b => y.added[a] = x.added[a]
      BY <2>4, <2>6
    <3>2. \A q \in Processes, a \in AccountIDs :
              q # p => x.added[a] = <<>> \/ tx[q].added[a] = <<>>
      BY <1>1 DEF StreamsInv, PendingAlone
    <3>3. \A q \in Processes : q # p => x.locks \cap tx[q].locks = {}
      BY <1>1 DEF StreamsInv, LocksExclusive
    <3>. QED
      BY <2>6, <2>10, <3>1, <3>2, <3>3 DEF Apart
  <2>12. tx' = [tx EXCEPT ![p] = y]
    <3>1. Step(p, [tx[p] EXCEPT !.view[b] = Append(@, e), !.added[b] = Append(@, e)])
      BY <1>1, <1>3, <1>4 DEF InsertEvent, On
    <3>2. tx' = [tx EXCEPT ![p] = [[x EXCEPT !.view[b] = Append(@, e), !.added[b] = Append(@, e)]
                                      EXCEPT !.todo = Tail(@)]]
      BY <1>1, <3>1, Zenon DEF Step, Set
    <3>. QED
      BY <2>5, <3>2, Zenon
  <2>13. TxOK(y, streams, hold, posted, reversed)
    BY <2>9 DEF TxOK
  <2>14. y.op \in Workloads[workload] \cup {NoOp}
    BY <1>1, <2>6 DEF StreamsInv, TxsTyped
  <2>. QED
    BY <1>2, <2>7, <2>11, <2>12, <2>13, <2>14, OwnStep
<1>5. CASE Occupied(p, b)
  <2>1. End(p, "duplicate key") /\ "duplicate key" \in Answers
    BY <1>1, <1>3, <1>5 DEF InsertEvent, On, Answers
  <2>. QED
    BY <1>2, <2>1, EndStep
<1>. QED
    BY <1>4, <1>5

(* A step that changes the tables and ends its transaction. *)
LEMMA TablesStep ==
    ASSUME StreamsInv, NEW p \in Processes, End(p, "plain"), workload' = workload,
           TablesTyped', posted \subseteq posted',
           \A q \in Processes : q # p => GrowsAround(tx[q], streams, streams'),
           \A q \in Processes, k \in Nat :
               q # p /\ TxSound(tx[q], k, streams, hold, posted, reversed)
                   => StillAllowed(tx[q], k, hold', posted', reversed')
    PROVE  StreamsInv'
<1>1. PICK x : x = Ended("plain")
    OBVIOUS
<1>2. "plain" \in Answers
    BY DEF Answers
<1>3. /\ x \in Txs /\ x.op = NoOp /\ Apart(p, x)
      /\ \A str, h, po, re : TxOK(x, str, h, po, re)
    BY <1>1, <1>2, EndedFacts, ApartEnded
<1>4. tx' = [tx EXCEPT ![p] = x]
    BY <1>1 DEF End, Set
<1>5. TxsTyped' /\ LocksExclusive' /\ PendingAlone'
    BY <1>3, <1>4, ApartKept
<1>6. ASSUME NEW q \in Processes PROVE TxOK(tx'[q], streams', hold', posted', reversed')
  <2>1. tx'[p] = x /\ (q # p => tx'[q] = tx[q])
    BY <1>4 DEF StreamsInv, TxsTyped
  <2>2. CASE q = p
    BY <1>3, <2>1, <2>2
  <2>3. CASE q # p
    <3>1. PICK y : y = tx[q]
      OBVIOUS
    <3>2. TxOK(y, streams, hold, posted, reversed)
      BY <3>1 DEF StreamsInv, TxsSound
    <3>3. CASE \E answer \in Answers : y = Ended(answer)
      <4>1. TxOK(y, streams', hold', posted', reversed')
        BY <3>3 DEF TxOK
      <4>. QED
        BY <2>1, <2>3, <3>1, <4>1
    <3>4. CASE \E k \in Nat : TxSound(y, k, streams, hold, posted, reversed)
      <4>1. PICK k \in Nat : TxSound(y, k, streams, hold, posted, reversed)
        BY <3>4
      <4>2. GrowsAround(y, streams, streams') /\ StillAllowed(y, k, hold', posted', reversed')
        BY <2>3, <3>1, <4>1
      <4>3. /\ y \in Txs /\ streams \in [AccountIDs -> Seq(Events)]
            /\ streams' \in [AccountIDs -> Seq(Events)]
        BY <3>1 DEF StreamsInv, TxsTyped, TablesTyped
      <4>4. TxSound(y, k, streams', hold', posted', reversed')
        BY <4>1, <4>2, <4>3, OthersStay
      <4>5. TxOK(y, streams', hold', posted', reversed')
        BY <4>4 DEF TxOK
      <4>. QED
        BY <2>1, <2>3, <3>1, <4>5
    <3>. QED
      BY <3>2, <3>3, <3>4 DEF TxOK
  <2>. QED
    BY <2>2, <2>3
<1>7. TxsSound'
    BY <1>6 DEF TxsSound
<1>. QED
    BY <1>5, <1>7 DEF StreamsInv

(* A deposit inserts after all that is committed, and nobody has events    *)
(* pending there.                                                          *)
LEMMA DepositFacts ==
    ASSUME StreamsInv, NEW p \in Processes, AppendEvent(p), ~Occupied(p, On(p))
    PROVE  /\ On(p) \in AccountIDs /\ streams[On(p)] # <<>>
           /\ \E m \in CashAmounts : Head(tx[p].todo).event = Ev("MoneyCredited", m)
           /\ \A q \in Processes : q # p => tx[q].added[On(p)] = <<>>
<1>1. PICK x, b : x = tx[p] /\ b = On(p)
    OBVIOUS
<1>2. x.todo # <<>> /\ Head(x.todo).do = "append" /\ b = Head(x.todo).on
    BY <1>1 DEF AppendEvent, Doing, On
<1>3. PICK k \in Nat : Before(x, streams, hold, posted, reversed, k)
    BY <1>1, <1>2, BeforeStatement
<1>4. PICK S : S = Statements(x.op)
    OBVIOUS
<1>5. /\ x.op \in Ops /\ Head(x.todo) = S[k + 1] /\ StatementSound(x.op, S, k + 1)
      /\ Head(x.todo) \in Stmts /\ x \in Txs
    BY <1>3, <1>4, HeadFacts DEF Before
<1>6. x.op.kind = "deposit" /\ k = 1 /\ b \in AccountIDs
  <2>1. x.op.kind = "deposit" /\ k + 1 = 2
    BY <1>2, <1>5 DEF StatementSound
  <2>2. b \in AccountIDs
    BY <1>2, <1>5 DEF Stmts
  <2>. QED
    BY <1>3, <2>1, <2>2
<1>7. x.op.acct \in AccountIDs /\ x.op.amount \in CashAmounts
    BY <1>5, <1>6 DEF Ops, CashOps, TransferOps, Kinds
<1>8. PICK e : e = Ev("MoneyCredited", x.op.amount)
    OBVIOUS
<1>9. S = <<Find(x.op.acct), AppendNow(x.op.acct, e)>>
    BY <1>4, <1>6, <1>8 DEF Statements, Deposit
<1>10. S[1] = Find(x.op.acct) /\ S[2] = AppendNow(x.op.acct, e)
    BY <1>9
<1>11. Head(x.todo).event = e /\ b = x.op.acct
    BY <1>2, <1>5, <1>6, <1>10 DEF AppendNow
<1>12. /\ x.added[b] = <<>> /\ Prefix(x.view[b], streams[b])
       /\ StillHolds(S[1], x, streams, hold, posted, reversed)
  <2>1. /\ x.added[b] = AddedAfter(x.op, k, b) /\ Fits(x.view[b], x.added[b], streams[b])
        /\ \A i \in 1..k : StillHolds(S[i], x, streams, hold, posted, reversed)
    BY <1>3, <1>4, <1>6 DEF Before, TxSound
  <2>2. x.added[b] = <<>>
    BY <1>6, <2>1 DEF AddedAfter
  <2>3. 1 \in 1..k
    BY <1>6
  <2>. QED
    BY <2>1, <2>2, <2>3 DEF Fits
<1>13. x.view[b] \in Seq(Events) /\ streams[b] \in Seq(Events)
    BY <1>5, <1>6 DEF Txs, StreamsInv, TablesTyped
<1>14. x.view[b] = streams[b]
  <2>1. ~(Len(x.view[b]) + 1 <= Len(streams[b]))
    BY <1>1 DEF Occupied, Position
  <2>2. Len(streams[b]) < Len(x.view[b]) + 1
    BY <1>13, <2>1
  <2>. QED
    BY <1>12, <1>13, <2>2, WholeRead
<1>15. streams[b] # <<>>
  <2>1. Acceptable(S[1], x.view[b])
    BY <1>10, <1>11, <1>12 DEF StillHolds, Loading, Find, Seen
  <2>2. x.view[b] # <<>>
    BY <1>10, <2>1 DEF Acceptable, Find
  <2>. QED
    BY <1>14, <2>2
<1>16. ASSUME NEW q \in Processes, q # p PROVE tx[q].added[b] = <<>>
  <2>1. Position(p, b) = Len(streams[b]) + 1
    BY <1>1, <1>14 DEF Position
  <2>2. ~Claims(q, b, Position(p, b))
    BY <1>1, <1>16 DEF AppendEvent
  <2>3. ~Claims(q, b, Len(streams[b]) + 1)
    BY <2>1, <2>2, Zenon
  <2>. QED
    BY <1>6, <2>3, PendingClaims
<1>17. \E m \in CashAmounts : Head(x.todo).event = Ev("MoneyCredited", m)
    BY <1>7, <1>8, <1>11
<1>. QED
    BY <1>1, <1>6, <1>15, <1>16, <1>17

(* A row that nobody writes allows what it allowed. *)
LEMMA AllowedStays ==
    ASSUME NEW x, NEW k, NEW str, NEW h, NEW po, NEW re, TxSound(x, k, str, h, po, re)
    PROVE  StillAllowed(x, k, h, po, re)
BY DEF TxSound, StillHolds, StillAllowed

LEMMA AppendEventStep ==
    ASSUME StreamsInv, NEW p \in Processes, AppendEvent(p), workload' = workload
    PROVE  StreamsInv'
<1>1. UNCHANGED rows /\ "plain" \in Answers
    BY DEF AppendEvent, Answers
<1>2. CASE Occupied(p, On(p))
  <2>1. End(p, "plain") /\ UNCHANGED <<streams, rows>>
    BY <1>1, <1>2 DEF AppendEvent
  <2>. QED
    BY <1>1, <2>1, EndStep
<1>3. CASE ~Occupied(p, On(p))
  <2>1. PICK b, e : b = On(p) /\ e = Head(tx[p].todo).event
    OBVIOUS
  <2>2. PICK m \in CashAmounts : e = Ev("MoneyCredited", m)
    BY <1>3, <2>1, DepositFacts
  <2>3. b \in AccountIDs /\ \A q \in Processes : q # p => tx[q].added[b] = <<>>
    BY <1>3, <2>1, DepositFacts
  <2>4. e \in Events
    BY <2>2, StreamsAssumption, EventTypesOK DEF EventTypes
  <2>5. End(p, "plain") /\ streams' = [streams EXCEPT ![b] = @ \o <<e>>]
    BY <1>3, <2>1 DEF AppendEvent, Add
  <2>6. streams \in [AccountIDs -> Seq(Events)] /\ <<e>> \in Seq(Events)
    BY <2>4 DEF StreamsInv, TablesTyped
  <2>7. streams[b] \o <<e>> \in Seq(Events)
    BY <2>3, <2>6
  <2>8. /\ streams' \in [AccountIDs -> Seq(Events)] /\ streams'[b] = streams[b] \o <<e>>
        /\ \A a \in AccountIDs : a # b => streams'[a] = streams[a]
    BY <2>3, <2>5, <2>6, <2>7
  <2>9. hold' = hold /\ posted' = posted /\ reversed' = reversed
    BY <1>1 DEF rows
  <2>10. TablesTyped'
    BY <2>8, <2>9 DEF StreamsInv, TablesTyped
  <2>11. Prefix(streams[b], streams'[b])
    BY <2>3, <2>6, <2>8, PrefixOfCat
  <2>12. \A q \in Processes : q # p => GrowsAround(tx[q], streams, streams')
    BY <2>3, <2>8, <2>11 DEF GrowsAround
  <2>13. \A q \in Processes, k \in Nat :
             q # p /\ TxSound(tx[q], k, streams, hold, posted, reversed)
                 => StillAllowed(tx[q], k, hold', posted', reversed')
    BY <2>9, AllowedStays
  <2>14. posted \subseteq posted'
    BY <2>9
  <2>. QED
    BY <2>5, <2>10, <2>12, <2>13, <2>14, TablesStep
<1>. QED
    BY <1>2, <1>3

(* A transaction about to commit has run all its statements. *)
LEMMA AllDone ==
    ASSUME StreamsInv, NEW p \in Processes, Active(p), tx[p].todo = <<>>
    PROVE  /\ tx[p].op \in Ops
           /\ TxSound(tx[p], Len(Statements(tx[p].op)), streams, hold, posted, reversed)
<1>1. PICK x : x = tx[p]
    OBVIOUS
<1>2. PICK k \in Nat : TxSound(x, k, streams, hold, posted, reversed)
    BY <1>1, UnderWay
<1>3. x.op \in Ops /\ Follows(x.todo, Statements(x.op), k)
    BY <1>2 DEF TxSound
<1>4. Statements(x.op) \in Seq(Stmts)
    BY <1>3, Plans DEF PlanSound
<1>5. k = Len(Statements(x.op))
    BY <1>1, <1>3, <1>4, FollowsEnd
<1>. QED
    BY <1>1, <1>2, <1>3, <1>5

LEMMA CommitStep ==
    ASSUME StreamsInv, NEW p \in Processes, Commit(p), workload' = workload
    PROVE  StreamsInv'
<1>1. PICK x : x = tx[p]
    OBVIOUS
<1>2. /\ Active(p) /\ x.todo = <<>> /\ End(p, "plain") /\ WriteRow(x.op)
      /\ streams' = [a \in AccountIDs |-> streams[a] \o x.added[a]]
    BY <1>1 DEF Commit
<1>3. PICK n : n = Len(Statements(x.op))
    OBVIOUS
<1>4. x.op \in Ops /\ TxSound(x, n, streams, hold, posted, reversed)
    BY <1>1, <1>2, <1>3, AllDone
<1>5. Written(x.op, hold, posted, reversed, hold', posted', reversed')
    BY <1>2, WriteRowIs
<1>6. x.op \in TransferOps => RowLock(x.op) \in x.locks
    BY <1>3, <1>4, HasRow, HoldsRowLock
<1>7. /\ streams \in [AccountIDs -> Seq(Events)] /\ x \in Txs
      /\ hold \in [TransferIDs -> HoldStates]
      /\ posted \subseteq TransferIDs /\ reversed \subseteq posted
    BY <1>1 DEF StreamsInv, TablesTyped, TxsTyped
<1>8. ASSUME NEW a \in AccountIDs
      PROVE  /\ streams'[a] = streams[a] \o x.added[a] /\ streams'[a] \in Seq(Events)
             /\ Prefix(streams[a], streams'[a])
             /\ x.added[a] = <<>> => streams'[a] = streams[a]
  <2>1. streams[a] \in Seq(Events) /\ x.added[a] \in Seq(Events)
    BY <1>7 DEF Txs
  <2>2. streams'[a] = streams[a] \o x.added[a]
    BY <1>2
  <2>3. streams[a] \o x.added[a] \in Seq(Events)
    BY <2>1
  <2>4. Prefix(streams[a], streams[a] \o x.added[a])
    BY <2>1, PrefixOfCat
  <2>5. streams[a] \o <<>> = streams[a]
    BY <2>1
  <2>. QED
    BY <2>2, <2>3, <2>4, <2>5
<1>9. TablesTyped'
  <2>1. streams' \in [AccountIDs -> Seq(Events)]
    BY <1>2, <1>8
  <2>2. x.op.kind \in Kinds \ {"deposit", "withdraw"} => x.op.id \in TransferIDs
    BY <1>4 DEF Ops, CashOps, TransferOps
  <2>3. hold' \in [TransferIDs -> HoldStates]
    BY <1>5, <1>7, <2>2 DEF Written, HoldStates, Kinds
  <2>4. x.op.kind = "reverse" => x.op.id \in posted
    BY <1>4 DEF TxSound
  <2>5. posted' \subseteq TransferIDs /\ reversed' \subseteq posted'
    BY <1>5, <1>7, <2>2, <2>4 DEF Written, Kinds
  <2>6. workload' \in DOMAIN Workloads
    BY DEF StreamsInv, TablesTyped
  <2>. QED
    BY <2>1, <2>3, <2>5, <2>6 DEF TablesTyped
<1>10. \A q \in Processes : q # p => GrowsAround(tx[q], streams, streams')
    BY <1>1, <1>8 DEF GrowsAround, StreamsInv, PendingAlone
<1>11. ASSUME NEW q \in Processes, NEW k \in Nat, q # p,
              TxSound(tx[q], k, streams, hold, posted, reversed)
       PROVE  StillAllowed(tx[q], k, hold', posted', reversed')
  <2>1. PICK y : y = tx[q]
    OBVIOUS
  <2>2. ASSUME NEW i \in 1..k, Statements(y.op)[i].do = "row"
        PROVE  Allowed(y.op, hold', posted', reversed')
    <3>1. RowLock(y.op) \in y.locks /\ y.op \in TransferOps
      BY <1>11, <2>1, <2>2, HoldsRowLock
    <3>2. Allowed(y.op, hold, posted, reversed)
      BY <1>11, <2>1, <2>2 DEF TxSound, StillHolds
    <3>3. y.locks \cap x.locks = {}
      BY <1>1, <1>11, <2>1 DEF StreamsInv, LocksExclusive
    <3>4. x.op \in TransferOps => RowLock(x.op) # RowLock(y.op)
      BY <1>6, <3>1, <3>3
    <3>. QED
      BY <1>4, <1>5, <1>7, <3>1, <3>2, <3>4, AllowedKept
  <2>. QED
    BY <2>1, <2>2 DEF StillAllowed
<1>12. posted \subseteq posted'
    BY <1>5 DEF Written
<1>. QED
    BY <1>2, <1>9, <1>10, <1>11, <1>12, TablesStep

-----------------------------------------------------------------------------
(* The invariant and what follows from it *)

LEMMA InitSound ==
    ASSUME Init
    PROVE  StreamsInv
<1>1. Ev("AccountOpened", OpeningBalance) \in Events
    BY StreamsAssumption, EventTypesOK DEF EventTypes
<1>2. TablesTyped
  <2>1. PICK e : e = Ev("AccountOpened", OpeningBalance)
    OBVIOUS
  <2>2. <<>> \in Seq(Events) /\ <<e>> \in Seq(Events)
    BY <1>1, <2>1
  <2>3. streams \in [AccountIDs -> {<<>>, <<e>>}]
    BY <2>1 DEF Init, AtomicInit
  <2>4. streams \in [AccountIDs -> Seq(Events)]
    BY <2>2, <2>3, Zenon
  <2>5. /\ hold \in [TransferIDs -> HoldStates] /\ posted \subseteq TransferIDs
        /\ reversed \subseteq posted /\ workload \in DOMAIN Workloads
    BY DEF Init, AtomicInit, HoldStates
  <2>. QED
    BY <2>4, <2>5 DEF TablesTyped
<1>3. PICK x : x = Ended("plain")
    OBVIOUS
<1>4. "plain" \in Answers
    BY DEF Answers
<1>5. /\ x \in Txs /\ x.op = NoOp /\ x.locks = {}
      /\ \A a \in AccountIDs : x.added[a] = <<>>
      /\ TxOK(x, streams, hold, posted, reversed)
    BY <1>3, <1>4, EndedFacts
<1>6. tx = [p \in Processes |-> x]
    BY <1>3 DEF Init
<1>7. TxsTyped
    BY <1>5, <1>6 DEF TxsTyped
<1>8. TxsSound
    BY <1>5, <1>6 DEF TxsSound
<1>9. LocksExclusive /\ PendingAlone
    BY <1>5, <1>6 DEF LocksExclusive, PendingAlone
<1>. QED
    BY <1>2, <1>7, <1>8, <1>9 DEF StreamsInv

LEMMA NextSound ==
    ASSUME StreamsInv, [Next]_vars
    PROVE  StreamsInv'
<1>1. CASE Next
  <2>1. PICK p \in Processes : Begin(p) \/ Run(p) \/ Rollback(p)
    BY <1>1 DEF Next
  <2>2. workload' = workload
    BY <1>1 DEF Next
  <2>3. CASE Begin(p)
    BY <2>2, <2>3, BeginStep
  <2>4. CASE LockAccount(p)
    BY <2>2, <2>4, LockStep
  <2>5. CASE ReadRow(p)
    BY <2>2, <2>5, RowStep
  <2>6. CASE LoadEvents(p)
    BY <2>2, <2>6, LoadEventsStep
  <2>7. CASE InsertEvent(p)
    BY <2>2, <2>7, InsertEventStep
  <2>8. CASE AppendEvent(p)
    BY <2>2, <2>8, AppendEventStep
  <2>9. CASE Commit(p)
    BY <2>2, <2>9, CommitStep
  <2>10. CASE Rollback(p)
    <3>1. End(p, "plain") /\ UNCHANGED <<streams, rows>> /\ "plain" \in Answers
      BY <2>10 DEF Rollback, Answers
    <3>. QED
      BY <2>2, <3>1, EndStep
  <2>. QED
    BY <2>1, <2>3, <2>4, <2>5, <2>6, <2>7, <2>8, <2>9, <2>10 DEF Run
<1>2. CASE UNCHANGED vars
  <2>1. /\ streams' = streams /\ hold' = hold /\ posted' = posted /\ reversed' = reversed
        /\ tx' = tx /\ workload' = workload
    BY <1>2 DEF vars
  <2>2. TablesTyped'
    BY <2>1 DEF StreamsInv, TablesTyped
  <2>3. TxsTyped'
    BY <2>1 DEF StreamsInv, TxsTyped
  <2>4. TxsSound'
    BY <2>1 DEF StreamsInv, TxsSound
  <2>5. LocksExclusive'
    BY <2>1 DEF StreamsInv, LocksExclusive
  <2>6. PendingAlone'
    BY <2>1 DEF StreamsInv, PendingAlone
  <2>. QED
    BY <2>2, <2>3, <2>4, <2>5, <2>6 DEF StreamsInv
<1>. QED
    BY <1>1, <1>2

(* Every transaction stands at a place of its plan: it holds the locks and *)
(* has inserted the events of the statements it has run, what these read   *)
(* and checked still holds, no lock is held twice, and no stream has the   *)
(* pending events of two transactions.                                     *)
THEOREM StreamsInvariant == Spec => []StreamsInv
<1>1. Init => StreamsInv
    BY InitSound
<1>2. StreamsInv /\ [Next]_vars => StreamsInv'
    BY NextSound
<1>. QED
    BY <1>1, <1>2, PTL DEF Spec

(* The tables and the transactions keep their types. *)
THEOREM StreamsTypeCorrect == Spec => []TypeOK
<1>1. StreamsInv => TypeOK
  <2>. SUFFICES ASSUME StreamsInv PROVE TypeOK
    OBVIOUS
  <2>1. ASSUME NEW p \in Processes
        PROVE  /\ tx[p].op \in Workloads[workload] \cup {NoOp}
               /\ tx[p].answer \in Answers
               /\ \A i \in DOMAIN tx[p].todo : tx[p].todo[i].do \in StatementKinds
               /\ tx[p].locks \subseteq AccountIDs \cup TransferIDs
               /\ tx[p].view \in [AccountIDs -> Seq(Events)]
               /\ tx[p].added \in [AccountIDs -> Seq(Events)]
    <3>1. tx[p] \in Txs /\ tx[p].op \in Workloads[workload] \cup {NoOp}
      BY DEF StreamsInv, TxsTyped
    <3>2. tx[p].todo \in Seq(Stmts)
      BY <3>1 DEF Txs
    <3>3. \A s \in Stmts : s.do \in StatementKinds
      BY DEF Stmts, StatementKinds
    <3>4. \A i \in DOMAIN tx[p].todo : tx[p].todo[i] \in Stmts
      BY <3>2
    <3>. QED
      BY <3>1, <3>3, <3>4 DEF Txs, Locks
  <2>. QED
    BY <2>1 DEF StreamsInv, TablesTyped, TypeOK
<1>. QED
    BY <1>1, StreamsInvariant, PTL

(* Events inserted and not committed continue the committed stream, for    *)
(* any number of requests and deposits beside them.                        *)
THEOREM PendingFits == Spec => []PendingEventsFit
<1>1. StreamsInv => PendingEventsFit
  <2>. SUFFICES ASSUME StreamsInv, NEW p \in Processes, NEW a \in AccountIDs,
                       tx[p].added[a] # <<>>
                PROVE  streams[a] \o tx[p].added[a] = tx[p].view[a]
    BY DEF PendingEventsFit
  <2>1. TxOK(tx[p], streams, hold, posted, reversed)
    BY DEF StreamsInv, TxsSound
  <2>2. \A answer \in Answers : tx[p] # Ended(answer)
    BY EndedFacts
  <2>3. PICK k \in Nat : TxSound(tx[p], k, streams, hold, posted, reversed)
    BY <2>1, <2>2 DEF TxOK
  <2>4. Fits(tx[p].view[a], tx[p].added[a], streams[a])
    BY <2>3 DEF TxSound
  <2>. QED
    BY <2>4 DEF Fits
<1>. QED
    BY <1>1, StreamsInvariant, PTL

-----------------------------------------------------------------------------
(* Every step is a step on whole streams, or none *)

LEMMA Lengthened ==
    ASSUME NEW E, NEW s \in Seq(E), NEW z \in Seq(E), z # <<>>
    PROVE  s \o z # s
<1>1. Len(s \o z) = Len(s) + Len(z) /\ Len(z) > 0 /\ Len(s) \in Nat /\ Len(z) \in Nat
    OBVIOUS
<1>2. Len(s \o z) # Len(s)
    BY <1>1
<1>. QED
    BY <1>2

Combined(str, add) == [a \in AccountIDs |-> str[a] \o add[a]]

OnlyAt(add, B) == \A a \in AccountIDs : a \notin B => add[a] = <<>>

LEMMA AddedAt ==
    ASSUME NEW str, str \in [AccountIDs -> Seq(Events)],
           NEW add, add \in [AccountIDs -> Seq(Events)],
           NEW b \in AccountIDs, add[b] # <<>>, OnlyAt(add, {b})
    PROVE  /\ Combined(str, add) = [str EXCEPT ![b] = @ \o add[b]]
           /\ Combined(str, add) # str
<1>1. PICK f, g : /\ f = Combined(str, add)
                  /\ g = [str EXCEPT ![b] = @ \o add[b]]
    OBVIOUS
<1>2. DOMAIN f = AccountIDs /\ DOMAIN g = AccountIDs
    BY <1>1 DEF Combined
<1>3. ASSUME NEW a \in AccountIDs PROVE f[a] = g[a]
  <2>1. CASE a = b
    BY <1>1, <2>1 DEF Combined
  <2>2. CASE a # b
    <3>1. f[a] = str[a] \o <<>> /\ g[a] = str[a] /\ str[a] \in Seq(Events)
      BY <1>1, <2>2 DEF Combined, OnlyAt
    <3>. QED
      BY <3>1
  <2>. QED
    BY <2>1, <2>2
<1>4. f = g
    BY <1>1, <1>2, <1>3 DEF Combined
<1>5. f[b] # str[b]
  <2>1. f[b] = str[b] \o add[b] /\ str[b] \in Seq(Events) /\ add[b] \in Seq(Events)
    BY <1>1 DEF Combined
  <2>2. str[b] \o add[b] # str[b]
    BY <2>1, Lengthened
  <2>. QED
    BY <2>1, <2>2
<1>. QED
    BY <1>1, <1>4, <1>5

LEMMA MovedAt ==
    ASSUME NEW str, str \in [AccountIDs -> Seq(Events)],
           NEW add, add \in [AccountIDs -> Seq(Events)],
           NEW b \in AccountIDs, NEW c \in AccountIDs, b # c, add[b] # <<>>,
           OnlyAt(add, {b, c})
    PROVE  /\ Combined(str, add) = [str EXCEPT ![b] = @ \o add[b], ![c] = @ \o add[c]]
           /\ Combined(str, add) # str
<1>1. PICK f, g : /\ f = Combined(str, add)
                  /\ g = [str EXCEPT ![b] = @ \o add[b], ![c] = @ \o add[c]]
    OBVIOUS
<1>2. /\ DOMAIN f = AccountIDs /\ DOMAIN g = AccountIDs
      /\ g[b] = str[b] \o add[b] /\ g[c] = str[c] \o add[c]
    BY <1>1 DEF Combined
<1>3. ASSUME NEW a \in AccountIDs PROVE f[a] = g[a]
  <2>1. CASE a = b
    BY <1>1, <1>2, <2>1 DEF Combined
  <2>2. CASE a = c
    BY <1>1, <1>2, <2>2 DEF Combined
  <2>3. CASE a # b /\ a # c
    <3>1. f[a] = str[a] \o <<>> /\ g[a] = str[a] /\ str[a] \in Seq(Events)
      BY <1>1, <2>3 DEF Combined, OnlyAt
    <3>. QED
      BY <3>1
  <2>. QED
    BY <2>1, <2>2, <2>3
<1>4. f = g
    BY <1>1, <1>2, <1>3 DEF Combined
<1>5. f[b] # str[b]
  <2>1. f[b] = str[b] \o add[b] /\ str[b] \in Seq(Events) /\ add[b] \in Seq(Events)
    BY <1>1 DEF Combined
  <2>2. str[b] \o add[b] # str[b]
    BY <2>1, Lengthened
  <2>. QED
    BY <2>1, <2>2
<1>. QED
    BY <1>1, <1>4, <1>5

(* What a check has found is so of the committed stream. *)
LEMMA ChecksHold ==
    ASSUME NEW x, NEW n, NEW str, NEW h, NEW po, NEW re, TxSound(x, n, str, h, po, re),
           x \in Txs, str \in [AccountIDs -> Seq(Events)],
           NEW s, NEW i \in 1..n, s = Statements(x.op)[i], NEW a \in AccountIDs, s.on = a
    PROVE  /\ s.do # "append"
           /\ s.do \in {"find", "cover"} => str[a] # <<>>
           /\ s.do = "cover" /\ x.added[a] # <<>> => Available(str[a]) >= s.amount
<1>1. /\ StillHolds(s, x, str, h, po, re) /\ Fits(x.view[a], x.added[a], str[a])
    BY DEF TxSound
<1>2. PICK v, z, w : v = x.view[a] /\ z = x.added[a] /\ w = str[a]
    OBVIOUS
<1>3. v \in Seq(Events) /\ z \in Seq(Events) /\ w \in Seq(Events)
    BY <1>2 DEF Txs
<1>4. s.do \in {"find", "cover"} => Acceptable(s, Seen(v, z, w))
    BY <1>1, <1>2 DEF StillHolds, Loading
<1>5. ASSUME s.do \in {"find", "cover"} PROVE w # <<>>
  <2>1. Seen(v, z, w) # <<>>
    BY <1>4, <1>5 DEF Acceptable
  <2>2. CASE z # <<>>
    BY <2>1, <2>2 DEF Seen
  <2>3. CASE z = <<>>
    <3>1. v # <<>> /\ Prefix(v, w)
      BY <1>1, <1>2, <2>1, <2>3 DEF Seen, Fits
    <3>2. Len(v) > 0 /\ Len(v) <= Len(w)
      BY <1>3, <3>1 DEF Prefix
    <3>. QED
      BY <1>3, <3>2
  <2>. QED
    BY <2>2, <2>3
<1>6. ASSUME s.do = "cover", z # <<>> PROVE Available(w) >= s.amount
  <2>1. Seen(v, z, w) = w /\ s.do \in {"find", "cover"}
    BY <1>6 DEF Seen
  <2>. QED
    BY <1>4, <1>6, <2>1 DEF Acceptable
<1>7. s.do # "append"
    BY <1>1 DEF StillHolds
<1>. QED
    BY <1>2, <1>5, <1>6, <1>7

(* What a transaction x that commits does to the tables. *)
Commits(x, str, h, po, re, str2, h2, po2, re2) ==
    /\ x \in Txs /\ x.op \in Ops
    /\ TxSound(x, Len(Statements(x.op)), str, h, po, re)
    /\ str \in [AccountIDs -> Seq(Events)] /\ h \in [TransferIDs -> HoldStates]
    /\ str2 = Combined(str, x.added)
    /\ Written(x.op, h, po, re, h2, po2, re2)

LEMMA CommitIs ==
    ASSUME StreamsInv, NEW p \in Processes, Commit(p)
    PROVE  Commits(tx[p], streams, hold, posted, reversed,
                   streams', hold', posted', reversed')
<1>1. PICK x : x = tx[p]
    OBVIOUS
<1>2. /\ Active(p) /\ x.todo = <<>> /\ WriteRow(x.op)
      /\ streams' = [a \in AccountIDs |-> streams[a] \o x.added[a]]
    BY <1>1 DEF Commit
<1>3. /\ x.op \in Ops
      /\ TxSound(x, Len(Statements(x.op)), streams, hold, posted, reversed)
    BY <1>1, <1>2, AllDone
<1>4. Written(x.op, hold, posted, reversed, hold', posted', reversed')
    BY <1>2, WriteRowIs
<1>5. /\ x \in Txs /\ streams \in [AccountIDs -> Seq(Events)]
      /\ hold \in [TransferIDs -> HoldStates]
    BY <1>1 DEF StreamsInv, TablesTyped, TxsTyped
<1>. QED
    BY <1>1, <1>2, <1>3, <1>4, <1>5 DEF Commits, Combined

LEMMA RowChecked ==
    ASSUME NEW x, NEW str, NEW h, NEW po, NEW re,
           TxSound(x, Len(Statements(x.op)), str, h, po, re), x.op \in TransferOps
    PROVE  Allowed(x.op, h, po, re) /\ (x.op.kind = "reverse" => x.op.id \in po)
BY HasRow DEF TxSound, StillHolds

LEMMA AddsAlone ==
    ASSUME NEW x, Commits(x, streams, hold, posted, reversed, streams', hold', posted', reversed'),
           NEW b \in AccountIDs, NEW e, x.added[b] = <<e>>, OnlyAt(x.added, {b})
    PROVE  Add(b, <<e>>) /\ streams' # streams
<1>1. x.added[b] # <<>>
    BY Alone
<1>2. /\ x.added \in [AccountIDs -> Seq(Events)] /\ streams \in [AccountIDs -> Seq(Events)]
      /\ streams' = Combined(streams, x.added)
    BY DEF Commits, Txs
<1>3. PICK add : add = x.added
    OBVIOUS
<1>4. /\ Combined(streams, add) = [streams EXCEPT ![b] = @ \o add[b]]
      /\ Combined(streams, add) # streams
  <2>1. /\ add \in [AccountIDs -> Seq(Events)] /\ streams \in [AccountIDs -> Seq(Events)]
        /\ add[b] # <<>> /\ OnlyAt(add, {b})
    BY ONLY <1>1, <1>2, <1>3, OnlyAt(x.added, {b}), Zenon
  <2>. QED
    BY ONLY <2>1, b \in AccountIDs, AddedAt
<1>5. streams' = [streams EXCEPT ![b] = @ \o <<e>>] /\ streams' # streams
  <2>1. add[b] = <<e>>
    BY <1>3
  <2>2. [streams EXCEPT ![b] = @ \o add[b]] = [streams EXCEPT ![b] = @ \o <<e>>]
    BY ONLY <2>1, Zenon
  <2>. QED
    BY ONLY <1>2, <1>3, <1>4, <2>2, Zenon
<1>. QED
    BY <1>5 DEF Add

LEMMA WithdrawCommits ==
    ASSUME NEW x, Commits(x, streams, hold, posted, reversed, streams', hold', posted', reversed'),
           x.op.kind = "withdraw"
    PROVE  AtomicNext
<1>1. PICK op, b, m, e : /\ op = x.op /\ b = op.acct /\ m = op.amount
                         /\ e = Ev("MoneyDebited", m)
    OBVIOUS
<1>2. op \in CashOps /\ op.kind = "withdraw"
    BY <1>1 DEF Commits, Ops, TransferOps, Kinds
<1>3. b \in AccountIDs /\ m \in CashAmounts
    BY <1>1, <1>2 DEF CashOps
<1>4. PICK S : S = Statements(op)
    OBVIOUS
<1>5. Len(S) = 3
    BY <1>2, <1>4, WithdrawPlan
<1>6. S = <<Lock(b), Cover(b, m), Insert(b, e)>>
    BY <1>1, <1>2, <1>4 DEF Statements, WithdrawAvailable
<1>7. S[2] = Cover(b, m)
    BY <1>6
<1>8. /\ x \in Txs /\ TxSound(x, 3, streams, hold, posted, reversed)
      /\ streams \in [AccountIDs -> Seq(Events)]
    BY <1>1, <1>4, <1>5 DEF Commits
<1>9. x.added[b] = <<e>> /\ OnlyAt(x.added, {b})
  <2>1. \A a \in AccountIDs : x.added[a] = AddedAfter(op, 3, a)
    BY <1>1, <1>8 DEF TxSound
  <2>2. \A a : AddedAfter(op, 3, a) = Once(a, b, 3, 3, e)
    BY <1>1, <1>2 DEF AddedAfter
  <2>. QED
    BY <1>3, <2>1, <2>2 DEF Once, OnlyAt
<1>10. streams[b] # <<>> /\ Available(streams[b]) >= m
  <2>1. 2 \in 1..3 /\ Cover(b, m) = Statements(x.op)[2]
    BY <1>1, <1>4, <1>7
  <2>2. Cover(b, m).do = "cover" /\ Cover(b, m).on = b /\ Cover(b, m).amount = m
    BY DEF Cover
  <2>3. x.added[b] # <<>>
    BY <1>9, Alone
  <2>. QED
    BY <1>3, <1>8, <2>1, <2>2, <2>3, ChecksHold
<1>11. Add(b, <<e>>) /\ streams' # streams
    BY <1>3, <1>9, AddsAlone
<1>12. UNCHANGED rows
    BY <1>1, <1>2 DEF Commits, Written, rows
<1>13. WithdrawStep(b, m)
    BY <1>1, <1>10, <1>11, <1>12 DEF WithdrawStep
<1>. QED
    BY <1>3, <1>11, <1>13 DEF AtomicNext

LEMMA ReserveCommits ==
    ASSUME NEW x, Commits(x, streams, hold, posted, reversed, streams', hold', posted', reversed'),
           x.op.kind = "reserve"
    PROVE  AtomicNext
<1>1. PICK op, t, b, c, m, e :
          /\ op = x.op /\ t = op.id /\ b = Transfers[t].src /\ c = Transfers[t].dst
          /\ m = Total(t) /\ e = Ev("FundsReserved", m)
    OBVIOUS
<1>2. op \in TransferOps /\ op.kind = "reserve"
    BY <1>1 DEF Commits, Ops, CashOps
<1>3. t \in TransferIDs /\ b \in AccountIDs /\ c \in AccountIDs /\ b # c
    BY <1>1, <1>2, TransferFacts DEF TransferOps
<1>4. PICK S : S = Statements(op)
    OBVIOUS
<1>5. Len(S) = 5
    BY <1>2, <1>4, ReservePlan
<1>6. S = <<Lock(b), CheckRow, Cover(b, m), Find(c), Insert(b, e)>>
    BY <1>1, <1>2, <1>4 DEF Statements, ReserveTransferFunds
<1>7. S[3] = Cover(b, m) /\ S[4] = Find(c)
    BY <1>6
<1>8. /\ x \in Txs /\ TxSound(x, 5, streams, hold, posted, reversed)
      /\ streams \in [AccountIDs -> Seq(Events)]
    BY <1>1, <1>4, <1>5 DEF Commits
<1>9. x.added[b] = <<e>> /\ OnlyAt(x.added, {b})
  <2>1. \A a \in AccountIDs : x.added[a] = AddedAfter(op, 5, a)
    BY <1>1, <1>8 DEF TxSound
  <2>2. \A a : AddedAfter(op, 5, a) = Once(a, b, 5, 5, e)
    BY <1>1, <1>2 DEF AddedAfter
  <2>. QED
    BY <1>3, <2>1, <2>2 DEF Once, OnlyAt
<1>10. streams[b] # <<>> /\ Available(streams[b]) >= m
  <2>1. 3 \in 1..5 /\ Cover(b, m) = Statements(x.op)[3]
    BY <1>1, <1>4, <1>7
  <2>2. Cover(b, m).do = "cover" /\ Cover(b, m).on = b /\ Cover(b, m).amount = m
    BY DEF Cover
  <2>3. x.added[b] # <<>>
    BY <1>9, Alone
  <2>. QED
    BY <1>3, <1>8, <2>1, <2>2, <2>3, ChecksHold
<1>11. streams[c] # <<>>
  <2>1. 4 \in 1..5 /\ Find(c) = Statements(x.op)[4]
    BY <1>1, <1>4, <1>7
  <2>2. Find(c).do = "find" /\ Find(c).on = c
    BY DEF Find
  <2>. QED
    BY <1>3, <1>8, <2>1, <2>2, ChecksHold
<1>12. Add(b, <<e>>) /\ streams' # streams
    BY <1>3, <1>9, AddsAlone
<1>13. hold[t] = "none"
  <2>1. Allowed(op, hold, posted, reversed)
    BY <1>1, <1>2, RowChecked DEF Commits
  <2>. QED
    BY <1>1, <1>2, <2>1 DEF Allowed
<1>14. /\ hold' = [hold EXCEPT ![t] = "reserved"]
       /\ posted' = posted /\ reversed' = reversed
    BY <1>1, <1>2 DEF Commits, Written
<1>15. ReserveStep(t)
    BY <1>1, <1>10, <1>11, <1>12, <1>13, <1>14 DEF ReserveStep
<1>. QED
    BY <1>3, <1>12, <1>15 DEF AtomicNext

LEMMA FinishCommits ==
    ASSUME NEW x, Commits(x, streams, hold, posted, reversed, streams', hold', posted', reversed'),
           x.op.kind \in {"capture", "release"}
    PROVE  AtomicNext
<1>1. PICK op, t, b, m : /\ op = x.op /\ t = op.id /\ b = Transfers[t].src /\ m = Total(t)
    OBVIOUS
<1>2. op \in TransferOps /\ op.kind \in {"capture", "release"}
    BY <1>1 DEF Commits, Ops, CashOps
<1>3. t \in TransferIDs /\ b \in AccountIDs
    BY <1>1, <1>2, TransferFacts DEF TransferOps
<1>4. PICK type, target :
          \/ /\ op.kind = "capture" /\ type = "ReservationCaptured" /\ target = "captured"
          \/ /\ op.kind = "release" /\ type = "ReservationReleased" /\ target = "released"
    BY <1>2
<1>5. PICK e : e = Ev(type, m)
    OBVIOUS
<1>6. Len(Statements(op)) = 4
    BY <1>2, FinishPlan
<1>7. /\ x \in Txs /\ TxSound(x, 4, streams, hold, posted, reversed)
      /\ streams \in [AccountIDs -> Seq(Events)]
    BY <1>1, <1>6 DEF Commits
<1>8. x.added[b] = <<e>> /\ OnlyAt(x.added, {b})
  <2>1. \A a \in AccountIDs : x.added[a] = AddedAfter(op, 4, a)
    BY <1>1, <1>7 DEF TxSound
  <2>2. \A a : AddedAfter(op, 4, a) = Once(a, b, 4, 4, e)
    BY <1>1, <1>4, <1>5 DEF AddedAfter
  <2>. QED
    BY <1>3, <2>1, <2>2 DEF Once, OnlyAt
<1>9. Add(b, <<e>>) /\ streams' # streams
    BY <1>3, <1>8, AddsAlone
<1>10. hold[t] = "reserved"
  <2>1. Allowed(op, hold, posted, reversed)
    BY <1>1, <1>2, RowChecked DEF Commits
  <2>. QED
    BY <1>1, <1>2, <2>1 DEF Allowed
<1>11. /\ hold' = [hold EXCEPT ![t] = target]
       /\ posted' = posted /\ reversed' = reversed
    BY <1>1, <1>4 DEF Commits, Written
<1>12. EndHoldStep(t, type, target)
    BY <1>1, <1>5, <1>9, <1>10, <1>11 DEF EndHoldStep
<1>. QED
    BY <1>3, <1>4, <1>9, <1>12 DEF AtomicNext

LEMMA MovesBetween ==
    ASSUME NEW x, Commits(x, streams, hold, posted, reversed, streams', hold', posted', reversed'),
           NEW b \in AccountIDs, NEW c \in AccountIDs, b # c, NEW y, NEW z,
           x.added[b] = y, x.added[c] = z, y # <<>>, OnlyAt(x.added, {b, c})
    PROVE  Move(b, y, c, z) /\ streams' # streams
<1>1. /\ x.added \in [AccountIDs -> Seq(Events)] /\ streams \in [AccountIDs -> Seq(Events)]
      /\ streams' = Combined(streams, x.added)
    BY DEF Commits, Txs
<1>2. PICK add : add = x.added
    OBVIOUS
<1>3. /\ Combined(streams, add) = [streams EXCEPT ![b] = @ \o add[b], ![c] = @ \o add[c]]
      /\ Combined(streams, add) # streams
  <2>1. /\ add \in [AccountIDs -> Seq(Events)] /\ streams \in [AccountIDs -> Seq(Events)]
        /\ add[b] # <<>> /\ OnlyAt(add, {b, c})
    BY ONLY <1>1, <1>2, OnlyAt(x.added, {b, c}), x.added[b] = y, y # <<>>, Zenon
  <2>. QED
    BY ONLY <2>1, b \in AccountIDs, c \in AccountIDs, b # c, MovedAt
<1>4. streams' = [streams EXCEPT ![b] = @ \o y, ![c] = @ \o z] /\ streams' # streams
  <2>1. add[b] = y /\ add[c] = z
    BY <1>2
  <2>2. [streams EXCEPT ![b] = @ \o add[b], ![c] = @ \o add[c]]
            = [streams EXCEPT ![b] = @ \o y, ![c] = @ \o z]
    BY ONLY <2>1, Zenon
  <2>. QED
    BY ONLY <1>1, <1>2, <1>3, <2>2, Zenon
<1>. QED
    BY <1>4 DEF Move

LEMMA PostCommits ==
    ASSUME NEW x, Commits(x, streams, hold, posted, reversed, streams', hold', posted', reversed'),
           x.op.kind = "post"
    PROVE  AtomicNext
<1>1. PICK op, t, b, c, z, e, n :
          /\ op = x.op /\ t = op.id /\ b = Transfers[t].src /\ c = Transfers[t].dst
          /\ z = SourceEntries(t) /\ e = Ev("MoneyCredited", Transfers[t].amount)
          /\ n = Len(z)
    OBVIOUS
<1>2. op \in TransferOps /\ op.kind = "post"
    BY <1>1 DEF Commits, Ops, CashOps
<1>3. t \in TransferIDs /\ b \in AccountIDs /\ c \in AccountIDs /\ b # c
    BY <1>1, <1>2, TransferFacts DEF TransferOps
<1>4. Len(Statements(op)) = 6 + n
    BY <1>1, <1>2, PostPlan
<1>5. z # <<>> /\ n \in Nat
  <2>1. PICK f, g : /\ f = Ev("MoneyDebited", Transfers[t].fee)
                    /\ g = Ev("MoneyDebited", Transfers[t].amount)
    OBVIOUS
  <2>2. z = <<f, g>> \/ z = <<g>>
    BY <1>1, <1>3, <2>1, EntriesOfSource
  <2>3. /\ <<f, g>> # <<>> /\ <<g>> # <<>>
        /\ Len(<<f, g>>) \in Nat /\ Len(<<g>>) \in Nat
    OBVIOUS
  <2>. QED
    BY ONLY <1>1, <2>2, <2>3, Zenon
<1>6. /\ x \in Txs /\ TxSound(x, 6 + n, streams, hold, posted, reversed)
    BY <1>1, <1>4 DEF Commits
<1>7. x.added[b] = z /\ x.added[c] = <<e>> /\ OnlyAt(x.added, {b, c})
  <2>1. \A a \in AccountIDs : x.added[a] = AddedAfter(op, 6 + n, a)
    BY <1>1, <1>6 DEF TxSound
  <2>2. \A a : AddedAfter(op, 6 + n, a) =
            IF a = b THEN IF 6 + n >= 5 + n THEN z ELSE IF 6 + n = 6 THEN <<z[1]>> ELSE <<>>
                     ELSE Once(a, c, 6 + n, 6 + n, e)
    BY <1>1, <1>2 DEF AddedAfter
  <2>3. 6 + n >= 5 + n /\ 6 + n >= 6 + n
    BY <1>5
  <2>4. \A a : AddedAfter(op, 6 + n, a) =
            IF a = b THEN z ELSE IF a = c THEN <<e>> ELSE <<>>
    BY <2>2, <2>3 DEF Once
  <2>. QED
    BY <1>3, <2>1, <2>4 DEF OnlyAt
<1>8. Move(b, z, c, <<e>>) /\ streams' # streams
    BY <1>3, <1>5, <1>7, MovesBetween
<1>9. t \notin posted
  <2>1. Allowed(op, hold, posted, reversed)
    BY <1>1, <1>2, RowChecked DEF Commits
  <2>. QED
    BY <1>1, <1>2, <2>1 DEF Allowed
<1>10. posted' = posted \cup {t} /\ hold' = hold /\ reversed' = reversed
    BY <1>1, <1>2 DEF Commits, Written
<1>11. PostStep(t)
    BY <1>1, <1>8, <1>9, <1>10 DEF PostStep
<1>. QED
    BY <1>3, <1>8, <1>11 DEF AtomicNext

LEMMA ReverseCommits ==
    ASSUME NEW x, Commits(x, streams, hold, posted, reversed, streams', hold', posted', reversed'),
           x.op.kind = "reverse"
    PROVE  AtomicNext
<1>1. PICK op, t, b, c, m, e, f :
          /\ op = x.op /\ t = op.id /\ b = Transfers[t].src /\ c = Transfers[t].dst
          /\ m = Transfers[t].amount
          /\ e = Ev("MoneyCredited", Total(t)) /\ f = Ev("MoneyDebited", m)
    OBVIOUS
<1>2. op \in TransferOps /\ op.kind = "reverse"
    BY <1>1 DEF Commits, Ops, CashOps
<1>3. t \in TransferIDs /\ b \in AccountIDs /\ c \in AccountIDs /\ b # c
    BY <1>1, <1>2, TransferFacts DEF TransferOps
<1>4. PICK S : S = Statements(op)
    OBVIOUS
<1>5. Len(S) = 8
    BY <1>2, <1>4, ReversePlan
<1>6. S[5] = Cover(c, m)
  <2>1. S = ReverseTransfer(t)
    BY <1>1, <1>2, <1>4 DEF Statements
  <2>2. ReverseTransfer(t)[5] = Cover(Transfers[t].dst, Transfers[t].amount)
    BY <1>3, ReverseStatements
  <2>. QED
    BY <1>1, <2>1, <2>2
<1>7. /\ x \in Txs /\ TxSound(x, 8, streams, hold, posted, reversed)
      /\ streams \in [AccountIDs -> Seq(Events)]
    BY <1>1, <1>4, <1>5 DEF Commits
<1>8. x.added[c] = <<f>> /\ x.added[b] = <<e>> /\ OnlyAt(x.added, {c, b})
  <2>1. \A a \in AccountIDs : x.added[a] = AddedAfter(op, 8, a)
    BY <1>1, <1>7 DEF TxSound
  <2>2. \A a : AddedAfter(op, 8, a) =
            IF a = b THEN Once(a, a, 8, 8, e) ELSE Once(a, c, 8, 6, f)
    BY <1>1, <1>2 DEF AddedAfter
  <2>. QED
    BY <1>3, <2>1, <2>2 DEF Once, OnlyAt
<1>9. <<f>> # <<>>
    BY Alone
<1>10. Move(c, <<f>>, b, <<e>>) /\ streams' # streams
    BY <1>3, <1>8, <1>9, MovesBetween
<1>11. Available(streams[c]) >= m
  <2>1. 5 \in 1..8 /\ Cover(c, m) = Statements(x.op)[5]
    BY <1>1, <1>4, <1>6
  <2>2. Cover(c, m).do = "cover" /\ Cover(c, m).on = c /\ Cover(c, m).amount = m
    BY DEF Cover
  <2>3. x.added[c] # <<>>
    BY <1>8, <1>9
  <2>. QED
    BY <1>3, <1>7, <2>1, <2>2, <2>3, ChecksHold
<1>12. t \in posted /\ t \notin reversed
  <2>1. Allowed(op, hold, posted, reversed) /\ (op.kind = "reverse" => op.id \in posted)
    BY <1>1, <1>2, RowChecked DEF Commits
  <2>. QED
    BY <1>1, <1>2, <2>1 DEF Allowed
<1>13. reversed' = reversed \cup {t} /\ hold' = hold /\ posted' = posted
    BY <1>1, <1>2 DEF Commits, Written
<1>14. ReverseStep(t)
    BY <1>1, <1>10, <1>11, <1>12, <1>13 DEF ReverseStep
<1>. QED
    BY <1>3, <1>10, <1>14 DEF AtomicNext

(* A deposit never comes to a commit: its append ends it. *)
LEMMA DepositNeverCommits ==
    ASSUME NEW x, NEW str, NEW h, NEW po, NEW re, x.op \in Ops,
           TxSound(x, Len(Statements(x.op)), str, h, po, re)
    PROVE  x.op.kind # "deposit"
<1>1. SUFFICES ASSUME x.op.kind = "deposit" PROVE FALSE
    OBVIOUS
<1>2. x.op \in CashOps
    BY <1>1 DEF Ops, TransferOps, Kinds
<1>3. PICK S, e : S = Statements(x.op) /\ e = Ev("MoneyCredited", x.op.amount)
    OBVIOUS
<1>4. Len(S) = 2
    BY <1>1, <1>2, <1>3, DepositPlan
<1>5. S = <<Find(x.op.acct), AppendNow(x.op.acct, e)>>
    BY <1>1, <1>3 DEF Statements, Deposit
<1>6. S[2].do = "append"
    BY <1>5 DEF AppendNow
<1>7. 2 \in 1..2 /\ TxSound(x, 2, str, h, po, re)
    BY <1>3, <1>4
<1>8. S[2].do # "append"
    BY <1>3, <1>7 DEF TxSound, StillHolds
<1>. QED
    BY <1>6, <1>8

LEMMA StepRefines ==
    ASSUME StreamsInv, [Next]_vars
    PROVE  [AtomicNext]_<<streams, hold, posted, reversed>>
<1>1. CASE UNCHANGED <<streams, rows>>
    BY <1>1 DEF rows
<1>2. CASE UNCHANGED vars
    BY <1>2 DEF vars
<1>3. ASSUME NEW p \in Processes, AppendEvent(p)
      PROVE  AtomicNext \/ UNCHANGED <<streams, rows>>
  <2>1. CASE Occupied(p, On(p))
    BY <1>3, <2>1 DEF AppendEvent
  <2>2. CASE ~Occupied(p, On(p))
    <3>1. PICK b, e : b = On(p) /\ e = Head(tx[p].todo).event
      OBVIOUS
    <3>2. PICK m \in CashAmounts : e = Ev("MoneyCredited", m)
      BY <1>3, <2>2, <3>1, DepositFacts
    <3>3. b \in AccountIDs /\ streams[b] # <<>>
      BY <1>3, <2>2, <3>1, DepositFacts
    <3>4. streams' = [streams EXCEPT ![b] = @ \o <<e>>] /\ UNCHANGED rows
      BY <1>3, <2>2, <3>1 DEF AppendEvent, Add
    <3>5. DepositStep(b, m)
      BY <3>2, <3>3, <3>4 DEF DepositStep, Add
    <3>6. streams' # streams
      <4>1. e \in Events
        BY <3>2, StreamsAssumption, EventTypesOK DEF EventTypes
      <4>2. streams[b] \in Seq(Events) /\ <<e>> \in Seq(Events) /\ <<e>> # <<>>
        BY <3>3, <4>1 DEF StreamsInv, TablesTyped
      <4>3. streams[b] \o <<e>> # streams[b]
        BY <4>2, Lengthened
      <4>4. streams'[b] = streams[b] \o <<e>>
        BY <3>3, <3>4 DEF StreamsInv, TablesTyped
      <4>. QED
        BY <4>3, <4>4
    <3>. QED
      BY <3>2, <3>3, <3>5, <3>6 DEF AtomicNext
  <2>. QED
    BY <2>1, <2>2
<1>4. ASSUME NEW p \in Processes, Commit(p)
      PROVE  AtomicNext
  <2>1. PICK x : x = tx[p]
    OBVIOUS
  <2>2. Commits(x, streams, hold, posted, reversed, streams', hold', posted', reversed')
    BY <1>4, <2>1, CommitIs
  <2>3. x.op.kind \in Kinds \ {"deposit"}
    <3>1. x.op.kind # "deposit"
      BY <2>2, DepositNeverCommits DEF Commits
    <3>. QED
      BY <2>2, <3>1 DEF Commits, Ops, CashOps, TransferOps, Kinds
  <2>. QED
    BY <2>2, <2>3, WithdrawCommits, ReserveCommits, PostCommits, FinishCommits,
       ReverseCommits DEF Kinds
<1>5. CASE Next
  <2>1. PICK p \in Processes : Begin(p) \/ Run(p) \/ Rollback(p)
    BY <1>5 DEF Next
  <2>2. AtomicNext \/ UNCHANGED <<streams, rows>>
    BY <1>3, <1>4, <2>1 DEF Run, Begin, Rollback, LockAccount, ReadRow, LoadEvents, InsertEvent
  <2>. QED
    BY <1>1, <2>2
<1>. QED
    BY <1>2, <1>5

(* The statements of any number of requests, deposits without lock among   *)
(* them, amount to operations done one at a time on whole streams, each    *)
(* with its checks true when it takes effect.                              *)
THEOREM StreamsAreAtomic == Spec => ImplementsAtomicStreams
<1>1. Init => AtomicInit
    BY DEF Init
<1>2. StreamsInv /\ [Next]_vars => [AtomicNext]_<<streams, hold, posted, reversed>>
    BY StepRefines
<1>. QED
    BY <1>1, <1>2, StreamsInvariant, PTL DEF Spec, ImplementsAtomicStreams, AtomicSpec

-----------------------------------------------------------------------------
(* Who waits for whom *)

(* Who has events pending on a stream holds its lock. *)
LEMMA ClaimsAreLocked ==
    ASSUME StreamsInv, NEW q \in Processes, NEW a \in AccountIDs, NEW n \in Nat,
           Claims(q, a, n)
    PROVE  a \in tx[q].locks
<1>1. PICK x : x = tx[q]
    OBVIOUS
<1>2. x.view[a] \in Seq(Events) /\ x.added[a] \in Seq(Events)
    BY <1>1 DEF StreamsInv, TxsTyped, Txs
<1>3. x.added[a] # <<>>
  <2>1. n <= Len(x.view[a]) /\ n > Len(x.view[a]) - Len(x.added[a])
    BY <1>1 DEF Claims
  <2>2. Len(x.view[a]) \in Nat /\ Len(x.added[a]) \in Nat
    BY <1>2
  <2>3. \A u, w \in Nat : n <= u /\ n > u - w => w # 0
    OBVIOUS
  <2>4. Len(x.added[a]) # 0
    BY <2>1, <2>2, <2>3, Zenon
  <2>. QED
    BY <2>4
<1>4. TxOK(x, streams, hold, posted, reversed)
    BY <1>1 DEF StreamsInv, TxsSound
<1>5. \A answer \in Answers : x # Ended(answer)
    BY <1>3, EndedFacts
<1>6. PICK k \in Nat : TxSound(x, k, streams, hold, posted, reversed)
    BY <1>4, <1>5 DEF TxOK
<1>. QED
    BY <1>1, <1>3, <1>6 DEF TxSound

(* Who waits for another waits for a lock, or is a deposit; whoever is     *)
(* waited for holds a lock, and a deposit holds none.                      *)
LEMMA WaitsForLock ==
    ASSUME StreamsInv, NEW p \in Processes, NEW q \in Processes, WaitsFor(p, q)
    PROVE  /\ tx[q].locks # {}
           /\ tx[p].locks # {} => Doing(p, "lock") /\ On(p) \in tx[q].locks
<1>1. CASE Doing(p, "lock") /\ On(p) \in tx[q].locks
    BY <1>1
<1>2. CASE /\ Doing(p, "insert") \/ Doing(p, "append")
           /\ Claims(q, On(p), Position(p, On(p)))
  <2>1. PICK x, b : x = tx[p] /\ b = On(p)
    OBVIOUS
  <2>2. x.todo # <<>> /\ b = Head(x.todo).on /\ Head(x.todo).do \in {"insert", "append"}
    BY <1>2, <2>1 DEF Doing, On
  <2>3. PICK k \in Nat : Before(x, streams, hold, posted, reversed, k)
    BY <2>1, <2>2, BeforeStatement
  <2>4. PICK S : S = Statements(x.op)
    OBVIOUS
  <2>5. /\ x.op \in Ops /\ Head(x.todo) = S[k + 1] /\ StatementSound(x.op, S, k + 1)
        /\ Head(x.todo) \in Stmts /\ x \in Txs
    BY <2>3, <2>4, HeadFacts DEF Before
  <2>6. b \in AccountIDs
    BY <2>2, <2>5 DEF Stmts
  <2>7. Position(p, b) \in Nat
    BY <2>1, <2>5, <2>6 DEF Position, Txs
  <2>8. b \in tx[q].locks
    BY <1>2, <2>1, <2>6, <2>7, ClaimsAreLocked
  <2>9. x.locks = HeldAfter(S, k)
    BY <2>3, <2>4 DEF Before, TxSound
  <2>10. CASE Head(x.todo).do = "insert"
    <3>1. k + 1 - 1 = k
      OBVIOUS
    <3>2. \E j \in 1..k : S[j].do = "lock" /\ S[j].on = b
      BY <2>2, <2>5, <2>10, <3>1 DEF StatementSound
    <3>3. b \in x.locks
      BY <2>9, <3>2 DEF HeldAfter
    <3>4. p # q
      BY DEF WaitsFor
    <3>. QED
      BY <2>1, <2>8, <3>3, <3>4 DEF StreamsInv, LocksExclusive
  <2>11. CASE Head(x.todo).do = "append"
    <3>1. x.op.kind = "deposit" /\ k + 1 = 2
      BY <2>5, <2>11 DEF StatementSound
    <3>2. k = 1
      BY <3>1
    <3>3. S = Deposit(x.op.acct, x.op.amount)
      BY <2>4, <3>1 DEF Statements
    <3>4. S[1].do = "find"
      BY <3>3 DEF Deposit, Find
    <3>5. \A i \in 1..1 : S[i].do # "lock"
      BY <3>4
    <3>6. HeldAfter(S, 1) = {}
      BY <3>5 DEF HeldAfter
    <3>. QED
      BY <2>1, <2>8, <2>9, <3>2, <3>6
  <2>. QED
    BY <2>2, <2>10, <2>11
<1>. QED
    BY <1>1, <1>2 DEF WaitsFor

LEMMA RankNat ==
    ASSUME NEW l
    PROVE  Rank(l) \in Nat
<1>1. CASE l \in AccountIDs
  <2>1. l \in Nat
    BY <1>1, StreamsAssumption
  <2>. QED
    BY <1>1, <2>1 DEF Rank
<1>2. CASE l \notin AccountIDs
    BY <1>2 DEF Rank
<1>. QED
    BY <1>1, <1>2

(* A lock is asked for after those below it. *)
LEMMA LocksAscend ==
    ASSUME StreamsInv, NEW p \in Processes, Doing(p, "lock"), NEW l \in tx[p].locks
    PROVE  Rank(l) < Rank(On(p)) /\ Rank(On(p)) \in Nat /\ Rank(l) \in Nat
<1>1. PICK x : x = tx[p]
    OBVIOUS
<1>2. x.todo # <<>> /\ On(p) = Head(x.todo).on /\ Head(x.todo).do = "lock"
    BY <1>1 DEF Doing, On
<1>3. PICK k \in Nat : Before(x, streams, hold, posted, reversed, k)
    BY <1>1, <1>2, BeforeStatement
<1>4. PICK S : S = Statements(x.op)
    OBVIOUS
<1>5. /\ Head(x.todo) = S[k + 1] /\ StatementSound(x.op, S, k + 1)
    BY <1>3, <1>4, HeadFacts
<1>6. x.locks = HeldAfter(S, k)
    BY <1>3, <1>4 DEF Before, TxSound
<1>7. PICK j \in 1..k : S[j].do = "lock" /\ S[j].on = l
    BY <1>1, <1>6 DEF HeldAfter
<1>8. k + 1 - 1 = k
    OBVIOUS
<1>9. Rank(S[j].on) < Rank(S[k + 1].on)
    BY <1>2, <1>5, <1>7, <1>8 DEF StatementSound
<1>10. ASSUME NEW i PROVE Rank(i) \in Nat
    BY RankNat
<1>. QED
    BY <1>2, <1>5, <1>7, <1>9, <1>10

LEMMA TopOfFinite ==
    ASSUME NEW R, IsFiniteSet(R), R # {}, NEW f, f \in [R -> Nat]
    PROVE  \E x \in R : \A y \in R : f[x] >= f[y]
<1> DEFINE Good == {U \in SUBSET R : U # {} => \E x \in U : \A y \in U : f[x] >= f[y]}
<1>1. {} \in Good
    OBVIOUS
<1>2. ASSUME NEW U \in SUBSET R, U # {}, \A x \in U : U \ {x} \in Good
      PROVE  U \in Good
  <2>1. PICK x \in U : f[x] \in Nat
    BY <1>2
  <2>2. CASE U = {x}
    BY <2>1, <2>2
  <2>3. CASE U # {x}
    <3>1. PICK m \in U \ {x} : \A y \in U \ {x} : f[m] >= f[y]
      BY <1>2, <2>3
    <3>2. f[m] \in Nat /\ \A y \in U : f[y] \in Nat
      BY <1>2
    <3>. QED
      BY <2>1, <3>1, <3>2
  <2>. QED
    BY <2>2, <2>3
<1>3. \A U \in SUBSET R : U \in Good
  <2>. HIDE DEF Good
  <2>. QED
    BY <1>1, <1>2, SetInduction
<1>. QED
    BY <1>3

LEMMA NoCycle ==
    ASSUME StreamsInv
    PROVE  NoWaitCycle
<1>. SUFFICES ASSUME NEW S \in SUBSET Processes, S # {},
                     \A p \in S : \E q \in S : WaitsFor(p, q)
              PROVE  FALSE
    BY DEF NoWaitCycle
<1>1. PICK R : R = {p \in S : tx[p].locks # {}}
    OBVIOUS
<1>2. ASSUME NEW p \in R
      PROVE  \E q \in R : On(p) \in tx[q].locks /\ Doing(p, "lock")
  <2>1. PICK q \in S : WaitsFor(p, q)
    BY <1>1
  <2>2. tx[q].locks # {} /\ Doing(p, "lock") /\ On(p) \in tx[q].locks
    BY <1>1, <2>1, WaitsForLock
  <2>. QED
    BY <1>1, <2>2
<1>3. R # {}
  <2>1. PICK p \in S : TRUE
    OBVIOUS
  <2>2. PICK q \in S : WaitsFor(p, q)
    BY <2>1
  <2>3. tx[q].locks # {}
    BY <2>2, WaitsForLock
  <2>. QED
    BY <1>1, <2>3
<1>4. ASSUME NEW p \in R PROVE Rank(On(p)) \in Nat
  <2>1. p \in Processes /\ tx[p].locks # {}
    BY <1>1
  <2>2. PICK l \in tx[p].locks : TRUE
    BY <2>1
  <2>3. Doing(p, "lock")
    BY <1>2
  <2>. QED
    BY <2>1, <2>2, <2>3, LocksAscend
<1>5. PICK f : f = [p \in R |-> Rank(On(p))]
    OBVIOUS
<1>6. IsFiniteSet(R) /\ f \in [R -> Nat]
    BY <1>1, <1>4, <1>5, ProcessesAssumption, FS_Subset
<1>7. PICK p \in R : \A q \in R : f[p] >= f[q]
    BY <1>3, <1>6, TopOfFinite
<1>8. PICK q \in R : On(p) \in tx[q].locks
    BY <1>2
<1>9. Doing(q, "lock") /\ q \in Processes
    BY <1>1, <1>2
<1>10. Rank(On(p)) < Rank(On(q))
    BY <1>8, <1>9, LocksAscend
<1>11. Rank(On(p)) >= Rank(On(q))
    BY <1>5, <1>7
<1>. QED
    BY <1>4, <1>10, <1>11

(* No set of requests, of any number, waits for each other in a circle:    *)
(* locks are asked for in ascending order, an insert is made under the     *)
(* lock of its account and never waits, and a deposit, which may wait for  *)
(* a commit, holds nothing.                                                *)
THEOREM NobodyWaitsInACircle == Spec => []NoWaitCycle
<1>1. StreamsInv => NoWaitCycle
    BY NoCycle
<1>. QED
    BY <1>1, StreamsInvariant, PTL
=============================================================================
