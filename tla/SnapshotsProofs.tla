--------------------------- MODULE SnapshotsProofs --------------------------
(***************************************************************************)
(* Proofs about reading an account through a snapshot, for any number of   *)
(* readers, any amounts and any threshold.                                 *)
(*                                                                         *)
(* What a reader is about to return is the account at the events it loaded *)
(* or, when the snapshot was ahead, at the events of that snapshot.  In    *)
(* the second case what it would write carries the wrong version, and the  *)
(* comparison of versions in SaveSnapshot is what keeps it out.            *)
(***************************************************************************)
EXTENDS Snapshots, FoldTheorems

(* Every account of a stream begins with its opening. *)
OpenedFirst == \A k \in 1..Len(stream) : AsOf(k).opened = TRUE

ReaderSound(r) ==
    LET events == reader[r].events
        n == Len(events)
    IN  /\ reader[r].at # "idle" =>
              /\ n \in 1..Len(stream)
              /\ events = SubSeq(stream, 1, n)
        /\ reader[r].at = "replayed" =>
              \/ reader[r].account = AsOf(n)
              \/ /\ n <= snapshot.asOf
                 /\ \E k \in n..Len(stream) : reader[r].account = AsOf(k)

ReadersSound == \A r \in Readers : ReaderSound(r)

SnapshotsInv ==
    /\ TypeOK
    /\ Len(stream) <= MaxEvents
    /\ OpenedFirst
    /\ SnapshotIsReplay
    /\ ReadersSound

-----------------------------------------------------------------------------
(* The account at the first n events *)

LEMMA EventsFold ==
    ASSUME NEW s \in Seq(Events)
    PROVE  AllFoldable(s, 1..Len(s)) /\ NoAccount \in Accounts
<1>1. \A e \in Events : Foldable(e)
    BY DEF Events, Foldable
<1>2. \A i \in 1..Len(s) : s[i] \in Events
    OBVIOUS
<1>. QED
    BY <1>1, <1>2 DEF AllFoldable, NoAccount, Accounts

LEMMA AsOfType ==
    ASSUME stream \in Seq(Events), NEW n \in 0..Len(stream)
    PROVE  AsOf(n) \in Accounts
BY EventsFold, FoldOfPrefix DEF AsOf, Replay

LEMMA AsOfAll ==
    ASSUME stream \in Seq(Events)
    PROVE  AsOf(Len(stream)) = Replay(stream)
BY WholePrefix DEF AsOf

(* What was appended later does not change the past. *)
LEMMA PastStays ==
    ASSUME stream \in Seq(Events), NEW ev \in Events, stream' = Append(stream, ev),
           NEW n \in 0..Len(stream)
    PROVE  AsOf(n)' = AsOf(n)
<1>1. SubSeq(stream', 1, n) = SubSeq(stream, 1, n)
    OBVIOUS
<1>. QED
    BY <1>1 DEF AsOf

LEMMA AppendedLast ==
    ASSUME stream \in Seq(Events), NEW ev \in Events, stream' = Append(stream, ev),
           NEW n, n = Len(stream)
    PROVE  AsOf(n + 1)' = Fold(Replay(stream), ev)
<1>1. Len(stream') = Len(stream) + 1 /\ stream' \in Seq(Events)
    OBVIOUS
<1>2. SubSeq(stream', 1, n + 1) = stream'
    BY <1>1, WholePrefix
<1>3. Foldable(ev)
    BY DEF Events, Foldable
<1>4. Replay(Append(stream, ev)) = Fold(Replay(stream), ev)
    BY <1>3, EventsFold, FoldOfAppend DEF Replay
<1>5. Replay(SubSeq(stream', 1, n + 1)) = Fold(Replay(stream), ev)
    BY <1>2, <1>4
<1>. QED
    BY <1>5 DEF AsOf

-----------------------------------------------------------------------------

LEMMA AppendEventKeeps ==
    ASSUME SnapshotsInv, AppendEvent
    PROVE  SnapshotsInv'
<1>1. TypeOK /\ stream \in Seq(Events) /\ Len(stream) < MaxEvents
      /\ UNCHANGED <<snapshot, reader>>
    BY DEF SnapshotsInv, TypeOK, AppendEvent
<1>2. PICK type \in EventTypes, m \in Amounts :
        /\ MayFollow(Replay(stream), [type |-> type, amount |-> m])
        /\ stream' = Append(stream, [type |-> type, amount |-> m])
    BY DEF AppendEvent
<1> DEFINE ev == [type |-> type, amount |-> m]
<1>11. PICK n : n = Len(stream)
    OBVIOUS
<1>3. ev \in Events /\ ev.type = type /\ ev.amount = m
    BY SnapshotsAssumption DEF Events
<1>4. MayFollow(Replay(stream), ev) /\ stream' = Append(stream, ev)
    BY <1>2
<1>. HIDE DEF ev
<1>5. n \in Nat /\ Len(stream') = n + 1 /\ stream' \in Seq(Events)
    BY <1>1, <1>3, <1>4, <1>11
<1>6. \A k \in 0..n : AsOf(k)' = AsOf(k)
    BY <1>1, <1>3, <1>4, <1>11, PastStays
<1>7. TypeOK' /\ (Len(stream) <= MaxEvents)'
    BY <1>1, <1>5, <1>11, SnapshotsAssumption DEF TypeOK
<1>8. OpenedFirst'
  <2>1. SUFFICES ASSUME NEW k \in 1..(n + 1) PROVE AsOf(k)'.opened = TRUE
    BY <1>5 DEF OpenedFirst
  <2>2. CASE k <= n
    <3>1. k \in 0..n /\ k \in 1..n
      BY <1>5, <2>1, <2>2
    <3>. QED
      BY <1>6, <1>11, <3>1 DEF SnapshotsInv, OpenedFirst
  <2>3. CASE k = n + 1
    <3>1. AsOf(n + 1)' = Fold(Replay(stream), ev)
      BY <1>1, <1>3, <1>4, <1>11, AppendedLast
    <3>2. Replay(stream) \in Accounts
      BY <1>1, EventsFold, FoldOfStream DEF Replay
    <3>3. ev.type = "AccountOpened" \/ Replay(stream).opened = TRUE
      <4>1. Replay(stream).opened \in BOOLEAN
        BY <3>2 DEF Accounts
      <4>. QED
        BY <1>3, <1>4, <4>1 DEF MayFollow, EventTypes
    <3>4. Fold(Replay(stream), ev).opened = TRUE
      BY <1>3, <3>2, <3>3 DEF Fold, Accounts, EventTypes
    <3>. QED
      BY <2>3, <3>1, <3>4
  <2>4. k <= n \/ k = n + 1
    BY <1>5
  <2>. QED
    BY ONLY <2>2, <2>3, <2>4
<1>9. SnapshotIsReplay'
  <2>1. SUFFICES ASSUME snapshot # NoSnapshot
                 PROVE  /\ snapshot.asOf + 1 \in 1..(n + 1)
                        /\ snapshot = Snapshot(AsOf(snapshot.asOf + 1)', snapshot.asOf)
    BY <1>1, <1>5 DEF SnapshotIsReplay, Snapshot, AsOf
  <2>2. /\ snapshot.asOf + 1 \in 1..n
        /\ snapshot = Snapshot(AsOf(snapshot.asOf + 1), snapshot.asOf)
    BY <1>11, <2>1 DEF SnapshotsInv, SnapshotIsReplay
  <2>3. PICK k \in 1..n : k = snapshot.asOf + 1
    BY <2>2
  <2>4. AsOf(k)' = AsOf(k) /\ k \in 1..(n + 1)
    BY <1>5, <1>6
  <2>. QED
    BY <1>1, <2>2, <2>3, <2>4
<1>10. ReadersSound'
  <2>1. SUFFICES ASSUME NEW r \in Readers PROVE ReaderSound(r)'
    BY DEF ReadersSound
  <2>2. ReaderSound(r) /\ reader'[r] = reader[r] /\ reader[r].events \in Seq(Events)
    BY <1>1 DEF SnapshotsInv, ReadersSound, TypeOK
  <2>3. PICK j : j = Len(reader[r].events)
    OBVIOUS
  <2>4. ASSUME reader[r].at # "idle"
        PROVE  /\ j \in 1..(n + 1) /\ j \in 0..n
               /\ reader[r].events = SubSeq(stream', 1, j)
    <3>1. j \in 1..n /\ reader[r].events = SubSeq(stream, 1, j)
      BY <1>11, <2>2, <2>3, <2>4 DEF ReaderSound
    <3>2. SubSeq(stream', 1, j) = SubSeq(stream, 1, j)
      BY <1>1, <1>3, <1>4, <1>11, <3>1
    <3>. QED
      BY <1>5, <3>1, <3>2
  <2>5. ASSUME reader[r].at = "replayed"
        PROVE  \/ reader[r].account = AsOf(j)'
               \/ /\ j <= snapshot.asOf
                  /\ \E k \in j..(n + 1) : reader[r].account = AsOf(k)'
    <3>1. CASE reader[r].account = AsOf(j)
      BY <1>6, <2>4, <2>5, <3>1
    <3>2. ASSUME j <= snapshot.asOf, NEW k \in j..n, reader[r].account = AsOf(k)
          PROVE  \E i \in j..(n + 1) : reader[r].account = AsOf(i)'
      <4>1. k \in 0..n /\ k \in j..(n + 1)
        BY <1>5, <2>4, <2>5, <3>2
      <4>. QED
        BY <1>6, <3>2, <4>1
    <3>. QED
      BY <1>11, <2>2, <2>3, <2>5, <3>1, <3>2 DEF ReaderSound
  <2>6. (Len(reader[r].events) = j)' /\ Len(stream') = n + 1 /\ snapshot' = snapshot
    BY <1>1, <1>5, <2>2, <2>3
  <2>. QED
    BY <2>2, <2>4, <2>5, <2>6 DEF ReaderSound
<1>. QED
    BY <1>7, <1>8, <1>9, <1>10 DEF SnapshotsInv

(* The steps of a reader leave the stream alone, so the past stays. *)
LEMMA StreamStays ==
    ASSUME UNCHANGED stream, NEW n
    PROVE  AsOf(n)' = AsOf(n)
BY DEF AsOf

LEMMA SnapshotStays ==
    ASSUME SnapshotsInv, UNCHANGED <<stream, snapshot>>
    PROVE  OpenedFirst' /\ SnapshotIsReplay' /\ (Len(stream) <= MaxEvents)'
BY DEF SnapshotsInv, OpenedFirst, SnapshotIsReplay, AsOf

ReaderStates == [at : {"idle", "loaded", "replayed"}, events : Seq(Events), account : Accounts]

(* Another reader's step, or a newer snapshot, does not disturb a reader. *)
LEMMA OtherReader ==
    ASSUME NEW r \in Readers, ReaderSound(r), UNCHANGED stream, reader'[r] = reader[r],
           TypeOK, snapshot'.asOf \in Int, snapshot'.asOf >= snapshot.asOf
    PROVE  ReaderSound(r)'
<1>1. snapshot.asOf \in Int /\ Len(reader[r].events) \in Nat
    BY DEF TypeOK
<1>2. Len(reader[r].events) <= snapshot.asOf => Len(reader[r].events) <= snapshot'.asOf
    BY <1>1
<1>. QED
    BY <1>2 DEF ReaderSound, AsOf

LEMMA LoadKeeps ==
    ASSUME SnapshotsInv, NEW r \in Readers, Load(r)
    PROVE  SnapshotsInv'
<1> DEFINE x == [at |-> "loaded", events |-> stream, account |-> NoAccount]
<1>1. /\ TypeOK /\ ReadersSound /\ stream \in Seq(Events) /\ stream # <<>>
      /\ reader \in [Readers -> ReaderStates]
      /\ UNCHANGED <<stream, snapshot>> /\ reader' = [reader EXCEPT ![r] = x]
    BY DEF SnapshotsInv, TypeOK, Load, ReaderStates
<1>2. x \in ReaderStates /\ x.at = "loaded" /\ x.events = stream
    BY <1>1, EventsFold DEF ReaderStates
<1>. HIDE DEF x
<1>3. /\ reader' \in [Readers -> ReaderStates] /\ reader'[r] = x
      /\ \A s \in Readers : s # r => reader'[s] = reader[s]
    BY <1>1, <1>2
<1>4. TypeOK'
    BY <1>1, <1>3 DEF TypeOK, ReaderStates
<1>5. ReaderSound(r)'
  <2>1. Len(stream) \in 1..Len(stream) /\ SubSeq(stream, 1, Len(stream)) = stream
    BY <1>1, WholePrefix
  <2>. QED
    BY <1>1, <1>2, <1>3, <2>1 DEF ReaderSound
<1>6. ReadersSound'
  <2>1. snapshot'.asOf \in Int /\ snapshot'.asOf >= snapshot.asOf
    BY <1>1 DEF TypeOK
  <2>2. \A s \in Readers : s # r => ReaderSound(s)'
    BY <1>1, <1>3, <2>1, OtherReader DEF ReadersSound
  <2>. QED
    BY <1>5, <2>2 DEF ReadersSound
<1>. QED
    BY <1>1, <1>4, <1>6, SnapshotStays DEF SnapshotsInv

(* The events of the reader, folded onto what it found. *)
LEMMA ReplayedFrom ==
    ASSUME SnapshotsInv, NEW r \in Readers, reader[r].at = "loaded",
           NEW found \in {snapshot, NoSnapshot}, NEW n, n = Len(reader[r].events)
    PROVE  LET a == ReplayAccountFrom(found, reader[r].events)
           IN  \/ a = AsOf(n)
               \/ n <= snapshot.asOf /\ \E k \in n..Len(stream) : a = AsOf(k)
<1> DEFINE events == reader[r].events
           a == ReplayAccountFrom(found, events)
           v == found.asOf
<1>1. /\ stream \in Seq(Events) /\ n \in 1..Len(stream) /\ events = SubSeq(stream, 1, n)
      /\ snapshot \in [asOf : -1..(MaxEvents - 1), balance : Int, reserved : Int]
    BY DEF SnapshotsInv, TypeOK, ReadersSound, ReaderSound
<1>2. events \in Seq(Events) /\ Len(events) = n /\ n \in Nat /\ n \in 0..Len(stream)
    BY <1>1
<1>3. CASE found = NoSnapshot
  <2>1. a = Replay(events)
    BY <1>3 DEF ReplayAccountFrom
  <2>. QED
    BY <1>1, <2>1 DEF AsOf
<1>4. CASE found # NoSnapshot
  <2>1. /\ found = snapshot /\ v + 1 \in 1..Len(stream)
        /\ found = Snapshot(AsOf(v + 1), v)
    BY <1>4 DEF SnapshotsInv, SnapshotIsReplay
  <2> DEFINE k == v + 1
             base == [opened |-> TRUE, balance |-> found.balance, reserved |-> found.reserved]
  <2>2. v \in Int /\ k \in Nat /\ k \in 1..Len(stream) /\ k \in 0..Len(stream)
    BY <1>1, <2>1
  <2>3. base = AsOf(k)
    <3>1. AsOf(k) \in Accounts /\ AsOf(k).opened = TRUE
      BY <1>1, <2>2, AsOfType DEF SnapshotsInv, OpenedFirst
    <3>2. found.balance = AsOf(k).balance /\ found.reserved = AsOf(k).reserved
      BY <2>1 DEF Snapshot
    <3>. QED
      BY <3>1, <3>2 DEF Accounts
  <2>4. a = FoldLeft(Fold, AsOf(k), SubSeq(events, k + 1, n))
    <3>1. v + 2 = k + 1
      BY <2>2
    <3>2. a = FoldLeft(Fold, base, SubSeq(events, v + 2, Len(events)))
      BY <1>4 DEF ReplayAccountFrom, Tail0
    <3>. HIDE DEF a, base, k, v, events
    <3>. QED
      BY <1>2, <2>3, <3>1, <3>2
  <2>5. CASE k <= n
    <3>1. SubSeq(events, 1, k) = SubSeq(stream, 1, k) /\ k \in 0..Len(events)
      BY <1>1, <1>2, <2>2, <2>5
    <3>2. FoldLeft(Fold, FoldLeft(Fold, NoAccount, SubSeq(events, 1, k)),
                   SubSeq(events, k + 1, Len(events)))
            = FoldLeft(Fold, NoAccount, events)
      <4>. HIDE DEF k, events
      <4>. QED
        BY <1>2, <3>1, EventsFold, FoldSplits
    <3>3. AsOf(k) = FoldLeft(Fold, NoAccount, SubSeq(events, 1, k))
      BY <3>1 DEF AsOf, Replay
    <3>4. FoldLeft(Fold, NoAccount, events) = AsOf(n)
      BY <1>1 DEF AsOf, Replay
    <3>. HIDE DEF a, k, events
    <3>5. a = AsOf(n)
      BY <1>2, <2>4, <3>2, <3>3, <3>4
    <3>. QED
      BY <3>5 DEF a, events
  <2>6. CASE k > n
    <3>1. SubSeq(events, k + 1, n) = <<>>
      BY <1>2, <2>2, <2>6
    <3>2. AsOf(k) \in Accounts
      BY <1>1, <2>2, AsOfType
    <3>3. a = AsOf(k)
      <4>. HIDE DEF a, k, events
      <4>. QED
        BY <2>4, <3>1, <3>2, FoldOfNothing
    <3>4. k \in n..Len(stream) /\ n <= snapshot.asOf
      BY <1>2, <2>1, <2>2, <2>6
    <3>. QED
      BY <3>3, <3>4
  <2>7. k <= n \/ k > n
    BY <1>2, <2>2
  <2>. QED
    BY <2>5, <2>6, <2>7
<1>. QED
    BY <1>3, <1>4

LEMMA LoadSnapshotKeeps ==
    ASSUME SnapshotsInv, NEW r \in Readers, LoadSnapshot(r)
    PROVE  SnapshotsInv'
<1>1. /\ TypeOK /\ ReadersSound /\ stream \in Seq(Events) /\ reader[r].at = "loaded"
      /\ reader \in [Readers -> ReaderStates] /\ reader[r] \in ReaderStates
      /\ UNCHANGED <<stream, snapshot>>
    BY DEF SnapshotsInv, TypeOK, LoadSnapshot, ReaderStates
<1>2. PICK found \in {snapshot, NoSnapshot} :
        reader' = [reader EXCEPT ![r].at = "replayed",
                      ![r].account = ReplayAccountFrom(found, reader[r].events)]
    BY DEF LoadSnapshot
<1>3. PICK n, a : n = Len(reader[r].events) /\ a = ReplayAccountFrom(found, reader[r].events)
    OBVIOUS
<1>4. /\ n \in 1..Len(stream) /\ reader[r].events = SubSeq(stream, 1, n)
      /\ Len(stream) \in Nat
    BY <1>1, <1>3 DEF ReadersSound, ReaderSound
<1>5. \/ a = AsOf(n)
      \/ n <= snapshot.asOf /\ \E k \in n..Len(stream) : a = AsOf(k)
    BY <1>1, <1>3, ReplayedFrom
<1>6. a \in Accounts
  <2>1. PICK k \in n..Len(stream) : a = AsOf(k)
    BY <1>4, <1>5
  <2>2. k \in 0..Len(stream)
    BY <1>4
  <2>. QED
    BY <1>1, <2>1, <2>2, AsOfType
<1> DEFINE x == [reader[r] EXCEPT !.at = "replayed", !.account = a]
<1>7. /\ x \in ReaderStates /\ x.at = "replayed" /\ x.account = a
      /\ x.events = reader[r].events
    BY <1>1, <1>6 DEF ReaderStates
<1>8. reader' = [reader EXCEPT ![r] = x]
    BY <1>1, <1>2, <1>3
<1>. HIDE DEF x
<1>9. /\ reader' \in [Readers -> ReaderStates] /\ reader'[r] = x
      /\ \A s \in Readers : s # r => reader'[s] = reader[s]
    BY <1>1, <1>7, <1>8
<1>10. TypeOK'
    BY <1>1, <1>9 DEF TypeOK, ReaderStates
<1>11. ReaderSound(r)'
  <2>1. reader'[r].events = reader[r].events /\ reader'[r].account = a
        /\ Len(reader'[r].events) = n
    BY <1>3, <1>7, <1>9
  <2>2. \A k : AsOf(k)' = AsOf(k)
    BY <1>1, StreamStays
  <2>. QED
    BY <1>1, <1>4, <1>5, <2>1, <2>2 DEF ReaderSound
<1>12. ReadersSound'
  <2>1. snapshot'.asOf \in Int /\ snapshot'.asOf >= snapshot.asOf
    BY <1>1 DEF TypeOK
  <2>2. \A s \in Readers : s # r => ReaderSound(s)'
    BY <1>1, <1>9, <2>1, OtherReader DEF ReadersSound
  <2>. QED
    BY <1>11, <2>2 DEF ReadersSound
<1>. QED
    BY <1>1, <1>10, <1>12, SnapshotStays DEF SnapshotsInv

(* What a reader writes is the replay of what it claims, or older than     *)
(* what is stored.                                                         *)
LEMMA ReturnStores ==
    ASSUME SnapshotsInv, NEW r \in Readers, Return(r)
    PROVE  /\ snapshot' \in [asOf : -1..(MaxEvents - 1), balance : Int, reserved : Int]
           /\ snapshot'.asOf >= snapshot.asOf
           /\ SnapshotIsReplay'
<1>1. /\ TypeOK /\ ReadersSound /\ stream \in Seq(Events) /\ reader[r].at = "replayed"
      /\ snapshot \in [asOf : -1..(MaxEvents - 1), balance : Int, reserved : Int]
      /\ Len(stream) <= MaxEvents /\ UNCHANGED stream /\ SnapshotIsReplay
    BY DEF SnapshotsInv, TypeOK, Return
<1>2. PICK n, a : n = Len(reader[r].events) /\ a = reader[r].account
    OBVIOUS
<1>3. /\ n \in 1..Len(stream) /\ Len(stream) \in Nat /\ MaxEvents \in Nat
      /\ \/ a = AsOf(n)
         \/ n <= snapshot.asOf
    BY <1>1, <1>2, SnapshotsAssumption DEF ReadersSound, ReaderSound
<1>4. CASE UNCHANGED snapshot
  <2>1. snapshot.asOf \in Int
    BY <1>1
  <2>. QED
    BY <1>1, <1>4, <2>1 DEF SnapshotIsReplay, AsOf
<1>5. CASE snapshot' # snapshot
  <2>1. /\ snapshot' = Snapshot(a, n - 1)
        /\ Snapshot(a, n - 1).asOf > snapshot.asOf
    BY <1>2, <1>5 DEF Return, SaveSnapshot, Newer, LastVersion
  <2>2. Snapshot(a, n - 1).asOf = n - 1 /\ snapshot.asOf \in Int
    BY <1>1 DEF Snapshot
  <2>3. a = AsOf(n) /\ a \in Accounts
    <3>1. a = AsOf(n)
      BY <1>3, <2>1, <2>2
    <3>2. n \in 0..Len(stream)
      BY <1>3
    <3>. QED
      BY <1>1, <3>1, <3>2, AsOfType
  <2>4. snapshot' \in [asOf : -1..(MaxEvents - 1), balance : Int, reserved : Int]
    <3>1. n - 1 \in -1..(MaxEvents - 1)
      BY <1>1, <1>3
    <3>. QED
      BY <2>1, <2>3, <3>1 DEF Snapshot, Accounts
  <2>5. snapshot'.asOf = n - 1 /\ snapshot'.asOf + 1 = n /\ snapshot'.asOf >= snapshot.asOf
    BY <1>3, <2>1, <2>2
  <2>6. AsOf(n)' = AsOf(n)
    BY <1>1, StreamStays
  <2>7. SnapshotIsReplay'
    <3>1. snapshot'.asOf + 1 \in 1..Len(stream') /\ snapshot' = Snapshot(AsOf(n)', n - 1)
      BY <1>1, <1>3, <2>1, <2>3, <2>5, <2>6
    <3>. QED
      BY <2>5, <3>1 DEF SnapshotIsReplay, Snapshot, AsOf
  <2>. QED
    BY <2>4, <2>5, <2>7
<1>. QED
    BY <1>4, <1>5

LEMMA ReturnKeeps ==
    ASSUME SnapshotsInv, NEW r \in Readers, Return(r)
    PROVE  SnapshotsInv'
<1>1. /\ TypeOK /\ ReadersSound /\ OpenedFirst /\ Len(stream) <= MaxEvents
      /\ reader \in [Readers -> ReaderStates] /\ UNCHANGED stream
      /\ reader' = [reader EXCEPT ![r] = Waiting]
    BY DEF SnapshotsInv, TypeOK, Return, ReaderStates
<1>2. /\ snapshot' \in [asOf : -1..(MaxEvents - 1), balance : Int, reserved : Int]
      /\ snapshot'.asOf >= snapshot.asOf /\ SnapshotIsReplay'
    BY ReturnStores
<1>3. Waiting \in ReaderStates /\ Waiting.at = "idle"
    BY DEF Waiting, ReaderStates, NoAccount, Accounts
<1>4. /\ reader' \in [Readers -> ReaderStates] /\ reader'[r] = Waiting
      /\ \A s \in Readers : s # r => reader'[s] = reader[s]
    BY <1>1, <1>3
<1>5. TypeOK'
    BY <1>1, <1>2, <1>4 DEF TypeOK, ReaderStates
<1>6. ReadersSound'
  <2>1. snapshot'.asOf \in Int
    BY <1>2
  <2>2. \A s \in Readers : s # r => ReaderSound(s)'
    BY <1>1, <1>2, <1>4, <2>1, OtherReader DEF ReadersSound
  <2>3. ReaderSound(r)'
    BY <1>3, <1>4 DEF ReaderSound
  <2>. QED
    BY <2>2, <2>3 DEF ReadersSound
<1>7. OpenedFirst' /\ (Len(stream) <= MaxEvents)'
    BY <1>1 DEF OpenedFirst, AsOf
<1>. QED
    BY <1>2, <1>5, <1>6, <1>7 DEF SnapshotsInv

-----------------------------------------------------------------------------

LEMMA SnapshotsInit == Init => SnapshotsInv
<1> SUFFICES ASSUME Init PROVE SnapshotsInv
    OBVIOUS
<1>1. stream = <<>> /\ Len(stream) = 0 /\ stream \in Seq(Events) /\ snapshot = NoSnapshot
    BY DEF Init
<1>2. snapshot \in [asOf : -1..(MaxEvents - 1), balance : Int, reserved : Int]
    BY <1>1, SnapshotsAssumption DEF NoSnapshot
<1>3. Waiting \in ReaderStates /\ Waiting.at = "idle"
    BY DEF Waiting, ReaderStates, NoAccount, Accounts
<1>4. TypeOK
    BY <1>1, <1>2, <1>3 DEF Init, TypeOK, ReaderStates
<1>5. OpenedFirst /\ SnapshotIsReplay /\ Len(stream) <= MaxEvents
    BY <1>1, SnapshotsAssumption DEF OpenedFirst, SnapshotIsReplay
<1>6. ReadersSound
    BY <1>3 DEF Init, ReadersSound, ReaderSound
<1>. QED
    BY <1>4, <1>5, <1>6 DEF SnapshotsInv

LEMMA SnapshotsNext == SnapshotsInv /\ [Next]_vars => SnapshotsInv'
<1> SUFFICES ASSUME SnapshotsInv, [Next]_vars PROVE SnapshotsInv'
    OBVIOUS
<1>1. CASE UNCHANGED vars
    BY <1>1 DEF vars, SnapshotsInv, TypeOK, OpenedFirst, SnapshotIsReplay, ReadersSound,
                ReaderSound, AsOf
<1>2. CASE AppendEvent
    BY <1>2, AppendEventKeeps
<1>3. CASE \E r \in Readers : FindByID(r)
    BY <1>3, LoadKeeps, LoadSnapshotKeeps, ReturnKeeps DEF FindByID
<1>. QED
    BY <1>1, <1>2, <1>3 DEF Next

(* The inductive invariant of readers and snapshots. *)
THEOREM SnapshotsInvariant == Spec => []SnapshotsInv
BY SnapshotsInit, SnapshotsNext, PTL DEF Spec

(* Streams, snapshots and readers keep their types. *)
THEOREM SnapshotsTypeCorrect == Spec => []TypeOK
<1>1. SnapshotsInv => TypeOK
    BY DEF SnapshotsInv
<1>. QED
    BY <1>1, SnapshotsInvariant, PTL

(* Whatever maybeSnapshot stores is the replay of the events it claims,    *)
(* although its writer may have gone by a snapshot newer than its events.  *)
THEOREM SnapshotsAreReplays == Spec => []SnapshotIsReplay
<1>1. SnapshotsInv => SnapshotIsReplay
    BY DEF SnapshotsInv
<1>. QED
    BY <1>1, SnapshotsInvariant, PTL

(* FindByID returns the account as it was at some moment of the call. *)
THEOREM FindByIDIsCurrent == Spec => []ReadsAreCurrent
<1>1. ASSUME SnapshotsInv PROVE ReadsAreCurrent
  <2>1. SUFFICES ASSUME NEW r \in Readers, reader[r].at = "replayed"
                 PROVE  \E n \in Len(reader[r].events)..Len(stream) :
                          reader[r].account = AsOf(n)
    BY DEF ReadsAreCurrent
  <2>2. PICK n : n = Len(reader[r].events)
    OBVIOUS
  <2>3. /\ n \in 1..Len(stream) /\ Len(stream) \in Nat
        /\ \/ reader[r].account = AsOf(n)
           \/ \E k \in n..Len(stream) : reader[r].account = AsOf(k)
    BY <1>1, <2>1, <2>2 DEF SnapshotsInv, TypeOK, ReadersSound, ReaderSound
  <2>4. n \in n..Len(stream)
    BY <2>3
  <2>. QED
    BY <2>2, <2>3, <2>4
<1>. QED
    BY <1>1, SnapshotsInvariant, PTL

(* SaveSnapshot never replaces a snapshot by one of fewer events. *)
THEOREM SnapshotsOnlyAdvance == Spec => SnapshotsAdvance
<1>1. ASSUME SnapshotsInv, [Next]_vars PROVE snapshot'.asOf >= snapshot.asOf
  <2>1. snapshot.asOf \in Int
    BY <1>1 DEF SnapshotsInv, TypeOK
  <2>2. CASE UNCHANGED snapshot
    BY <2>1, <2>2
  <2>3. CASE \E r \in Readers : Return(r)
    BY <1>1, <2>3, ReturnStores
  <2>. QED
    BY <1>1, <2>2, <2>3 DEF Next, vars, AppendEvent, FindByID, Load, LoadSnapshot
<1>2. SnapshotsInv /\ [Next]_vars => [snapshot'.asOf >= snapshot.asOf]_vars
    BY <1>1
<1>. QED
    BY <1>2, SnapshotsInvariant, PTL DEF Spec, SnapshotsAdvance
=============================================================================
