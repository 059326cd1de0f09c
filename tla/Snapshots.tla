------------------------------ MODULE Snapshots -----------------------------
(***************************************************************************)
(* Reading an account through a snapshot.  FindByID loads the event        *)
(* stream, then the latest snapshot, folds the events the snapshot does    *)
(* not include, and may write a new snapshot: three store calls.  Between  *)
(* them the stream may grow and other readers may write snapshots, so the  *)
(* snapshot a reader finds may be newer than the events it holds.          *)
(*                                                                         *)
(* Versions are the code's: the first event of a stream has version 0.     *)
(* One account is modelled; streams and snapshots of different accounts    *)
(* never meet.                                                             *)
(***************************************************************************)
EXTENDS Account, SequencesExt

CONSTANTS
    Readers,           \* concurrent calls of FindByID
    Amounts,           \* amounts of the events appended
    SnapshotThreshold, \* SNAPSHOT_THRESHOLD; 0 turns snapshots off
    MaxEvents          \* bound: the length of the stream

ASSUME SnapshotsAssumption ==
    /\ Amounts \subseteq Nat
    /\ SnapshotThreshold \in Nat /\ MaxEvents \in Nat

VARIABLES
    stream,     \* the events of the account, in order of version
    snapshot,   \* its row of account_snapshots, or NoSnapshot
    reader      \* per reader: where it stands in FindByID

vars == <<stream, snapshot, reader>>

NoSnapshot == [asOf |-> -1, balance |-> 0, reserved |-> 0]

Snapshot(a, v) == [asOf |-> v, balance |-> a.balance, reserved |-> a.reserved]

Waiting == [at |-> "idle", events |-> <<>>, account |-> NoAccount]

Init ==
    /\ stream = <<>>
    /\ snapshot = NoSnapshot
    /\ reader = [r \in Readers |-> Waiting]

-----------------------------------------------------------------------------
(* The account *)

Replay(events) == FoldLeft(Fold, NoAccount, events)

(* variant: the last event of the snapshot is folded again *)
TailFromBoundary(events, v) == SubSeq(events, v + 1, Len(events))

(* The events with Version() > v; the first event has version 0. *)
Tail0(events, v) == SubSeq(events, v + 2, Len(events))

ReplayAccountFrom(snap, events) ==
    IF snap = NoSnapshot
    THEN Replay(events)
    ELSE FoldLeft(Fold,
                  [opened |-> TRUE, balance |-> snap.balance, reserved |-> snap.reserved],
                  Tail0(events, snap.asOf))

(* What the services may append next: an account is opened once, and a     *)
(* hold takes available money and ends once.  A debit was compared with    *)
(* what is available, but for that of a posting, whose hold is still open: *)
(* any debit may follow.                                                   *)
MayFollow(a, ev) ==
    CASE ev.type = "AccountOpened"                     -> ~a.opened
      [] ev.type \in {"MoneyCredited", "MoneyDebited"} -> a.opened
      [] ev.type = "FundsReserved"                     ->
             a.opened /\ AvailableBalance(a) >= ev.amount
      [] OTHER                                         ->
             a.opened /\ a.reserved >= ev.amount

AppendEvent ==
    /\ Len(stream) < MaxEvents
    /\ \E type \in EventTypes, m \in Amounts :
          LET ev == [type |-> type, amount |-> m] IN
          /\ MayFollow(Replay(stream), ev)
          /\ stream' = Append(stream, ev)
    /\ UNCHANGED <<snapshot, reader>>

-----------------------------------------------------------------------------
(* FindByID *)

(* An error of the load, and an empty stream, end the call at once. *)
Load(r) ==
    /\ reader[r].at = "idle"
    /\ stream # <<>>
    /\ reader' = [reader EXCEPT ![r] = [at |-> "loaded", events |-> stream,
                                        account |-> NoAccount]]
    /\ UNCHANGED <<stream, snapshot>>

(* An error of LoadSnapshot is read as "no snapshot". *)
LoadSnapshot(r) ==
    /\ reader[r].at = "loaded"
    /\ \E found \in {snapshot, NoSnapshot} :
          reader' = [reader EXCEPT ![r].at = "replayed",
                        ![r].account = ReplayAccountFrom(found, reader[r].events)]
    /\ UNCHANGED <<stream, snapshot>>

(* variant: a slow writer overwrites a newer snapshot *)
AlwaysNewer(new, old) == TRUE

Newer(new, old) == new.asOf > old.asOf

SaveSnapshot(snap) ==
    snapshot' = IF Newer(snap, snapshot) THEN snap ELSE snapshot

(* variant: the snapshot claims the events of the stream as it is now *)
StampedLate(events) == Len(stream) - 1

(* variant: the length of the stream is taken for its last version *)
StampedWithLength(events) == Len(events)

LastVersion(events) == Len(events) - 1

LongEnough(events) ==
    SnapshotThreshold > 0 /\ Len(events) >= SnapshotThreshold

(* maybeSnapshot, and the return of the account.  An error of the write is *)
(* ignored, so the call may also end without it.                           *)
Return(r) ==
    LET events == reader[r].events IN
    /\ reader[r].at = "replayed"
    /\ \/ /\ LongEnough(events)
          /\ SaveSnapshot(Snapshot(reader[r].account, LastVersion(events)))
       \/ UNCHANGED snapshot
    /\ reader' = [reader EXCEPT ![r] = Waiting]
    /\ UNCHANGED stream

FindByID(r) == Load(r) \/ LoadSnapshot(r) \/ Return(r)

Next == AppendEvent \/ \E r \in Readers : FindByID(r)

Spec == Init /\ [][Next]_vars

-----------------------------------------------------------------------------
(* Properties *)

TypeOK ==
    /\ stream \in Seq(Events)
    /\ snapshot \in [asOf : -1..(MaxEvents - 1), balance : Int, reserved : Int]
    /\ reader \in [Readers -> [at : {"idle", "loaded", "replayed"},
                               events : Seq(Events), account : Accounts]]

(* The account as it was when the stream had n events. *)
AsOf(n) == Replay(SubSeq(stream, 1, n))

(* A stored snapshot is the replay of the events it claims to include,     *)
(* whoever wrote it and whatever was appended or stored since that writer  *)
(* loaded its events (repository.maybeSnapshot, SaveSnapshot).             *)
SnapshotIsReplay ==
    snapshot # NoSnapshot =>
        /\ snapshot.asOf + 1 \in 1..Len(stream)
        /\ snapshot = Snapshot(AsOf(snapshot.asOf + 1), snapshot.asOf)

(* What FindByID is about to return is the account as it was at some       *)
(* moment of the call: no event that was there at its start is missing or  *)
(* counted twice, even when the snapshot is ahead of the events loaded.    *)
ReadsAreCurrent ==
    \A r \in Readers :
        reader[r].at = "replayed" =>
            \E n \in Len(reader[r].events)..Len(stream) :
                reader[r].account = AsOf(n)

(* The stored snapshot never falls back to fewer events. *)
SnapshotsAdvance == [][snapshot'.asOf >= snapshot.asOf]_vars
=============================================================================
