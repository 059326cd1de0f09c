-------------------------- MODULE AdjustmentsProofs -------------------------
(***************************************************************************)
(* Proofs about manual corrections and reversals, for any accounts,        *)
(* administrators, requests, transfers and amounts, and for anything that  *)
(* clients write in a manual request.                                      *)
(*                                                                         *)
(* The balance of an account and what a request or a transfer has moved on *)
(* it are folds of its stream; both change by one term when one event is   *)
(* appended (FoldTheorems).  The inductive invariant keeps the books: what *)
(* every request and every transfer has moved on every account is what its *)
(* row says it has.                                                        *)
(***************************************************************************)
EXTENDS Adjustments, FoldTheorems

(* An event belongs to a transfer or to an adjustment, never to both, and  *)
(* what customers move is never negative.                                  *)
EntrySound(e) ==
    /\ e.transfer = NoID \/ e.adjustment = NoID
    /\ CustomerOriginated(e) => e.amount \in Nat

EntriesSound == \A a \in AccountIDs : \A n \in 1..Len(streams[a]) : EntrySound(streams[a][n])

(* What a reversal, stored or still a draft, says of its original: str are *)
(* the streams and trs the transfers.  A manual request says nothing.      *)
TransferNamed(q, trs) ==
    LET o == Transfers[q.transfer] IN
    /\ q.account = o.src /\ q.counterparty = o.dst
    /\ q.amount = o.amount /\ q.fee = o.fee
    /\ trs[q.transfer] = "completed"

EventNamed(q, str) ==
    LET n == q.event.n  e == str[q.account][n] IN
    /\ q.event.acct = q.account
    /\ n \in 1..Len(str[q.account])
    /\ CustomerOriginated(e)
    /\ e.amount = q.amount
    /\ \/ e.type = "MoneyCredited" /\ q.direction = "debit"
       \/ e.type = "MoneyDebited" /\ q.direction = "credit"

RequestSound(q, str, trs) ==
    q.type = "reversal" =>
        /\ q.transfer # NoID => TransferNamed(q, trs)
        /\ q.transfer = NoID => EventNamed(q, str)

DraftSound(q, str, trs) ==
    RequestSound(q, str, trs) /\ q.status = "waiting_for_approval" /\ q.reviewedBy = NoID

RequestsSound ==
    /\ \A r \in RequestIDs :
          requests[r] # Absent => RequestSound(requests[r], streams, transfers)
    /\ \A d \in Admins : drafts[d] # NoID => DraftSound(drafts[d], streams, transfers)

(* The unique indexes. *)
OriginalsUnique ==
    \A r, s \in RequestIDs :
        requests[r].status # "rejected" /\ requests[s].status # "rejected" =>
            /\ requests[r].transfer = requests[s].transfer /\ requests[r].transfer # NoID
                  => r = s
            /\ requests[r].event = requests[s].event /\ requests[r].event # NoEvent
                  => r = s

(* What a request has moved on account a. *)
Corrected(q, a) == IF q.status = "approved" THEN Ordered(q, a) ELSE 0

(* What a posted transfer has moved on account a. *)
Posted == {"posted", "captured", "completed", "loose"}

Done(trs, a, t) ==
    IF t # NoID /\ trs[t] \in Posted
    THEN (IF a = Transfers[t].src THEN -Total(t) ELSE 0)
         + (IF a = Transfers[t].dst THEN Transfers[t].amount ELSE 0)
    ELSE 0

(* The books balance: streams and rows tell the same. *)
Accounted ==
    \A a \in AccountIDs, r \in RequestIDs, t \in TransferIDs \cup {NoID} :
        Net(streams[a], r, t) = Corrected(requests[r], a) + Done(transfers, a, t)

AdjustmentsInv ==
    /\ TypeOK
    /\ EntriesSound
    /\ RequestsSound
    /\ OriginalsUnique
    /\ Accounted
    /\ DebitsAreCovered

-----------------------------------------------------------------------------
(* What one event adds *)

LEMMA EffectInt ==
    ASSUME NEW e \in Entries, NEW r, NEW t
    PROVE  Weight(e, r, t) \in Int /\ Effect(e) \in Int /\ Foldable(e)
BY DEF Weight, Effect, Entries, Foldable

Weights(s, r, t) == [i \in 1..Len(s) |-> Weight(s[i], r, t)]

LEMMA WeightsInt ==
    ASSUME NEW s \in Seq(Entries), NEW r, NEW t
    PROVE  IntegerOn(Weights(s, r, t), 1..Len(s))
<1>1. \A i \in 1..Len(s) : s[i] \in Entries
    OBVIOUS
<1>. QED
    BY <1>1, EffectInt DEF IntegerOn, Weights

NetBody(s, r, t, S, g) ==
    [u \in SUBSET S |-> IF u = {} THEN 0 ELSE g[u \ {Max(u)}] + Weight(s[Max(u)], r, t)]

LEMMA NetChosen ==
    ASSUME NEW s, NEW r, NEW t
    PROVE  Net(s, r, t) = (CHOOSE g : g = NetBody(s, r, t, DOMAIN s, g))[DOMAIN s]
BY DEF Net, FoldLeft, MapThenFoldSet, NetBody

LEMMA NetIsSum ==
    ASSUME NEW s \in Seq(Entries), NEW r, NEW t
    PROVE  Net(s, r, t) = SumFunctionOnSet(Weights(s, r, t), 1..Len(s))
<1> DEFINE n == Len(s)
           S == 1..n
           w == Weights(s, r, t)
           h == CHOOSE g : g = NetBody(s, r, t, S, g)
<1>1. n \in Nat /\ DOMAIN s = S /\ IntegerOn(w, 1..n)
    BY WeightsInt
<1>2. ASSUME NEW g PROVE NetBody(s, r, t, S, g) = MaxSumBody(w, S, g)
  <2>1. IsFiniteSet(S) /\ S \subseteq Nat
    BY <1>1, SegmentFinite
  <2>2. \A i \in S : w[i] = Weight(s[i], r, t)
    BY DEF Weights
  <2>. HIDE DEF S, w, n
  <2>3. \A u \in SUBSET S : u # {} => Max(u) \in S
    BY <2>1, MaxExists
  <2>4. \A u \in SUBSET S : u # {} => w[Max(u)] = Weight(s[Max(u)], r, t)
    BY <2>2, <2>3
  <2>. QED
    BY <2>4 DEF NetBody, MaxSumBody
<1>3. h = MaxSumBody(w, S, h)
  <2>1. PICK g : g = MaxSumBody(w, S, g)
    <3>. HIDE DEF w, n
    <3>. QED
      BY <1>1, MaxSumExists DEF S
  <2>. HIDE DEF S, w
  <2>2. g = NetBody(s, r, t, S, g)
    BY <1>2, <2>1
  <2>3. h = NetBody(s, r, t, S, h)
    BY <2>2
  <2>. HIDE DEF h
  <2>. QED
    BY <1>2, <2>3
<1>4. Net(s, r, t) = h[S]
    BY <1>1, NetChosen
<1>5. h[1..n] = SumFunctionOnSet(w, 1..n)
  <2>. HIDE DEF h, w, n
  <2>1. h = MaxSumBody(w, 1..n, h)
    BY <1>3 DEF S
  <2>. QED
    BY <1>1, <2>1, MaxSumIsSum
<1>. QED
    BY <1>4, <1>5

LEMMA NetOfAppend ==
    ASSUME NEW s \in Seq(Entries), NEW e \in Entries, NEW r, NEW t
    PROVE  /\ Net(Append(s, e), r, t) = Net(s, r, t) + Weight(e, r, t)
           /\ Net(s, r, t) \in Int
<1> DEFINE z == Append(s, e)
           n == Len(s)
           w == Weights(s, r, t)
           v == Weights(z, r, t)
<1>1. /\ z \in Seq(Entries) /\ Len(z) = n + 1 /\ n \in Nat /\ z[n + 1] = e
      /\ \A i \in 1..n : z[i] = s[i]
    OBVIOUS
<1>2. IntegerOn(w, 1..n) /\ IntegerOn(v, 1..(n + 1))
  <2>. HIDE DEF z
  <2>1. IntegerOn(w, 1..Len(s)) /\ IntegerOn(v, 1..Len(z))
    BY <1>1, WeightsInt
  <2>. QED
    BY <1>1, <2>1
<1>3. (\A i \in 1..n : v[i] = w[i]) /\ v[n + 1] = Weight(e, r, t)
  <2>. HIDE DEF z
  <2>. QED
    BY <1>1 DEF Weights
<1>4. Net(s, r, t) = SumFunctionOnSet(w, 1..n) /\ Net(z, r, t) = SumFunctionOnSet(v, 1..(n + 1))
  <2>1. Net(z, r, t) = SumFunctionOnSet(v, 1..Len(z)) /\ Net(s, r, t) = SumFunctionOnSet(w, 1..n)
    <3>. HIDE DEF z
    <3>. QED
      BY <1>1, NetIsSum
  <2>2. Len(z) = n + 1
    BY <1>1
  <2>. HIDE DEF z, n, v, w
  <2>. QED
    BY <2>1, <2>2
<1>5. /\ SumFunctionOnSet(v, 1..(n + 1)) = SumFunctionOnSet(w, 1..n) + v[n + 1]
      /\ SumFunctionOnSet(w, 1..n) \in Int
  <2>. HIDE DEF v, w, n
  <2>. QED
    BY <1>1, <1>2, <1>3, SumOfAppend
<1>. QED
  <2>. HIDE DEF v, w, n, z
  <2>1. Net(z, r, t) = Net(s, r, t) + Weight(e, r, t) /\ Net(s, r, t) \in Int
    BY <1>3, <1>4, <1>5
  <2>. QED
    BY <2>1 DEF z

LEMMA NetInt ==
    ASSUME NEW s \in Seq(Entries), NEW r, NEW t
    PROVE  Net(s, r, t) \in Int
<1>1. IntegerOn(Weights(s, r, t), 1..Len(s)) /\ Len(s) \in Nat
    BY WeightsInt
<1>. QED
    BY <1>1, NetIsSum, SumInt, SegmentFinite

(* What is available on an account, and what one event adds to it. *)
Worth(s) == AvailableBalance(FoldLeft(Fold, NoAccount, s))

Gain(e) == IF e.type \in {"MoneyDebited", "FundsReserved"} THEN -e.amount ELSE e.amount

LEMMA EntriesFold ==
    ASSUME NEW s \in Seq(Entries)
    PROVE  AllFoldable(s, 1..Len(s)) /\ NoAccount \in Accounts
<1>1. \A i \in 1..Len(s) : s[i] \in Entries
    OBVIOUS
<1>. QED
    BY <1>1, EffectInt DEF AllFoldable, NoAccount, Accounts

LEMMA WorthOfAppend ==
    ASSUME NEW s \in Seq(Entries), NEW e \in Entries, e.type # "AccountOpened"
    PROVE  Worth(Append(s, e)) = Worth(s) + Gain(e) /\ Worth(s) \in Int
<1> DEFINE a == FoldLeft(Fold, NoAccount, s)
<1>1. a \in Accounts
    BY EntriesFold, FoldOfStream
<1>2. FoldLeft(Fold, NoAccount, Append(s, e)) = Fold(a, e)
    BY EntriesFold, EffectInt, FoldOfAppend
<1>. HIDE DEF a
<1>3. AvailableBalance(Fold(a, e)) = AvailableBalance(a) + Gain(e)
    BY <1>1 DEF Accounts, AvailableBalance, Fold, Gain, Entries, EventTypes
<1>4. AvailableBalance(a) \in Int
    BY <1>1 DEF Accounts, AvailableBalance
<1>. QED
    BY <1>2, <1>3, <1>4 DEF Worth, a

-----------------------------------------------------------------------------
(* Streams only grow *)

Grows(s, z) ==
    /\ s \in Seq(Entries) /\ z \in Seq(Entries)
    /\ Len(s) <= Len(z)
    /\ \A i \in 1..Len(s) : z[i] = s[i]
    /\ \A i \in 1..Len(z) : i > Len(s) => EntrySound(z[i])

LEMMA GrowsSame ==
    ASSUME NEW s \in Seq(Entries)
    PROVE  Grows(s, s)
BY DEF Grows

LEMMA GrowsByOne ==
    ASSUME NEW s \in Seq(Entries), NEW e \in Entries, EntrySound(e)
    PROVE  Grows(s, Append(s, e))
<1> DEFINE z == Append(s, e)
<1>1. /\ z \in Seq(Entries) /\ Len(z) = Len(s) + 1 /\ Len(s) \in Nat
      /\ z[Len(s) + 1] = e /\ \A i \in 1..Len(s) : z[i] = s[i]
    OBVIOUS
<1>. HIDE DEF z
<1>2. Grows(s, z)
    BY <1>1 DEF Grows
<1>. QED
    BY <1>2 DEF z

LEMMA GrowsFurther ==
    ASSUME NEW s, NEW y, NEW z, Grows(s, y), Grows(y, z)
    PROVE  Grows(s, z)
<1>1. Len(s) \in Nat /\ Len(y) \in Nat /\ Len(z) \in Nat
    BY DEF Grows
<1>2. ASSUME NEW i \in 1..Len(z), i > Len(s) PROVE EntrySound(z[i])
  <2>1. CASE i > Len(y)
    BY <2>1 DEF Grows
  <2>2. CASE i <= Len(y)
    <3>1. i \in 1..Len(y) /\ z[i] = y[i]
      BY <1>1, <2>2 DEF Grows
    <3>. QED
      BY <1>2, <3>1 DEF Grows
  <2>. QED
    BY <1>1, <2>1, <2>2
<1>3. \A i \in 1..Len(s) : z[i] = s[i]
    BY <1>1 DEF Grows
<1>. QED
    BY <1>1, <1>2, <1>3 DEF Grows

(* A request keeps saying the truth while streams grow and transfers that  *)
(* completed stay so.                                                      *)
LEMMA RequestLasts ==
    ASSUME NEW q \in RequestRows, NEW str, NEW trs, NEW str2, NEW trs2,
           RequestSound(q, str, trs),
           \A a \in AccountIDs : Grows(str[a], str2[a]),
           \A t \in TransferIDs : trs[t] = "completed" => trs2[t] = "completed"
    PROVE  RequestSound(q, str2, trs2)
<1>1. ASSUME q.transfer # NoID, TransferNamed(q, trs) PROVE TransferNamed(q, trs2)
  <2>1. q.transfer \in TransferIDs
    BY <1>1 DEF RequestRows
  <2>. QED
    BY <1>1, <2>1 DEF TransferNamed
<1>2. ASSUME EventNamed(q, str) PROVE EventNamed(q, str2)
  <2>1. q.account \in AccountIDs
    BY DEF RequestRows
  <2>2. Grows(str[q.account], str2[q.account])
    BY <2>1
  <2>3. q.event.n \in 1..Len(str[q.account])
    BY <1>2 DEF EventNamed
  <2>4. /\ q.event.n \in 1..Len(str2[q.account])
        /\ str2[q.account][q.event.n] = str[q.account][q.event.n]
    BY <2>2, <2>3 DEF Grows
  <2>. QED
    BY <1>2, <2>4 DEF EventNamed
<1>. QED
    BY <1>1, <1>2 DEF RequestSound

(* What every step that touches the streams owes. *)
StreamsKept ==
    /\ \A a \in AccountIDs : Grows(streams[a], streams'[a])
    /\ \A t \in TransferIDs : transfers[t] = "completed" => transfers'[t] = "completed"

LEMMA SoundnessKept ==
    ASSUME TypeOK, EntriesSound, StreamsKept
    PROVE  /\ EntriesSound'
           /\ \A q \in RequestRows : RequestSound(q, streams, transfers) =>
                                      RequestSound(q, streams', transfers')
<1>1. EntriesSound'
  <2>. SUFFICES ASSUME NEW a \in AccountIDs, NEW n \in 1..Len(streams'[a])
                PROVE  EntrySound(streams'[a][n])
    BY DEF EntriesSound
  <2>1. Grows(streams[a], streams'[a])
    BY DEF StreamsKept
  <2>2. n > Len(streams[a]) \/ n \in 1..Len(streams[a])
    BY <2>1 DEF Grows
  <2>. QED
    BY <2>1, <2>2 DEF Grows, EntriesSound
<1>2. ASSUME NEW q \in RequestRows, RequestSound(q, streams, transfers)
      PROVE  RequestSound(q, streams', transfers')
    BY <1>2, RequestLasts DEF StreamsKept
<1>. QED
    BY <1>1, <1>2

LEMMA WorthIsAvailable ==
    ASSUME NEW a
    PROVE  Available(a) = Worth(streams[a]) /\ Available(a)' = Worth(streams'[a])
BY DEF Available, Worth

(* A row is left alone or reviewed. *)
Alike(q, p) ==
    \/ p = q
    \/ /\ q # Absent /\ q.status = "waiting_for_approval"
       /\ p.type = q.type /\ p.account = q.account
       /\ p.direction = q.direction /\ p.amount = q.amount /\ p.fee = q.fee
       /\ p.counterparty = q.counterparty
       /\ p.transfer = q.transfer /\ p.event = q.event

LEMMA RowsKept ==
    ASSUME TypeOK, EntriesSound, RequestsSound, OriginalsUnique, StreamsKept,
           UNCHANGED drafts, \A r \in RequestIDs : Alike(requests[r], requests'[r])
    PROVE  EntriesSound' /\ RequestsSound' /\ OriginalsUnique'
<1>1. ASSUME NEW r \in RequestIDs, requests'[r] # Absent
      PROVE  RequestSound(requests'[r], streams', transfers')
  <2>1. requests[r] # Absent
    BY <1>1 DEF Alike
  <2>2. requests[r] \in RequestRows
    BY <2>1 DEF TypeOK
  <2>3. RequestSound(requests[r], streams', transfers')
    BY <2>1, <2>2, SoundnessKept DEF RequestsSound
  <2>. QED
    BY <2>3 DEF Alike, RequestSound, TransferNamed, EventNamed
<1>2. ASSUME NEW d \in Admins, drafts[d] # NoID
      PROVE  DraftSound(drafts[d], streams', transfers')
  <2>1. drafts[d] \in RequestRows
    BY <1>2 DEF TypeOK
  <2>. QED
    BY <1>2, <2>1, SoundnessKept DEF RequestsSound, DraftSound
<1>3. OriginalsUnique'
  <2>1. \A r \in RequestIDs :
          /\ requests'[r].transfer = requests[r].transfer
          /\ requests'[r].event = requests[r].event
          /\ requests'[r].status # "rejected" => requests[r].status # "rejected"
    BY DEF Alike
  <2>. QED
    BY <2>1 DEF OriginalsUnique
<1>. QED
    BY <1>1, <1>2, <1>3, SoundnessKept DEF RequestsSound

-----------------------------------------------------------------------------
(* Transfers, and money that counts twice *)

LEMMA TransferFacts ==
    ASSUME NEW t \in TransferIDs
    PROVE  /\ Transfers[t].src \in AccountIDs /\ Transfers[t].dst \in AccountIDs
           /\ Transfers[t].src # Transfers[t].dst
           /\ Transfers[t].amount \in Nat /\ Transfers[t].fee \in Nat
           /\ Total(t) \in Nat /\ Total(t) = Transfers[t].amount + Transfers[t].fee
           /\ t # NoID
BY AdjustmentsAssumption DEF TransferIDs, Total

LEMMA RowBook ==
    ASSUME NEW q \in {Absent} \cup RequestRows, NEW a
    PROVE  Corrected(q, a) \in Int
<1>1. CASE q = Absent
    BY <1>1 DEF Corrected, Absent
<1>2. CASE q \in RequestRows
  <2>1. q.amount \in Nat /\ q.fee \in Int
    BY <1>2 DEF RequestRows
  <2>2. Ordered(q, a) \in Int
    BY <2>1 DEF Ordered, On
  <2>. QED
    BY <2>2 DEF Corrected
<1>. QED
    BY <1>1, <1>2

Double(state, a, t) == IF state = "posted" THEN On(a, Transfers[t].src, Total(t)) ELSE 0

LEMMA TwiceChange ==
    ASSUME TypeOK, NEW t \in TransferIDs, NEW state,
           transfers' = [transfers EXCEPT ![t] = state], NEW a
    PROVE  /\ CountedTwice(a)' = CountedTwice(a) - Double(transfers[t], a, t)
                                                 + Double(state, a, t)
           /\ CountedTwice(a) \in Nat /\ CountedTwice(a)' \in Nat
           /\ Double(transfers[t], a, t) \in Nat /\ Double(state, a, t) \in Nat
<1> DEFINE f == [u \in TransferIDs |-> Double(transfers[u], a, u)]
           h == [u \in TransferIDs |-> Double(transfers'[u], a, u)]
<1>1. \A u \in TransferIDs : \A st : Double(st, a, u) \in Nat
    BY TransferFacts DEF Double, On
<1>2. f \in [TransferIDs -> Nat] /\ h \in [TransferIDs -> Nat]
    BY <1>1
<1>3. IsFiniteSet(TransferIDs)
    BY AdjustmentsAssumption DEF TransferIDs
<1>4. transfers'[t] = state /\ \A u \in TransferIDs : u # t => transfers'[u] = transfers[u]
    BY DEF TypeOK
<1>5. /\ h[t] = Double(state, a, t) /\ f[t] = Double(transfers[t], a, t)
      /\ \A u \in TransferIDs : u # t => h[u] = f[u]
    BY <1>4
<1>6. CountedTwice(a) = SumFunction(f) /\ CountedTwice(a)' = SumFunction(h)
    BY DEF CountedTwice, Double
<1>. HIDE DEF f, h
<1>7. SumFunction(f) \in Nat /\ SumFunction(h) \in Nat
    BY <1>2, <1>3, TotalNat
<1>8. SumFunction(h) = SumFunction(f) - f[t] + h[t]
  <2>1. f \in [TransferIDs -> Int] /\ h \in [TransferIDs -> Int]
    BY <1>2
  <2>. QED
    BY <1>3, <1>5, <2>1, TotalChange
<1>. QED
    BY <1>1, <1>5, <1>6, <1>7, <1>8

LEMMA TwiceNat ==
    ASSUME NEW a
    PROVE  CountedTwice(a) \in Nat
<1> DEFINE f == [u \in TransferIDs |-> Double(transfers[u], a, u)]
<1>1. f \in [TransferIDs -> Nat]
    BY TransferFacts DEF Double, On
<1>2. CountedTwice(a) = SumFunction(f)
    BY DEF CountedTwice, Double
<1>3. IsFiniteSet(TransferIDs)
    BY AdjustmentsAssumption DEF TransferIDs
<1>. HIDE DEF f
<1>. QED
    BY <1>1, <1>2, <1>3, TotalNat

LEMMA TwiceSame ==
    ASSUME UNCHANGED transfers, NEW a
    PROVE  CountedTwice(a)' = CountedTwice(a)
BY DEF CountedTwice

(* A debit that nobody checked stays in the books. *)
LEMMA UncheckedStays ==
    ASSUME TypeOK, NEW a, UncheckedDebit(a),
           \A t \in TransferIDs : transfers[t] = "loose" => transfers'[t] = "loose",
           \A r \in RequestIDs : Alike(requests[r], requests'[r])
    PROVE  UncheckedDebit(a)'
<1>1. \A r \in RequestIDs : requests[r].status = "approved" => requests'[r] = requests[r]
    BY DEF Alike
<1>. QED
    BY <1>1 DEF UncheckedDebit, Approved

(* An account that was covered, and has lost nothing or is covered now. *)
LEMMA CoverLasts ==
    ASSUME AdjustmentsInv, NEW a \in AccountIDs,
           \A t \in TransferIDs : transfers[t] = "loose" => transfers'[t] = "loose",
           \A r \in RequestIDs : Alike(requests[r], requests'[r]),
           \/ Available(a)' + CountedTwice(a)' = Available(a) + CountedTwice(a)
           \/ Available(a)' + CountedTwice(a)' >= 0
    PROVE  UncheckedDebit(a)' \/ Available(a)' + CountedTwice(a)' >= 0
<1>1. CASE UncheckedDebit(a)
    BY <1>1, UncheckedStays DEF AdjustmentsInv
<1>2. CASE ~UncheckedDebit(a)
  <2>1. Available(a) + CountedTwice(a) >= 0
    BY <1>2 DEF AdjustmentsInv, DebitsAreCovered
  <2>. QED
    BY <2>1
<1>. QED
    BY <1>1, <1>2

-----------------------------------------------------------------------------
(* One event on one account *)

Added(str, a, e) == [str EXCEPT ![a] = Append(@, e)]

(* What is known after e was appended to the stream of a. *)
EventAdded(f, g, a, e) ==
    /\ g \in [AccountIDs -> Seq(Entries)]
    /\ \A b \in AccountIDs : Grows(f[b], g[b])
    /\ \A b \in AccountIDs : b # a => g[b] = f[b]
    /\ Worth(g[a]) = Worth(f[a]) + Gain(e)
    /\ Worth(f[a]) \in Int /\ Gain(e) \in Int
    /\ \A r, t : /\ Net(g[a], r, t) = Net(f[a], r, t) + Weight(e, r, t)
                 /\ Net(f[a], r, t) \in Int

LEMMA OneEvent ==
    ASSUME NEW f \in [AccountIDs -> Seq(Entries)], NEW a \in AccountIDs, NEW e \in Entries,
           EntrySound(e), e.type # "AccountOpened", NEW g, g = Added(f, a, e)
    PROVE  EventAdded(f, g, a, e)
<1>1. /\ g[a] = Append(f[a], e)
      /\ \A b \in AccountIDs : b # a => g[b] = f[b]
      /\ \A b \in AccountIDs : f[b] \in Seq(Entries)
    BY DEF Added
<1>2. g \in [AccountIDs -> Seq(Entries)]
    BY DEF Added
<1>3. \A b \in AccountIDs : Grows(f[b], g[b])
  <2>1. Grows(f[a], g[a])
    BY <1>1, GrowsByOne
  <2>. QED
    BY <1>1, <2>1, GrowsSame
<1>4. Worth(g[a]) = Worth(f[a]) + Gain(e) /\ Worth(f[a]) \in Int
    BY <1>1, WorthOfAppend
<1>5. ASSUME NEW r, NEW t
      PROVE  /\ Net(g[a], r, t) = Net(f[a], r, t) + Weight(e, r, t)
             /\ Net(f[a], r, t) \in Int
    BY <1>1, NetOfAppend
<1>6. Gain(e) \in Int
    BY DEF Gain, Entries
<1>. QED
    BY <1>1, <1>2, <1>3, <1>4, <1>5, <1>6 DEF EventAdded

LEMMA WorthInt ==
    ASSUME TypeOK, NEW a \in AccountIDs
    PROVE  Worth(streams[a]) \in Int /\ Available(a) = Worth(streams[a])
<1>1. streams[a] \in Seq(Entries)
    BY DEF TypeOK
<1>2. FoldLeft(Fold, NoAccount, streams[a]) \in Accounts
    BY <1>1, EntriesFold, FoldOfStream
<1>. QED
    BY <1>2 DEF Worth, Available, AvailableBalance, Accounts

(* Money that belongs to neither a transfer nor a request is in no book. *)
LEMMA OwnMoneyUncounted ==
    ASSUME NEW e, CustomerOriginated(e), NEW r \in RequestIDs, NEW t
    PROVE  Weight(e, r, t) = 0
BY AdjustmentsAssumption DEF Weight, CustomerOriginated

LEMMA CustomerEvent ==
    ASSUME AdjustmentsInv, NEW a \in AccountIDs, NEW e \in Entries,
           CustomerOriginated(e), e.amount \in Nat, e.type # "AccountOpened",
           streams' = Added(streams, a, e),
           Gain(e) >= 0 \/ Worth(streams[a]) + Gain(e) >= 0,
           UNCHANGED <<transfers, requests, drafts>>
    PROVE  AdjustmentsInv'
<1>1. EntrySound(e) /\ streams \in [AccountIDs -> Seq(Entries)] /\ TypeOK
    BY DEF EntrySound, CustomerOriginated, AdjustmentsInv, TypeOK
<1>2. /\ streams' \in [AccountIDs -> Seq(Entries)]
      /\ \A b \in AccountIDs : Grows(streams[b], streams'[b])
      /\ \A b \in AccountIDs : b # a => streams'[b] = streams[b]
      /\ Worth(streams'[a]) = Worth(streams[a]) + Gain(e)
      /\ Worth(streams[a]) \in Int /\ Gain(e) \in Int
      /\ \A r, t : /\ Net(streams'[a], r, t) = Net(streams[a], r, t) + Weight(e, r, t)
                   /\ Net(streams[a], r, t) \in Int
  <2>1. EventAdded(streams, streams', a, e)
    BY <1>1, OneEvent
  <2>. QED
    BY <2>1 DEF EventAdded
<1>3. TypeOK'
    BY <1>2 DEF AdjustmentsInv, TypeOK, Waiting
<1>4. \A r \in RequestIDs : Alike(requests[r], requests'[r])
    BY DEF Alike
<1>5. EntriesSound' /\ RequestsSound' /\ OriginalsUnique'
  <2>1. StreamsKept
    BY <1>2 DEF StreamsKept
  <2>. QED
    BY <1>4, <2>1, RowsKept DEF AdjustmentsInv
<1>6. DebitsAreCovered'
  <2>. SUFFICES ASSUME NEW b \in AccountIDs
                PROVE  UncheckedDebit(b)' \/ Available(b)' + CountedTwice(b)' >= 0
    BY DEF DebitsAreCovered
  <2>1. CountedTwice(b)' = CountedTwice(b) /\ CountedTwice(b) \in Nat
    BY TwiceSame, TwiceNat
  <2>2. /\ Available(b) = Worth(streams[b]) /\ Available(b)' = Worth(streams'[b])
        /\ Worth(streams[b]) \in Int
    BY <1>1, WorthIsAvailable, WorthInt
  <2>3. CASE b # a
    BY <1>2, <1>4, <2>1, <2>2, <2>3, CoverLasts
  <2>4. CASE b = a /\ Worth(streams[a]) + Gain(e) >= 0
    BY <1>2, <2>1, <2>2, <2>4
  <2>5. CASE b = a /\ Gain(e) >= 0
    <3>1. CASE UncheckedDebit(b)
      BY <1>1, <1>4, <3>1, UncheckedStays
    <3>2. CASE Available(b) + CountedTwice(b) >= 0
      BY <1>2, <2>1, <2>2, <2>5, <3>2
    <3>. QED
      BY <3>1, <3>2 DEF AdjustmentsInv, DebitsAreCovered
  <2>. QED
    BY <2>3, <2>4, <2>5
<1>7. Accounted'
  <2>. SUFFICES ASSUME NEW b \in AccountIDs, NEW r \in RequestIDs,
                       NEW t \in TransferIDs \cup {NoID}
                PROVE  Net(streams'[b], r, t)
                         = Corrected(requests[r], b) + Done(transfers, b, t)
    BY DEF Accounted
  <2>1. Net(streams'[b], r, t) = Net(streams[b], r, t)
    BY <1>2, OwnMoneyUncounted
  <2>. QED
    BY <2>1 DEF AdjustmentsInv, Accounted
<1>. QED
    BY <1>3, <1>5, <1>6, <1>7 DEF AdjustmentsInv

LEMMA EntryType ==
    ASSUME NEW type \in EventTypes, NEW m \in Int, NEW t \in TransferIDs \cup {NoID},
           NEW r \in RequestIDs \cup {NoID}
    PROVE  /\ Entry(type, m, t, r) \in Entries
           /\ Entry(type, m, t, r).type = type /\ Entry(type, m, t, r).amount = m
           /\ Entry(type, m, t, r).transfer = t /\ Entry(type, m, t, r).adjustment = r
BY DEF Entry, Entries

LEMMA DepositKeeps ==
    ASSUME AdjustmentsInv, NEW a \in AccountIDs, NEW m \in Amounts, Deposit(a, m)
    PROVE  AdjustmentsInv'
<1> DEFINE e == Entry("MoneyCredited", m, NoID, NoID)
<1>1. m \in Nat /\ m \in Int
    BY AdjustmentsAssumption
<1>2. /\ e \in Entries /\ e.type = "MoneyCredited" /\ e.amount = m
      /\ e.transfer = NoID /\ e.adjustment = NoID
    BY <1>1 DEF Entry, Entries, EventTypes
<1>3. streams' = Added(streams, a, e) /\ UNCHANGED <<transfers, requests, drafts>>
    BY DEF Deposit, Added
<1>. HIDE DEF e
<1>4. CustomerOriginated(e) /\ Gain(e) = m
    BY <1>2 DEF CustomerOriginated, Gain
<1>. QED
    BY <1>1, <1>2, <1>3, <1>4, CustomerEvent

LEMMA WithdrawKeeps ==
    ASSUME AdjustmentsInv, NEW a \in AccountIDs, NEW m \in Amounts, Withdraw(a, m)
    PROVE  AdjustmentsInv'
<1> DEFINE e == Entry("MoneyDebited", m, NoID, NoID)
<1>1. m \in Nat /\ m \in Int
    BY AdjustmentsAssumption
<1>2. /\ e \in Entries /\ e.type = "MoneyDebited" /\ e.amount = m
      /\ e.transfer = NoID /\ e.adjustment = NoID
    BY <1>1 DEF Entry, Entries, EventTypes
<1>3. streams' = Added(streams, a, e) /\ UNCHANGED <<transfers, requests, drafts>>
    BY DEF Withdraw, Added
<1>. HIDE DEF e
<1>4. CustomerOriginated(e) /\ Gain(e) = -m
    BY <1>2 DEF CustomerOriginated, Gain
<1>5. Worth(streams[a]) \in Int /\ Worth(streams[a]) >= m
  <2>1. Worth(streams[a]) \in Int
    BY WorthInt DEF AdjustmentsInv
  <2>. QED
    BY <2>1, WorthIsAvailable DEF Withdraw
<1>. QED
    BY <1>1, <1>2, <1>3, <1>4, <1>5, CustomerEvent

-----------------------------------------------------------------------------
(* Transfers *)

(* What a step of transfer t owes: the transfer moves on, nothing else of  *)
(* the tables changes, and the books follow the streams.                   *)
TransferStep(t, state) ==
    /\ transfers' = [transfers EXCEPT ![t] = state] /\ state \in TransferStates
    /\ transfers[t] \notin {"completed", "loose"}
    /\ UNCHANGED <<requests, drafts>>

LEMMA TransferStepKeeps ==
    ASSUME AdjustmentsInv, NEW t \in TransferIDs, NEW state, TransferStep(t, state),
           streams' \in [AccountIDs -> Seq(Entries)],
           \A b \in AccountIDs : Grows(streams[b], streams'[b])
    PROVE  TypeOK' /\ EntriesSound' /\ RequestsSound' /\ OriginalsUnique'
<1>1. /\ transfers' = [transfers EXCEPT ![t] = state] /\ state \in TransferStates
      /\ transfers[t] # "completed" /\ UNCHANGED <<requests, drafts>>
    BY DEF TransferStep
<1>2. TypeOK'
    BY <1>1 DEF AdjustmentsInv, TypeOK, Waiting
<1>3. StreamsKept
    BY <1>1 DEF StreamsKept, AdjustmentsInv, TypeOK
<1>4. \A r \in RequestIDs : Alike(requests[r], requests'[r])
    BY <1>1 DEF Alike
<1>. QED
    BY <1>1, <1>2, <1>3, <1>4, RowsKept DEF AdjustmentsInv

(* Every account but the source of the transfer is covered as before. *)
LEMMA TransferStepCovers ==
    ASSUME AdjustmentsInv, NEW t \in TransferIDs, NEW state, TransferStep(t, state),
           NEW b \in AccountIDs,
           \/ /\ Worth(streams'[b]) \in Int
              /\ Worth(streams'[b]) + Double(state, b, t)
                   >= Worth(streams[b]) + Double(transfers[t], b, t)
           \/ /\ Worth(streams'[b]) \in Int /\ Worth(streams'[b]) >= 0
           \/ state = "loose" /\ b = Transfers[t].src
    PROVE  UncheckedDebit(b)' \/ Available(b)' + CountedTwice(b)' >= 0
<1>1. /\ transfers' = [transfers EXCEPT ![t] = state] /\ UNCHANGED <<requests, drafts>>
      /\ transfers[t] # "loose" /\ TypeOK
    BY DEF TransferStep, AdjustmentsInv
<1>2. /\ \A r \in RequestIDs : Alike(requests[r], requests'[r])
      /\ \A u \in TransferIDs : transfers[u] = "loose" => transfers'[u] = "loose"
      /\ transfers'[t] = state
    BY <1>1 DEF Alike, TypeOK
<1>3. /\ CountedTwice(b)' = CountedTwice(b) - Double(transfers[t], b, t) + Double(state, b, t)
      /\ CountedTwice(b) \in Nat /\ CountedTwice(b)' \in Nat
      /\ Double(transfers[t], b, t) \in Nat /\ Double(state, b, t) \in Nat
    BY <1>1, TwiceChange
<1>4. /\ Available(b) = Worth(streams[b]) /\ Available(b)' = Worth(streams'[b])
      /\ Worth(streams[b]) \in Int
    BY <1>1, WorthIsAvailable, WorthInt
<1>5. CASE UncheckedDebit(b)
    BY <1>1, <1>2, <1>5, UncheckedStays
<1>6. CASE state = "loose" /\ b = Transfers[t].src
    BY <1>2, <1>6 DEF UncheckedDebit
<1>7. CASE Worth(streams'[b]) \in Int /\ Worth(streams'[b]) >= 0
    BY <1>3, <1>4, <1>7
<1>8. CASE /\ ~UncheckedDebit(b) /\ Worth(streams'[b]) \in Int
           /\ Worth(streams'[b]) + Double(state, b, t)
                >= Worth(streams[b]) + Double(transfers[t], b, t)
  <2>1. Available(b) + CountedTwice(b) >= 0
    BY <1>8 DEF AdjustmentsInv, DebitsAreCovered
  <2>2. Available(b)' + CountedTwice(b)' >= 0
    BY <1>3, <1>4, <1>8, <2>1
  <2>. QED
    BY <2>2
<1>. QED
    BY <1>5, <1>6, <1>7, <1>8

(* A hold begins or ends: the books do not change. *)
LEMMA HoldEvent ==
    ASSUME AdjustmentsInv, NEW t \in TransferIDs, NEW state, TransferStep(t, state),
           NEW type \in {"FundsReserved", "ReservationCaptured", "ReservationReleased"},
           streams' = Added(streams, Transfers[t].src, Entry(type, Total(t), t, NoID)),
           (transfers[t] \in Posted) <=> (state \in Posted),
           \/ type = "FundsReserved" /\ Worth(streams[Transfers[t].src]) >= Total(t)
           \/ type # "FundsReserved" /\ state \notin {"posted", "loose"}
           \/ state = "loose"
    PROVE  AdjustmentsInv'
<1> DEFINE src == Transfers[t].src
           e == Entry(type, Total(t), t, NoID)
<1>1. /\ src \in AccountIDs /\ Total(t) \in Nat /\ Total(t) \in Int /\ t # NoID
    BY TransferFacts
<1>2. /\ e \in Entries /\ e.type = type /\ e.amount = Total(t)
      /\ e.transfer = t /\ e.adjustment = NoID
    BY <1>1 DEF Entry, Entries, EventTypes
<1>3. streams' = Added(streams, src, e)
    OBVIOUS
<1>. HIDE DEF e
<1>4. /\ EntrySound(e) /\ e.type # "AccountOpened"
      /\ Gain(e) = IF type = "FundsReserved" THEN -Total(t) ELSE Total(t)
      /\ \A r, u : Weight(e, r, u) = 0
    BY <1>1, <1>2 DEF EntrySound, CustomerOriginated, Gain, Weight, Effect
<1>5. TypeOK /\ streams \in [AccountIDs -> Seq(Entries)]
    BY DEF AdjustmentsInv, TypeOK
<1>6. EventAdded(streams, streams', src, e)
  <2>. HIDE DEF src
  <2>. QED
    BY <1>1, <1>2, <1>3, <1>4, <1>5, OneEvent
<1>7. TypeOK' /\ EntriesSound' /\ RequestsSound' /\ OriginalsUnique'
    BY <1>6, TransferStepKeeps DEF EventAdded
<1>8. DebitsAreCovered'
  <2>. SUFFICES ASSUME NEW b \in AccountIDs
                PROVE  UncheckedDebit(b)' \/ Available(b)' + CountedTwice(b)' >= 0
    BY DEF DebitsAreCovered
  <2>1. CASE b # src
    <3>1. streams'[b] = streams[b] /\ Worth(streams[b]) \in Int
      BY <1>5, <1>6, <2>1, WorthInt DEF EventAdded
    <3>2. Double(state, b, t) = 0 /\ Double(transfers[t], b, t) = 0
      BY <2>1 DEF Double, On
    <3>. QED
      BY <3>1, <3>2, TransferStepCovers
  <2>2. CASE b = src
    <3>1. Worth(streams'[b]) = Worth(streams[b]) + Gain(e) /\ Worth(streams[b]) \in Int
      BY <1>6, <2>2 DEF EventAdded
    <3>2. CASE state = "loose"
      BY <2>2, <3>2, TransferStepCovers
    <3>3. CASE type = "FundsReserved" /\ Worth(streams[src]) >= Total(t)
      <4>1. Worth(streams'[b]) \in Int /\ Worth(streams'[b]) >= 0
        BY <1>1, <1>4, <2>2, <3>1, <3>3
      <4>. QED
        BY <4>1, TransferStepCovers
    <3>4. CASE type # "FundsReserved" /\ state \notin {"posted", "loose"}
      <4>1. Double(state, b, t) = 0 /\ Double(transfers[t], b, t) \in {0, Total(t)}
        BY <3>4 DEF Double, On
      <4>2. /\ Worth(streams'[b]) \in Int
            /\ Worth(streams'[b]) + Double(state, b, t)
                 >= Worth(streams[b]) + Double(transfers[t], b, t)
        BY <1>1, <1>4, <3>1, <3>4, <4>1
      <4>. QED
        BY <4>2, TransferStepCovers
    <3>. QED
      BY <3>2, <3>3, <3>4
  <2>. QED
    BY <2>1, <2>2
<1>9. Accounted'
  <2>. SUFFICES ASSUME NEW b \in AccountIDs, NEW r \in RequestIDs,
                       NEW u \in TransferIDs \cup {NoID}
                PROVE  Net(streams'[b], r, u)
                         = Corrected(requests'[r], b) + Done(transfers', b, u)
    BY DEF Accounted
  <2>1. Net(streams'[b], r, u) = Net(streams[b], r, u)
    BY <1>4, <1>6 DEF EventAdded
  <2>2. requests' = requests /\ transfers' = [transfers EXCEPT ![t] = state]
    BY DEF TransferStep
  <2>3. Done(transfers', b, u) = Done(transfers, b, u)
    BY <1>5, <2>2 DEF Done, TypeOK
  <2>. QED
    BY <2>1, <2>2, <2>3 DEF AdjustmentsInv, Accounted
<1>. QED
    BY <1>7, <1>8, <1>9 DEF AdjustmentsInv

LEMMA HoldTransferKeeps ==
    ASSUME AdjustmentsInv, NEW t \in TransferIDs, HoldTransfer(t)
    PROVE  AdjustmentsInv'
<1>1. /\ TransferStep(t, "held") /\ transfers[t] = "none"
      /\ streams' = Added(streams, Transfers[t].src, Entry("FundsReserved", Total(t), t, NoID))
      /\ Worth(streams[Transfers[t].src]) >= Total(t)
    BY WorthIsAvailable DEF HoldTransfer, TransferStep, TransferStates, Added
<1>2. (transfers[t] \in Posted) <=> ("held" \in Posted)
    BY <1>1 DEF Posted
<1>. QED
    BY <1>1, <1>2, HoldEvent

LEMMA CaptureTransferKeeps ==
    ASSUME AdjustmentsInv, NEW t \in TransferIDs, CaptureTransfer(t)
    PROVE  AdjustmentsInv'
<1>1. /\ TransferStep(t, "captured") /\ transfers[t] = "posted"
      /\ streams' = Added(streams, Transfers[t].src,
                          Entry("ReservationCaptured", Total(t), t, NoID))
    BY DEF CaptureTransfer, FinishReservation, TransferStep, TransferStates, Added
<1>2. (transfers[t] \in Posted) <=> ("captured" \in Posted)
    BY <1>1 DEF Posted
<1>. QED
    BY <1>1, <1>2, HoldEvent

LEMMA ReleaseTransferKeeps ==
    ASSUME AdjustmentsInv, NEW t \in TransferIDs, ReleaseTransfer(t)
    PROVE  AdjustmentsInv'
<1>1. PICK state : state = AfterRelease[transfers[t]]
    OBVIOUS
<1>2. \/ transfers[t] = "held" /\ state = "released"
      \/ transfers[t] = "posted" /\ state = "loose"
    BY <1>1 DEF ReleaseTransfer, AfterRelease
<1>3. /\ TransferStep(t, state)
      /\ streams' = Added(streams, Transfers[t].src,
                          Entry("ReservationReleased", Total(t), t, NoID))
    BY <1>1, <1>2 DEF ReleaseTransfer, FinishReservation, TransferStep, TransferStates, Added
<1>4. (transfers[t] \in Posted) <=> (state \in Posted)
    BY <1>2 DEF Posted
<1>. QED
    BY <1>2, <1>3, <1>4, HoldEvent

LEMMA CompleteTransferKeeps ==
    ASSUME AdjustmentsInv, NEW t \in TransferIDs, CompleteTransfer(t)
    PROVE  AdjustmentsInv'
<1>1. /\ TransferStep(t, "completed") /\ transfers[t] = "captured" /\ UNCHANGED streams
      /\ TypeOK /\ streams \in [AccountIDs -> Seq(Entries)]
    BY DEF CompleteTransfer, TransferStep, TransferStates, AdjustmentsInv, TypeOK
<1>2. TypeOK' /\ EntriesSound' /\ RequestsSound' /\ OriginalsUnique'
    BY <1>1, TransferStepKeeps, GrowsSame
<1>3. DebitsAreCovered'
  <2>1. ASSUME NEW b \in AccountIDs
        PROVE  UncheckedDebit(b)' \/ Available(b)' + CountedTwice(b)' >= 0
    <3>1. Double("completed", b, t) = 0 /\ Double(transfers[t], b, t) = 0
      BY <1>1 DEF Double
    <3>2. Worth(streams'[b]) = Worth(streams[b]) /\ Worth(streams[b]) \in Int
      BY <1>1, WorthInt
    <3>. QED
      BY <1>1, <3>1, <3>2, TransferStepCovers
  <2>. QED
    BY <2>1 DEF DebitsAreCovered
<1>4. Accounted'
  <2>1. requests' = requests /\ transfers' = [transfers EXCEPT ![t] = "completed"]
    BY <1>1 DEF TransferStep
  <2>2. \A b \in AccountIDs, u \in TransferIDs \cup {NoID} :
           Done(transfers', b, u) = Done(transfers, b, u)
    BY <1>1, <2>1 DEF Done, Posted, TypeOK
  <2>. QED
    BY <1>1, <2>1, <2>2 DEF AdjustmentsInv, Accounted
<1>. QED
    BY <1>2, <1>3, <1>4 DEF AdjustmentsInv


(* What a posted transfer, or an approved request, adds to a book. *)
Moved(u, t, m) == IF u = t THEN m ELSE 0

SourceAfter(s, t) ==
    Append(s \o FeeEntries(t), Entry("MoneyDebited", Transfers[t].amount, t, NoID))

(* The source gets the fee and the amount: what is available there and the *)
(* books of the transfer change by its total.                              *)
LEMMA SourcePosted ==
    ASSUME NEW s \in Seq(Entries), NEW t \in TransferIDs
    PROVE  /\ Grows(s, SourceAfter(s, t))
           /\ Worth(SourceAfter(s, t)) = Worth(s) - Total(t) /\ Worth(s) \in Int
           /\ \A r \in RequestIDs, u \in TransferIDs \cup {NoID} :
                 /\ Net(SourceAfter(s, t), r, u) = Net(s, r, u) + Moved(u, t, -Total(t))
                 /\ Net(s, r, u) \in Int
<1> DEFINE F == Entry("MoneyDebited", Transfers[t].fee, t, NoID)
           A == Entry("MoneyDebited", Transfers[t].amount, t, NoID)
           x == s \o FeeEntries(t)
           y == Append(x, A)
           fee == Transfers[t].fee
           amount == Transfers[t].amount
<1>1. /\ fee \in Nat /\ amount \in Nat /\ Total(t) = amount + fee /\ t # NoID
      /\ fee \in Int /\ amount \in Int
    BY TransferFacts
<1>2. /\ F \in Entries /\ F.type = "MoneyDebited" /\ F.amount = fee
      /\ F.transfer = t /\ F.adjustment = NoID
    BY <1>1 DEF Entry, Entries, EventTypes
<1>3. /\ A \in Entries /\ A.type = "MoneyDebited" /\ A.amount = amount
      /\ A.transfer = t /\ A.adjustment = NoID
    BY <1>1 DEF Entry, Entries, EventTypes
<1>5. x = IF fee > 0 THEN Append(s, F) ELSE s
  <2>1. CASE fee > 0
    BY <2>1, <1>2 DEF FeeEntries
  <2>2. CASE ~(fee > 0)
    BY <2>2 DEF FeeEntries
  <2>. QED
    BY <2>1, <2>2
<1>6. x \in Seq(Entries)
    BY <1>2, <1>5
<1>7. SourceAfter(s, t) = y
    BY DEF SourceAfter
<1>. HIDE DEF F, A, x, fee, amount
<1>9. EntrySound(F) /\ EntrySound(A)
    BY <1>1, <1>2, <1>3 DEF EntrySound, CustomerOriginated
<1>10. /\ Grows(s, x) /\ Worth(x) = Worth(s) - fee /\ Worth(s) \in Int
       /\ \A r \in RequestIDs, u \in TransferIDs \cup {NoID} :
             Net(x, r, u) = Net(s, r, u) + Moved(u, t, -fee) /\ Net(s, r, u) \in Int
  <2>1. Gain(F) = -fee /\ \A r \in RequestIDs, u \in TransferIDs \cup {NoID} :
                             Weight(F, r, u) = Moved(u, t, -fee)
    BY <1>1, <1>2, AdjustmentsAssumption DEF Gain, Weight, Effect, Moved, TransferIDs
  <2>2. Worth(Append(s, F)) = Worth(s) + Gain(F) /\ Worth(s) \in Int
    BY <1>2, WorthOfAppend
  <2>3. \A r, u : /\ Net(Append(s, F), r, u) = Net(s, r, u) + Weight(F, r, u)
                  /\ Net(s, r, u) \in Int
    BY <1>2, NetOfAppend
  <2>4. Grows(s, Append(s, F)) /\ Grows(s, s)
    BY <1>2, <1>9, GrowsByOne, GrowsSame
  <2>5. CASE fee > 0
    <3>1. x = Append(s, F)
      BY <1>5, <2>5
    <3>. QED
      BY <1>1, <2>1, <2>2, <2>3, <2>4, <3>1
  <2>6. CASE ~(fee > 0)
    <3>1. x = s /\ fee = 0
      BY <1>1, <1>5, <2>6
    <3>. QED
      BY <2>2, <2>3, <2>4, <3>1 DEF Moved
  <2>. QED
    BY <2>5, <2>6
<1>11. /\ Grows(x, y) /\ Worth(y) = Worth(x) - amount /\ Worth(x) \in Int
       /\ \A r \in RequestIDs, u \in TransferIDs \cup {NoID} :
             Net(y, r, u) = Net(x, r, u) + Moved(u, t, -amount) /\ Net(x, r, u) \in Int
  <2>1. Gain(A) = -amount /\ \A r \in RequestIDs, u \in TransferIDs \cup {NoID} :
                             Weight(A, r, u) = Moved(u, t, -amount)
    BY <1>1, <1>3, AdjustmentsAssumption DEF Gain, Weight, Effect, Moved, TransferIDs
  <2>2. Worth(y) = Worth(x) + Gain(A) /\ Worth(x) \in Int
    BY <1>3, <1>6, WorthOfAppend
  <2>3. \A r, u : /\ Net(y, r, u) = Net(x, r, u) + Weight(A, r, u)
                  /\ Net(x, r, u) \in Int
    BY <1>3, <1>6, NetOfAppend
  <2>4. Grows(x, y)
    BY <1>3, <1>6, <1>9, GrowsByOne
  <2>. QED
    BY <1>1, <2>1, <2>2, <2>3, <2>4
<1>. HIDE DEF y
<1>13. Grows(s, y)
    BY <1>10, <1>11, GrowsFurther
<1>14. Worth(y) = Worth(s) - Total(t)
    BY <1>1, <1>10, <1>11
<1>15. ASSUME NEW r \in RequestIDs, NEW u \in TransferIDs \cup {NoID}
       PROVE  /\ Net(y, r, u) = Net(s, r, u) + Moved(u, t, -Total(t))
              /\ Net(s, r, u) \in Int
  <2>1. /\ Net(x, r, u) = Net(s, r, u) + Moved(u, t, -fee) /\ Net(s, r, u) \in Int
        /\ Net(y, r, u) = Net(x, r, u) + Moved(u, t, -amount) /\ Net(x, r, u) \in Int
    BY <1>10, <1>11
  <2>2. CASE u = t
    BY <1>1, <2>1, <2>2 DEF Moved
  <2>3. CASE u # t
    BY <2>1, <2>3 DEF Moved
  <2>. QED
    BY <2>2, <2>3
<1>. QED
    BY <1>7, <1>10, <1>13, <1>14, <1>15

LEMMA PostTransferKeeps ==
    ASSUME AdjustmentsInv, NEW t \in TransferIDs, PostTransfer(t)
    PROVE  AdjustmentsInv'
<1> DEFINE src == Transfers[t].src
           dst == Transfers[t].dst
           amount == Transfers[t].amount
           C == Entry("MoneyCredited", amount, t, NoID)
<1>1. /\ src \in AccountIDs /\ dst \in AccountIDs /\ src # dst
      /\ amount \in Nat /\ amount \in Int /\ Total(t) \in Nat /\ t # NoID
    BY TransferFacts
<1>2. /\ C \in Entries /\ C.type = "MoneyCredited" /\ C.amount = amount
      /\ C.transfer = t /\ C.adjustment = NoID
    BY <1>1 DEF Entry, Entries, EventTypes
<1>3. PICK state : state = AfterPosting[transfers[t]]
    OBVIOUS
<1>4. \/ transfers[t] = "held" /\ state = "posted"
      \/ transfers[t] = "released" /\ state = "loose"
    BY <1>3 DEF PostTransfer, AfterPosting
<1>5. TransferStep(t, state)
    BY <1>3, <1>4 DEF PostTransfer, TransferStep, TransferStates
<1>6. streams' = [streams EXCEPT ![src] = SourceAfter(@, t), ![dst] = Append(@, C)]
    BY DEF PostTransfer, SourceAfter
<1>7. TypeOK /\ streams \in [AccountIDs -> Seq(Entries)]
    BY DEF AdjustmentsInv, TypeOK
<1>8. Double(transfers[t], src, t) = 0
    BY <1>4 DEF Double
<1>9. \A b \in AccountIDs : b # src => Double(transfers[t], b, t) = 0 /\ Double(state, b, t) = 0
    BY DEF Double, On
<1>10. state = "posted" => Double(state, src, t) = Total(t)
    BY DEF Double, On
<1>11. \A b \in AccountIDs : transfers[t] \notin Posted /\ state \in Posted
    BY <1>4 DEF Posted
<1>. HIDE DEF C
<1>12. /\ EntrySound(C) /\ Gain(C) = amount
       /\ \A r \in RequestIDs, u \in TransferIDs \cup {NoID} :
             Weight(C, r, u) = Moved(u, t, amount)
    BY <1>1, <1>2, AdjustmentsAssumption
       DEF EntrySound, CustomerOriginated, Gain, Weight, Effect, Moved, TransferIDs
<1>14. transfers'[t] = state /\ \A u \in TransferIDs : u # t => transfers'[u] = transfers[u]
    BY <1>5, <1>7 DEF TransferStep, TypeOK
<1>15. \A b \in AccountIDs : Done(transfers', b, t) = On(b, src, -Total(t)) + On(b, dst, amount)
    BY <1>1, <1>11, <1>14 DEF Done, On
<1>16. \A b \in AccountIDs : Done(transfers, b, t) = 0
    BY <1>11 DEF Done
<1>. HIDE DEF src, dst, amount
<1>17. /\ streams'[src] = SourceAfter(streams[src], t)
       /\ streams'[dst] = Append(streams[dst], C)
       /\ \A b \in AccountIDs : b # src /\ b # dst => streams'[b] = streams[b]
       /\ \A b \in AccountIDs : streams[b] \in Seq(Entries)
       /\ streams' = [b \in AccountIDs |-> streams'[b]]
    BY <1>1, <1>6, <1>7
<1>18. /\ Grows(streams[src], streams'[src])
       /\ Worth(streams'[src]) = Worth(streams[src]) - Total(t)
       /\ Worth(streams[src]) \in Int
       /\ \A r \in RequestIDs, u \in TransferIDs \cup {NoID} :
             /\ Net(streams'[src], r, u) = Net(streams[src], r, u) + Moved(u, t, -Total(t))
             /\ Net(streams[src], r, u) \in Int
    BY <1>1, <1>17, SourcePosted
<1>19. /\ Grows(streams[dst], streams'[dst])
       /\ Worth(streams'[dst]) = Worth(streams[dst]) + amount
       /\ Worth(streams[dst]) \in Int
       /\ \A r \in RequestIDs, u \in TransferIDs \cup {NoID} :
             /\ Net(streams'[dst], r, u) = Net(streams[dst], r, u) + Moved(u, t, amount)
             /\ Net(streams[dst], r, u) \in Int
  <2>1. streams[dst] \in Seq(Entries)
    BY <1>1, <1>17
  <2>2. Grows(streams[dst], streams'[dst])
    BY <1>2, <1>12, <1>17, <2>1, GrowsByOne
  <2>3. Worth(streams'[dst]) = Worth(streams[dst]) + amount /\ Worth(streams[dst]) \in Int
    BY <1>2, <1>12, <1>17, <2>1, WorthOfAppend
  <2>4. \A r, u : /\ Net(streams'[dst], r, u) = Net(streams[dst], r, u) + Weight(C, r, u)
                  /\ Net(streams[dst], r, u) \in Int
    BY <1>2, <1>17, <2>1, NetOfAppend
  <2>. QED
    BY <1>12, <2>2, <2>3, <2>4
<1>20. \A b \in AccountIDs : Grows(streams[b], streams'[b])
    BY <1>17, <1>18, <1>19, GrowsSame
<1>21. streams' \in [AccountIDs -> Seq(Entries)]
    BY <1>17, <1>20 DEF Grows
<1>22. TypeOK' /\ EntriesSound' /\ RequestsSound' /\ OriginalsUnique'
    BY <1>5, <1>20, <1>21, TransferStepKeeps
<1>23. DebitsAreCovered'
  <2>. SUFFICES ASSUME NEW b \in AccountIDs
                PROVE  UncheckedDebit(b)' \/ Available(b)' + CountedTwice(b)' >= 0
    BY DEF DebitsAreCovered
  <2>1. CASE b = src /\ state = "loose"
    BY <1>5, <2>1, TransferStepCovers DEF src
  <2>2. CASE b = src /\ state = "posted"
    <3>1. /\ Worth(streams'[b]) \in Int
          /\ Worth(streams'[b]) + Double(state, b, t)
               >= Worth(streams[b]) + Double(transfers[t], b, t)
      BY <1>1, <1>8, <1>10, <1>18, <2>2
    <3>. QED
      BY <1>5, <3>1, TransferStepCovers
  <2>3. CASE b # src
    <3>1. Worth(streams[b]) \in Int /\ Worth(streams'[b]) \in Int
          /\ Worth(streams'[b]) >= Worth(streams[b])
      <4>1. CASE b = dst
        BY <1>1, <1>19, <4>1
      <4>2. CASE b # dst
        BY <1>7, <1>17, <2>3, <4>2, WorthInt
      <4>. QED
        BY <4>1, <4>2
    <3>2. Double(transfers[t], b, t) = 0 /\ Double(state, b, t) = 0
      BY <1>9, <2>3
    <3>3. Worth(streams'[b]) + Double(state, b, t)
            >= Worth(streams[b]) + Double(transfers[t], b, t)
      BY <3>1, <3>2
    <3>. QED
      BY <1>5, <3>1, <3>3, TransferStepCovers
  <2>. QED
    BY <1>4, <2>1, <2>2, <2>3
<1>24. Accounted'
  <2>. SUFFICES ASSUME NEW b \in AccountIDs, NEW r \in RequestIDs,
                       NEW u \in TransferIDs \cup {NoID}
                PROVE  Net(streams'[b], r, u)
                         = Corrected(requests'[r], b) + Done(transfers', b, u)
    BY DEF Accounted
  <2>1. /\ Net(streams[b], r, u) = Corrected(requests[r], b) + Done(transfers, b, u)
        /\ requests' = requests /\ Corrected(requests[r], b) \in Int
    BY <1>5, <1>7, RowBook DEF AdjustmentsInv, Accounted, TransferStep, TypeOK
  <2>2. CASE u # t
    <3>1. Done(transfers', b, u) = Done(transfers, b, u)
      BY <1>14, <2>2 DEF Done
    <3>2. Moved(u, t, -Total(t)) = 0 /\ Moved(u, t, amount) = 0
      BY <2>2 DEF Moved
    <3>3. Net(streams'[src], r, u) = Net(streams[src], r, u)
      BY <1>18, <3>2
    <3>4. Net(streams'[dst], r, u) = Net(streams[dst], r, u)
      BY <1>19, <3>2
    <3>5. Net(streams'[b], r, u) = Net(streams[b], r, u)
      BY <1>17, <3>3, <3>4
    <3>. QED
      BY <2>1, <3>1, <3>5
  <2>3. CASE u = t
    <3>1. Net(streams[b], r, t) = Corrected(requests[r], b)
      BY <1>16, <2>1, <2>3
    <3>2. CASE b = src
      <4>1. Net(streams'[b], r, t) = Net(streams[b], r, t) - Total(t)
        BY <1>1, <1>18, <3>2 DEF Moved
      <4>2. Done(transfers', b, t) = -Total(t)
        BY <1>1, <1>15, <3>2 DEF On
      <4>. QED
        BY <1>1, <2>1, <2>3, <3>1, <4>1, <4>2
    <3>3. CASE b = dst
      <4>1. Net(streams'[b], r, t) = Net(streams[b], r, t) + amount
        BY <1>1, <1>19, <3>3 DEF Moved
      <4>2. Done(transfers', b, t) = amount
        BY <1>1, <1>15, <3>3 DEF On
      <4>. QED
        BY <1>1, <2>1, <2>3, <3>1, <4>1, <4>2
    <3>4. CASE b # src /\ b # dst
      <4>1. Done(transfers', b, t) = 0
        BY <1>15, <3>4 DEF On
      <4>. QED
        BY <1>17, <2>1, <2>3, <3>1, <3>4, <4>1
    <3>. QED
      BY <3>2, <3>3, <3>4
  <2>. QED
    BY <2>2, <2>3
<1>. QED
    BY <1>22, <1>23, <1>24 DEF AdjustmentsInv

-----------------------------------------------------------------------------
(* Creating a request *)

(* A step that touches neither streams nor transfers nor rows. *)
LEMMA TablesKept ==
    ASSUME AdjustmentsInv, UNCHANGED <<streams, transfers, requests>>
    PROVE  EntriesSound' /\ OriginalsUnique' /\ Accounted' /\ DebitsAreCovered'
<1>1. EntriesSound' /\ OriginalsUnique' /\ Accounted'
    BY DEF AdjustmentsInv, EntriesSound, OriginalsUnique, Accounted
<1>2. \A a : UncheckedDebit(a)' <=> UncheckedDebit(a)
    BY DEF UncheckedDebit, Approved
<1>3. \A a : Available(a)' = Available(a) /\ CountedTwice(a)' = CountedTwice(a)
    BY TwiceSame DEF Available
<1>. QED
    BY <1>1, <1>2, <1>3 DEF AdjustmentsInv, DebitsAreCovered

LEMMA DraftKeeps ==
    ASSUME AdjustmentsInv, NEW d \in Admins, NEW q \in RequestRows,
           DraftSound(q, streams, transfers), Draft(d, q)
    PROVE  AdjustmentsInv'
<1>1. /\ drafts' = [drafts EXCEPT ![d] = q]
      /\ UNCHANGED <<streams, transfers, requests>>
    BY DEF Draft
<1>2. TypeOK'
    BY <1>1 DEF AdjustmentsInv, TypeOK, Waiting
<1>3. RequestsSound'
    BY <1>1 DEF AdjustmentsInv, RequestsSound, TypeOK
<1>. QED
    BY <1>1, <1>2, <1>3, TablesKept DEF AdjustmentsInv

LEMMA RequestType ==
    ASSUME NEW type \in {"manual", "reversal"}, NEW f, NEW d \in Admins,
           f.account \in AccountIDs, f.direction \in {"credit", "debit", "reversal"},
           f.amount \in Nat, f.fee \in Int, f.counterparty \in AccountIDs \cup {NoID},
           f.transfer \in TransferIDs \cup {NoID}, f.event \in EventNames
    PROVE  LET q == Request(type, f, d) IN
           /\ q \in RequestRows /\ q.type = type
           /\ q.account = f.account /\ q.direction = f.direction /\ q.amount = f.amount
           /\ q.fee = f.fee /\ q.counterparty = f.counterparty
           /\ q.transfer = f.transfer /\ q.event = f.event
           /\ q.status = "waiting_for_approval" /\ q.reviewedBy = NoID
BY DEF Request, RequestRows

LEMMA CreateManualKeeps ==
    ASSUME AdjustmentsInv, NEW d \in Admins, NEW f \in Forms, CreateManual(d, f)
    PROVE  AdjustmentsInv'
<1> DEFINE q == Request("manual", f, d)
<1>1. /\ f.account \in AccountIDs /\ f.direction \in {"credit", "debit", "reversal"}
      /\ f.amount \in Nat /\ f.fee \in Int /\ f.counterparty \in AccountIDs \cup {NoID}
      /\ f.transfer \in TransferIDs \cup {NoID} /\ f.event \in EventNames
    BY AdjustmentsAssumption DEF TransferIDs
<1>2. /\ q \in RequestRows /\ q.type = "manual"
      /\ q.status = "waiting_for_approval" /\ q.reviewedBy = NoID
    BY <1>1, RequestType
<1>3. Draft(d, q)
    BY DEF CreateManual
<1>. HIDE DEF q
<1>4. DraftSound(q, streams, transfers)
    BY <1>2 DEF DraftSound, RequestSound
<1>. QED
    BY <1>2, <1>3, <1>4, DraftKeeps

LEMMA CreateTransferReversalKeeps ==
    ASSUME AdjustmentsInv, NEW d \in Admins, NEW t \in TransferIDs, NEW ev \in EventNames,
           CreateTransferReversal(d, t, ev)
    PROVE  AdjustmentsInv'
<1>1. PICK o : o = Transfers[t]
    OBVIOUS
<1> DEFINE f == Form(o.src, "reversal", o.amount, o.fee, o.dst, t, ev)
           q == Request("reversal", f, d)
<1>2. o.src \in AccountIDs /\ o.dst \in AccountIDs /\ o.amount \in Nat /\ o.fee \in Nat
    BY <1>1, TransferFacts
<1>3. /\ f.account = o.src /\ f.direction = "reversal" /\ f.amount = o.amount
      /\ f.fee = o.fee /\ f.counterparty = o.dst /\ f.transfer = t /\ f.event = ev
    BY DEF Form
<1>4. Draft(d, q) /\ transfers[t] = "completed"
    BY <1>1 DEF CreateTransferReversal
<1>. HIDE DEF f
<1>5. /\ q \in RequestRows /\ q.type = "reversal" /\ q.account = f.account
      /\ q.amount = f.amount /\ q.fee = f.fee /\ q.counterparty = f.counterparty
      /\ q.transfer = f.transfer
      /\ q.status = "waiting_for_approval" /\ q.reviewedBy = NoID
    BY <1>2, <1>3, RequestType
<1>. HIDE DEF q
<1>6. q.transfer # NoID /\ TransferNamed(q, transfers)
    BY <1>1, <1>3, <1>4, <1>5, TransferFacts DEF TransferNamed
<1>7. DraftSound(q, streams, transfers)
    BY <1>5, <1>6 DEF DraftSound, RequestSound
<1>. QED
    BY <1>4, <1>5, <1>7, DraftKeeps

LEMMA CreateEventReversalKeeps ==
    ASSUME AdjustmentsInv, NEW d \in Admins, NEW a \in AccountIDs,
           NEW n \in DOMAIN streams[a], CreateEventReversal(d, a, n)
    PROVE  AdjustmentsInv'
<1>0. PICK e : e = streams[a][n]
    OBVIOUS
<1> DEFINE dir == IF e.type = "MoneyCredited" THEN "debit" ELSE "credit"
           amount == e.amount
           ev == EventAt(a, n)
           f == Form(a, dir, amount, 0, NoID, NoID, ev)
           q == Request("reversal", f, d)
<1>1. streams[a] \in Seq(Entries) /\ n \in 1..Len(streams[a]) /\ e \in Entries
    BY <1>0 DEF AdjustmentsInv, TypeOK
<1>2. /\ e.type \in {"MoneyCredited", "MoneyDebited"} /\ CustomerOriginated(e)
      /\ Draft(d, q)
    BY <1>0 DEF CreateEventReversal
<1>3. ev \in EventNames /\ ev.acct = a /\ ev.n = n
    BY <1>1 DEF EventNames, EventAt
<1>4. amount \in Nat /\ dir \in {"credit", "debit", "reversal"}
    BY <1>0, <1>1, <1>2 DEF AdjustmentsInv, EntriesSound, EntrySound
<1>. HIDE DEF ev
<1>5. /\ f.account = a /\ f.direction = dir /\ f.amount = amount /\ f.fee = 0
      /\ f.counterparty = NoID /\ f.transfer = NoID /\ f.event = ev
    BY DEF Form
<1>. HIDE DEF f
<1>6. /\ q \in RequestRows /\ q.account = a /\ q.direction = dir /\ q.amount = amount
      /\ q.transfer = NoID /\ q.event = ev
      /\ q.status = "waiting_for_approval" /\ q.reviewedBy = NoID
  <2>. HIDE DEF dir, amount
  <2>. QED
    BY <1>3, <1>4, <1>5, RequestType
<1>. HIDE DEF q
<1>7. EventNamed(q, streams)
    BY <1>0, <1>1, <1>2, <1>3, <1>6 DEF EventNamed
<1>8. DraftSound(q, streams, transfers)
    BY <1>6, <1>7 DEF DraftSound, RequestSound
<1>. QED
    BY <1>2, <1>6, <1>8, DraftKeeps

LEMMA DropDraftKeeps ==
    ASSUME AdjustmentsInv, NEW d \in Admins, DropDraft(d)
    PROVE  AdjustmentsInv'
<1>1. /\ drafts' = [drafts EXCEPT ![d] = NoID]
      /\ UNCHANGED <<streams, transfers, requests>>
    BY DEF DropDraft
<1>2. TypeOK'
    BY <1>1 DEF AdjustmentsInv, TypeOK, Waiting
<1>3. RequestsSound'
    BY <1>1 DEF AdjustmentsInv, RequestsSound, TypeOK
<1>. QED
    BY <1>1, <1>2, <1>3, TablesKept DEF AdjustmentsInv

(* The insert: the unique indexes are looked at as the row is written. *)
LEMMA InsertRequestKeeps ==
    ASSUME AdjustmentsInv, NEW d \in Admins, InsertRequest(d)
    PROVE  AdjustmentsInv'
<1>1. /\ drafts[d] # NoID /\ drafts' = [drafts EXCEPT ![d] = NoID]
      /\ UNCHANGED <<streams, transfers>>
    BY DEF InsertRequest
<1>2. CASE UNCHANGED requests
  <2>1. TypeOK'
    BY <1>1, <1>2 DEF AdjustmentsInv, TypeOK, Waiting
  <2>2. RequestsSound'
    BY <1>1, <1>2 DEF AdjustmentsInv, RequestsSound, TypeOK
  <2>. QED
    BY <1>1, <1>2, <2>1, <2>2, TablesKept DEF AdjustmentsInv
<1>3. ASSUME ~Taken(drafts[d]), NEW r \in RequestIDs, requests[r] = Absent,
             requests' = [requests EXCEPT ![r] = drafts[d]]
      PROVE  AdjustmentsInv'
  <2>1. PICK q : q = drafts[d]
    OBVIOUS
  <2>2. /\ q \in RequestRows /\ DraftSound(q, streams, transfers)
        /\ requests'[r] = q /\ \A s \in RequestIDs : s # r => requests'[s] = requests[s]
    BY <1>1, <1>3, <2>1 DEF AdjustmentsInv, RequestsSound, TypeOK
  <2>3. /\ q.status = "waiting_for_approval" /\ q.reviewedBy = NoID
        /\ RequestSound(q, streams, transfers)
    BY <2>2 DEF DraftSound
  <2>4. TypeOK'
    <3>1. requests' \in [RequestIDs -> {Absent} \cup RequestRows]
      BY <1>3, <2>1, <2>2 DEF AdjustmentsInv, TypeOK
    <3>2. \A s \in RequestIDs : requests'[s] # Absent =>
            ((requests'[s].reviewedBy = NoID) <=> (requests'[s].status = "waiting_for_approval"))
      BY <2>2, <2>3 DEF AdjustmentsInv, TypeOK, Waiting
    <3>. QED
      BY <1>1, <3>1, <3>2 DEF AdjustmentsInv, TypeOK, Waiting
  <2>5. EntriesSound'
    BY <1>1 DEF AdjustmentsInv, EntriesSound
  <2>6. DebitsAreCovered'
    <3>1. \A s \in RequestIDs : requests'[s].status = "approved" <=> requests[s].status = "approved"
      BY <1>3, <2>2, <2>3 DEF Absent
    <3>2. \A s \in RequestIDs : requests[s].status = "approved" => requests'[s] = requests[s]
      BY <1>3, <2>2 DEF Absent
    <3>3. \A a : UncheckedDebit(a) => UncheckedDebit(a)'
      BY <1>1, <3>1, <3>2 DEF UncheckedDebit, Approved
    <3>4. \A a : Available(a)' = Available(a) /\ CountedTwice(a)' = CountedTwice(a)
      BY <1>1, TwiceSame DEF Available
    <3>. QED
      BY <3>3, <3>4 DEF AdjustmentsInv, DebitsAreCovered
  <2>7. RequestsSound'
    BY <1>1, <2>2, <2>3 DEF AdjustmentsInv, RequestsSound, TypeOK
  <2>8. OriginalsUnique'
    <3>1. /\ q.transfer = NoID \/ \A s \in RequestIDs :
                requests[s].transfer = q.transfer => requests[s].status = "rejected"
          /\ q.event = NoEvent \/ \A s \in RequestIDs :
                requests[s].event = q.event => requests[s].status = "rejected"
      BY <1>3, <2>1 DEF Taken, ActiveTransfer, ActiveEvent
    <3>. QED
      BY <2>2, <3>1 DEF AdjustmentsInv, OriginalsUnique
  <2>9. Accounted'
    <3>1. \A s \in RequestIDs, a \in AccountIDs :
             Corrected(requests'[s], a) = Corrected(requests[s], a)
      <4>1. \A a : Corrected(q, a) = 0 /\ Corrected(Absent, a) = 0
        BY <2>3 DEF Corrected, Absent
      <4>. QED
        BY <1>3, <2>2, <4>1
    <3>. QED
      BY <1>1, <3>1 DEF AdjustmentsInv, Accounted
  <2>. QED
    BY <2>4, <2>5, <2>6, <2>7, <2>8, <2>9 DEF AdjustmentsInv
<1>. QED
    BY <1>2, <1>3 DEF InsertRequest

-----------------------------------------------------------------------------
(* Reviewing a request *)

LEMMA ReviewFacts ==
    ASSUME TypeOK, NEW d \in Admins, NEW r \in RequestIDs, MayReview(d, r),
           NEW status \in {"approved", "rejected"}, Reviewed(r, d, status)
    PROVE  /\ requests[r] \in RequestRows /\ requests[r] # Absent
           /\ requests[r].status = "waiting_for_approval"
           /\ requests' \in [RequestIDs -> {Absent} \cup RequestRows]
           /\ \A s \in RequestIDs : s # r => requests'[s] = requests[s]
           /\ requests'[r].status = status /\ requests'[r].reviewedBy = d
           /\ \A s \in RequestIDs : Alike(requests[s], requests'[s])
           /\ \A a : Ordered(requests'[r], a) = Ordered(requests[r], a)
           /\ \A s \in RequestIDs : requests'[s] # Absent =>
                 ((requests'[s].reviewedBy = NoID)
                     <=> (requests'[s].status = "waiting_for_approval"))
<1>1. requests[r].status = "waiting_for_approval"
    BY DEF MayReview, Waiting
<1>2. requests[r] # Absent
    BY <1>1 DEF Absent
<1>3. requests[r] \in RequestRows
    BY <1>2 DEF TypeOK
<1>4. /\ requests' = [requests EXCEPT ![r] =
                         [requests[r] EXCEPT !.status = status, !.reviewedBy = d]]
      /\ requests \in [RequestIDs -> {Absent} \cup RequestRows]
    BY DEF Reviewed, TypeOK
<1>5. PICK p : p = [requests[r] EXCEPT !.status = status, !.reviewedBy = d]
    OBVIOUS
<1>6. /\ p \in RequestRows /\ p.status = status /\ p.reviewedBy = d
      /\ p.type = requests[r].type /\ p.account = requests[r].account
      /\ p.direction = requests[r].direction /\ p.amount = requests[r].amount
      /\ p.fee = requests[r].fee /\ p.counterparty = requests[r].counterparty
      /\ p.transfer = requests[r].transfer /\ p.event = requests[r].event
    BY <1>3, <1>5 DEF RequestRows
<1>7. /\ requests' = [requests EXCEPT ![r] = p] /\ requests'[r] = p
      /\ \A s \in RequestIDs : s # r => requests'[s] = requests[s]
    BY <1>4, <1>5
<1>8. requests' \in [RequestIDs -> {Absent} \cup RequestRows]
    BY <1>4, <1>6, <1>7
<1>9. \A s \in RequestIDs : Alike(requests[s], requests'[s])
    BY <1>1, <1>2, <1>6, <1>7 DEF Alike
<1>10. \A a : Ordered(requests'[r], a) = Ordered(requests[r], a)
    BY <1>6, <1>7 DEF Ordered
<1>11. d # NoID /\ status # "waiting_for_approval"
    BY AdjustmentsAssumption
<1>12. ASSUME NEW s \in RequestIDs, requests'[s] # Absent
       PROVE  (requests'[s].reviewedBy = NoID)
                 <=> (requests'[s].status = "waiting_for_approval")
    BY <1>6, <1>7, <1>11, <1>12 DEF TypeOK, Waiting
<1>. QED
    BY <1>1, <1>2, <1>3, <1>6, <1>7, <1>8, <1>9, <1>10, <1>12

LEMMA RejectAdjustmentKeeps ==
    ASSUME AdjustmentsInv, NEW d \in Admins, NEW r \in RequestIDs, RejectAdjustment(d, r)
    PROVE  AdjustmentsInv'
<1>1. /\ MayReview(d, r) /\ Reviewed(r, d, "rejected") /\ TypeOK
      /\ UNCHANGED <<streams, transfers, drafts>>
    BY DEF RejectAdjustment, AdjustmentsInv
<1>2. /\ requests' \in [RequestIDs -> {Absent} \cup RequestRows]
      /\ \A s \in RequestIDs : s # r => requests'[s] = requests[s]
      /\ requests[r].status = "waiting_for_approval" /\ requests'[r].status = "rejected"
      /\ \A s \in RequestIDs : Alike(requests[s], requests'[s])
      /\ \A s \in RequestIDs : requests'[s] # Absent =>
            ((requests'[s].reviewedBy = NoID)
                <=> (requests'[s].status = "waiting_for_approval"))
    BY <1>1, ReviewFacts
<1>3. TypeOK'
    BY <1>1, <1>2 DEF TypeOK, Waiting
<1>4. EntriesSound' /\ RequestsSound' /\ OriginalsUnique'
  <2>1. StreamsKept
    BY <1>1, GrowsSame DEF StreamsKept, TypeOK
  <2>. QED
    BY <1>1, <1>2, <2>1, RowsKept DEF AdjustmentsInv
<1>5. DebitsAreCovered'
  <2>1. \A a : Available(a)' = Available(a) /\ CountedTwice(a)' = CountedTwice(a)
    BY <1>1, TwiceSame DEF Available
  <2>2. \A a \in AccountIDs : UncheckedDebit(a)' \/ Available(a)' + CountedTwice(a)' >= 0
    BY <1>1, <1>2, <2>1, CoverLasts
  <2>. QED
    BY <2>2 DEF DebitsAreCovered
<1>6. Accounted'
  <2>1. \A s \in RequestIDs, a \in AccountIDs :
           Corrected(requests'[s], a) = Corrected(requests[s], a)
    BY <1>2 DEF Corrected
  <2>. QED
    BY <1>1, <2>1 DEF AdjustmentsInv, Accounted
<1>. QED
    BY <1>3, <1>4, <1>5, <1>6 DEF AdjustmentsInv

(* The fee of a manual request may make what it credits a debit. *)
Overdraws(q, a) ==
    q.type = "manual" /\ q.transfer # NoID /\ q.account = a /\ Refund(q) < 0

(* What an approval owes: the streams move by what the request says, and   *)
(* what it debits was compared with what is available, or nobody checks it.*)
Settles(r) ==
    /\ streams' \in [AccountIDs -> Seq(Entries)]
    /\ \A b \in AccountIDs : Grows(streams[b], streams'[b])
    /\ \A b \in AccountIDs :
          /\ Worth(streams'[b]) \in Int
          /\ \/ Worth(streams'[b]) >= 0
             \/ Worth(streams'[b]) >= Worth(streams[b])
             \/ Overdraws(requests[r], b)
    /\ \A b \in AccountIDs, s \in RequestIDs, u \in TransferIDs \cup {NoID} :
          /\ Net(streams'[b], s, u) =
                Net(streams[b], s, u) + Moved(s, r, Ordered(requests[r], b))
          /\ Net(streams[b], s, u) \in Int

LEMMA SettledCovers ==
    ASSUME AdjustmentsInv, NEW r \in RequestIDs, requests'[r].status = "approved",
           requests[r] # Absent, \A s \in RequestIDs : Alike(requests[s], requests'[s]),
           requests[r].status = "waiting_for_approval",
           UNCHANGED transfers, Settles(r), NEW b \in AccountIDs
    PROVE  UncheckedDebit(b)' \/ Available(b)' + CountedTwice(b)' >= 0
<1>1. /\ Available(b) = Worth(streams[b]) /\ Available(b)' = Worth(streams'[b])
      /\ Worth(streams[b]) \in Int /\ TypeOK
    BY WorthIsAvailable, WorthInt DEF AdjustmentsInv
<1>2. CountedTwice(b)' = CountedTwice(b) /\ CountedTwice(b) \in Nat
    BY TwiceSame, TwiceNat
<1>3. CASE Overdraws(requests[r], b)
  <2>1. /\ requests'[r].type = requests[r].type /\ requests'[r].account = requests[r].account
        /\ requests'[r].amount = requests[r].amount /\ requests'[r].fee = requests[r].fee
        /\ requests'[r].transfer = requests[r].transfer
    BY DEF Alike
  <2>. QED
    BY <1>3, <2>1 DEF Overdraws, UncheckedDebit, Approved, Refund
<1>4. CASE UncheckedDebit(b)
    BY <1>1, <1>4, UncheckedStays
<1>5. CASE ~UncheckedDebit(b) /\ ~Overdraws(requests[r], b)
  <2>1. Available(b) + CountedTwice(b) >= 0
    BY <1>5 DEF AdjustmentsInv, DebitsAreCovered
  <2>2. /\ Worth(streams'[b]) \in Int
        /\ Worth(streams'[b]) >= 0 \/ Worth(streams'[b]) >= Worth(streams[b])
    BY <1>5 DEF Settles
  <2>. QED
    BY <1>1, <1>2, <2>1, <2>2
<1>. QED
    BY <1>3, <1>4, <1>5

LEMMA SettledKeeps ==
    ASSUME AdjustmentsInv, NEW d \in Admins, NEW r \in RequestIDs, MayReview(d, r),
           Reviewed(r, d, "approved"), UNCHANGED <<transfers, drafts>>, Settles(r)
    PROVE  AdjustmentsInv'
<1>1. TypeOK
    BY DEF AdjustmentsInv
<1>2. /\ requests' \in [RequestIDs -> {Absent} \cup RequestRows] /\ requests[r] # Absent
      /\ \A s \in RequestIDs : s # r => requests'[s] = requests[s]
      /\ requests[r].status = "waiting_for_approval" /\ requests'[r].status = "approved"
      /\ \A a : Ordered(requests'[r], a) = Ordered(requests[r], a)
      /\ \A s \in RequestIDs : Alike(requests[s], requests'[s])
      /\ \A s \in RequestIDs : requests'[s] # Absent =>
            ((requests'[s].reviewedBy = NoID)
                <=> (requests'[s].status = "waiting_for_approval"))
    BY <1>1, ReviewFacts
<1>3. TypeOK'
    BY <1>1, <1>2 DEF TypeOK, Waiting, Settles
<1>4. EntriesSound' /\ RequestsSound' /\ OriginalsUnique'
  <2>1. StreamsKept
    BY DEF StreamsKept, Settles
  <2>. QED
    BY <1>2, <2>1, RowsKept DEF AdjustmentsInv
<1>5. DebitsAreCovered'
  <2>1. \A b \in AccountIDs : UncheckedDebit(b)' \/ Available(b)' + CountedTwice(b)' >= 0
    BY <1>2, SettledCovers
  <2>. QED
    BY <2>1 DEF DebitsAreCovered
<1>6. Accounted'
  <2>. SUFFICES ASSUME NEW b \in AccountIDs, NEW s \in RequestIDs,
                       NEW u \in TransferIDs \cup {NoID}
                PROVE  Net(streams'[b], s, u)
                         = Corrected(requests'[s], b) + Done(transfers, b, u)
    BY DEF Accounted
  <2>1. Net(streams[b], s, u) = Corrected(requests[s], b) + Done(transfers, b, u)
    BY DEF AdjustmentsInv, Accounted
  <2>2. /\ Net(streams'[b], s, u) =
              Net(streams[b], s, u) + Moved(s, r, Ordered(requests[r], b))
        /\ Net(streams[b], s, u) \in Int
    BY DEF Settles
  <2>3. CASE s # r
    BY <1>2, <2>1, <2>2, <2>3 DEF Moved
  <2>4. CASE s = r
    <3>1. Corrected(requests[r], b) = 0
      BY <1>2 DEF Corrected
    <3>2. Corrected(requests'[r], b) = Ordered(requests[r], b)
      BY <1>2 DEF Corrected
    <3>3. Done(transfers, b, u) \in Int
      BY TransferFacts DEF Done
    <3>4. Ordered(requests[r], b) \in Int
      BY <1>2, <3>2, RowBook
    <3>5. Net(streams'[b], s, u) = Done(transfers, b, u) + Ordered(requests[r], b)
      BY <2>1, <2>2, <2>4, <3>1, <3>3 DEF Moved
    <3>. QED
      BY <2>4, <3>2, <3>3, <3>4, <3>5
  <2>. QED
    BY <2>3, <2>4
<1>. QED
    BY <1>3, <1>4, <1>5, <1>6 DEF AdjustmentsInv

(* An event of request r counts in the books of r and in no other. *)
LEMMA RequestMoney ==
    ASSUME NEW e, NEW r \in RequestIDs, e.adjustment = r, e.transfer = NoID,
           NEW s \in RequestIDs, NEW u \in TransferIDs \cup {NoID}
    PROVE  Weight(e, s, u) = Moved(s, r, Effect(e))
BY DEF Weight, Moved

(* What is known after request r moved k on account a: the books of r on   *)
(* a, and no other, tell so.                                               *)
RequestAdded(f, g, r, a, k) ==
    /\ g \in [AccountIDs -> Seq(Entries)]
    /\ \A b \in AccountIDs : Grows(f[b], g[b])
    /\ \A b \in AccountIDs : b # a => g[b] = f[b]
    /\ Worth(g[a]) = Worth(f[a]) + k /\ Worth(f[a]) \in Int /\ k \in Int
    /\ \A b \in AccountIDs, s \in RequestIDs, u \in TransferIDs \cup {NoID} :
          /\ Net(g[b], s, u) = Net(f[b], s, u) + Moved(s, r, On(b, a, k))
          /\ Net(f[b], s, u) \in Int

LEMMA RequestEvent ==
    ASSUME NEW f \in [AccountIDs -> Seq(Entries)], NEW r \in RequestIDs,
           NEW a \in AccountIDs, NEW m \in Int, NEW type, NEW k,
           (type = "MoneyCredited" /\ k = m) \/ (type = "MoneyDebited" /\ k = -m),
           NEW g, g = Added(f, a, Entry(type, m, NoID, r))
    PROVE  RequestAdded(f, g, r, a, k)
<1> DEFINE e == Entry(type, m, NoID, r)
<1>1. /\ e \in Entries /\ e.type = type /\ e.amount = m
      /\ e.transfer = NoID /\ e.adjustment = r
    BY DEF Entry, Entries, EventTypes
<1>2. r # NoID
    BY AdjustmentsAssumption
<1>3. g = Added(f, a, e)
    OBVIOUS
<1>. HIDE DEF e
<1>4. EntrySound(e) /\ Gain(e) = k /\ Effect(e) = k /\ k \in Int /\ e.type # "AccountOpened"
    BY <1>1, <1>2 DEF EntrySound, CustomerOriginated, Gain, Effect
<1>5. EventAdded(f, g, a, e)
    BY <1>1, <1>3, <1>4, OneEvent
<1>6. ASSUME NEW b \in AccountIDs, NEW s \in RequestIDs, NEW u \in TransferIDs \cup {NoID}
      PROVE  /\ Net(g[b], s, u) = Net(f[b], s, u) + Moved(s, r, On(b, a, k))
             /\ Net(f[b], s, u) \in Int
  <2>1. CASE b = a
    <3>1. Weight(e, s, u) = Moved(s, r, On(b, a, k))
      BY <1>1, <1>4, <2>1, RequestMoney DEF On
    <3>. QED
      BY <1>5, <2>1, <3>1 DEF EventAdded
  <2>2. CASE b # a
    <3>1. Moved(s, r, On(b, a, k)) = 0 /\ g[b] = f[b]
      BY <1>5, <2>2 DEF Moved, On, EventAdded
    <3>2. Net(f[b], s, u) \in Int
      BY NetInt
    <3>. QED
      BY <3>1, <3>2
  <2>. QED
    BY <2>1, <2>2
<1>. QED
    BY <1>4, <1>5, <1>6 DEF EventAdded, RequestAdded

(* A correction of one account. *)
LEMMA CorrectionSettles ==
    ASSUME AdjustmentsInv, NEW r \in RequestIDs, requests[r] \in RequestRows,
           requests[r].transfer = NoID, Adjust(r)
    PROVE  Settles(r)
<1>1. PICK q : q = requests[r]
    OBVIOUS
<1>2. PICK type : type = IF q.direction = "credit" THEN "MoneyCredited" ELSE "MoneyDebited"
    OBVIOUS
<1>3. PICK k : k = IF type = "MoneyCredited" THEN q.amount ELSE -q.amount
    OBVIOUS
<1>4. /\ q.account \in AccountIDs /\ q.amount \in Nat /\ q.amount \in Int
      /\ type \in {"MoneyCredited", "MoneyDebited"} /\ TypeOK
      /\ streams \in [AccountIDs -> Seq(Entries)]
    BY <1>1, <1>2 DEF RequestRows, AdjustmentsInv, TypeOK
<1>5. streams' = Added(streams, q.account, Entry(type, q.amount, NoID, r))
    BY <1>1, <1>2 DEF Adjust, Added
<1>6. RequestAdded(streams, streams', r, q.account, k)
  <2>1. \/ type = "MoneyCredited" /\ k = q.amount
        \/ type = "MoneyDebited" /\ k = -q.amount
    <3>1. CASE q.direction = "credit"
      BY <1>2, <1>3, <3>1
    <3>2. CASE q.direction # "credit"
      BY <1>2, <1>3, <3>2
    <3>. QED
      BY <3>1, <3>2
  <2>. QED
    BY <1>4, <1>5, <2>1, RequestEvent
<1>7. \A b \in AccountIDs : Ordered(q, b) = On(b, q.account, k)
    BY <1>1, <1>2, <1>3 DEF Ordered
<1>8. \/ k >= 0
      \/ Worth(streams[q.account]) + k >= 0
  <2>1. CASE q.direction = "credit"
    BY <1>2, <1>3, <1>4, <2>1
  <2>2. CASE q.direction # "credit"
    <3>1. Covered(q.account, q.amount)
      BY <1>1, <2>2 DEF Adjust
    <3>2. Worth(streams[q.account]) >= q.amount
      BY <3>1, WorthIsAvailable DEF Covered
    <3>3. k = -q.amount
      BY <1>2, <1>3, <2>2
    <3>. QED
      BY <1>4, <1>6, <3>2, <3>3 DEF RequestAdded
  <2>. QED
    BY <2>1, <2>2
<1>9. ASSUME NEW b \in AccountIDs
      PROVE  /\ Worth(streams'[b]) \in Int
             /\ Worth(streams'[b]) >= 0 \/ Worth(streams'[b]) >= Worth(streams[b])
  <2>1. k \in Int
    BY <1>3, <1>4
  <2>2. CASE b = q.account
    BY <1>6, <1>8, <2>1, <2>2 DEF RequestAdded
  <2>3. CASE b # q.account
    BY <1>4, <1>6, <2>3, WorthInt DEF RequestAdded
  <2>. QED
    BY <2>2, <2>3
<1>. QED
    BY <1>1, <1>6, <1>7, <1>9 DEF Settles, RequestAdded

(* A request that names a transfer: the counterparty is debited, then the  *)
(* account credited.  The two may be one account.                          *)
LEMMA ReversalSettles ==
    ASSUME AdjustmentsInv, NEW r \in RequestIDs, requests[r] \in RequestRows,
           requests[r] # Absent, requests[r].transfer # NoID, Adjust(r)
    PROVE  Settles(r)
<1>1. PICK q : q = requests[r]
    OBVIOUS
<1>2. PICK a, c, m, k : a = q.account /\ c = q.counterparty /\ m = q.amount /\ k = Refund(q)
    OBVIOUS
<1>3. /\ Covered(c, m)
      /\ streams' = Added(Added(streams, c, Entry("MoneyDebited", m, NoID, r)),
                          a, Entry("MoneyCredited", k, NoID, r))
    BY <1>1, <1>2 DEF Adjust, Added
<1>4. /\ a \in AccountIDs /\ m \in Nat /\ m \in Int /\ k \in Int /\ TypeOK
      /\ streams \in [AccountIDs -> Seq(Entries)]
    BY <1>1, <1>2 DEF RequestRows, AdjustmentsInv, TypeOK, Refund
<1>5. c \in AccountIDs /\ Worth(streams[c]) >= m
    BY <1>3, WorthIsAvailable DEF Covered
<1>6. k >= 0 \/ Overdraws(q, a)
  <2>1. CASE q.type = "manual"
    BY <1>1, <1>2, <1>4, <2>1 DEF Overdraws
  <2>2. CASE q.type = "reversal"
    <3>1. q.transfer \in TransferIDs /\ TransferNamed(q, transfers)
      BY <1>1, <2>2 DEF AdjustmentsInv, RequestsSound, RequestSound, RequestRows
    <3>2. k = Transfers[q.transfer].amount + Transfers[q.transfer].fee
      BY <1>2, <3>1 DEF TransferNamed, Refund
    <3>. QED
      BY <3>1, <3>2, TransferFacts
  <2>. QED
    BY <1>1, <2>1, <2>2 DEF RequestRows
<1>7. \A b \in AccountIDs : Ordered(q, b) = On(b, a, k) - On(b, c, m)
    BY <1>1, <1>2 DEF Ordered, Refund
<1>8. PICK g : g = Added(streams, c, Entry("MoneyDebited", m, NoID, r))
    OBVIOUS
<1>9. PICK n : n = -m
    OBVIOUS
<1>10. RequestAdded(streams, g, r, c, n)
    BY <1>4, <1>5, <1>8, <1>9, RequestEvent
<1>11. RequestAdded(g, streams', r, a, k)
  <2>1. g \in [AccountIDs -> Seq(Entries)]
    BY <1>10 DEF RequestAdded
  <2>2. streams' = Added(g, a, Entry("MoneyCredited", k, NoID, r))
    BY <1>3, <1>8
  <2>. QED
    BY <1>4, <2>1, <2>2, RequestEvent
<1>12. \A b \in AccountIDs : Grows(streams[b], streams'[b])
    BY <1>10, <1>11, GrowsFurther DEF RequestAdded
<1>13. ASSUME NEW b \in AccountIDs
       PROVE  /\ Worth(g[b]) \in Int /\ Worth(streams[b]) \in Int
              /\ Worth(g[b]) >= 0 \/ Worth(g[b]) = Worth(streams[b])
  <2>1. CASE b = c
    BY <1>4, <1>5, <1>9, <1>10, <2>1 DEF RequestAdded
  <2>2. CASE b # c
    BY <1>4, <1>10, <2>2, WorthInt DEF RequestAdded
  <2>. QED
    BY <2>1, <2>2
<1>14. ASSUME NEW b \in AccountIDs
       PROVE  /\ Worth(streams'[b]) \in Int
              /\ \/ Worth(streams'[b]) >= 0
                 \/ Worth(streams'[b]) >= Worth(streams[b])
                 \/ Overdraws(q, b)
  <2>1. CASE b = a
    <3>1. Worth(streams'[b]) = Worth(g[b]) + k
      BY <1>11, <2>1 DEF RequestAdded
    <3>2. CASE k >= 0
      BY <1>4, <1>13, <3>1, <3>2
    <3>3. CASE Overdraws(q, a)
      BY <1>4, <1>13, <2>1, <3>1, <3>3
    <3>. QED
      BY <1>6, <3>2, <3>3
  <2>2. CASE b # a
    <3>1. streams'[b] = g[b]
      BY <1>11, <2>2 DEF RequestAdded
    <3>. QED
      BY <1>13, <3>1
  <2>. QED
    BY <2>1, <2>2
<1>15. ASSUME NEW b \in AccountIDs, NEW s \in RequestIDs, NEW u \in TransferIDs \cup {NoID}
       PROVE  /\ Net(streams'[b], s, u) = Net(streams[b], s, u) + Moved(s, r, Ordered(q, b))
              /\ Net(streams[b], s, u) \in Int
  <2>1. /\ Net(g[b], s, u) = Net(streams[b], s, u) + Moved(s, r, On(b, c, n))
        /\ Net(streams'[b], s, u) = Net(g[b], s, u) + Moved(s, r, On(b, a, k))
        /\ Net(streams[b], s, u) \in Int
    BY <1>10, <1>11 DEF RequestAdded
  <2>2. Moved(s, r, On(b, c, n)) + Moved(s, r, On(b, a, k)) = Moved(s, r, Ordered(q, b))
    BY <1>4, <1>7, <1>9 DEF Moved, On
  <2>3. Moved(s, r, On(b, c, n)) \in Int /\ Moved(s, r, On(b, a, k)) \in Int
    BY <1>4, <1>9 DEF Moved, On
  <2>. QED
    BY <2>1, <2>2, <2>3
<1>. QED
    BY <1>1, <1>11, <1>12, <1>14, <1>15 DEF Settles, RequestAdded

LEMMA ApproveAdjustmentKeeps ==
    ASSUME AdjustmentsInv, NEW d \in Admins, NEW r \in RequestIDs, ApproveAdjustment(d, r)
    PROVE  AdjustmentsInv'
<1>1. /\ MayReview(d, r) /\ Reviewed(r, d, "approved") /\ UNCHANGED <<transfers, drafts>>
      /\ Adjust(r) /\ TypeOK
    BY DEF ApproveAdjustment, AdjustmentsInv
<1>2. requests[r] \in RequestRows /\ requests[r] # Absent
    BY <1>1, ReviewFacts
<1>3. Settles(r)
    BY <1>1, <1>2, ReversalSettles, CorrectionSettles
<1>. QED
    BY <1>1, <1>3, SettledKeeps

-----------------------------------------------------------------------------
(* The invariant *)

LEMMA Opening ==
    ASSUME NEW e \in Entries, e.type = "AccountOpened"
    PROVE  Worth(<<e>>) = e.amount /\ \A r, t : Net(<<e>>, r, t) = 0
<1>1. <<>> \in Seq(Entries) /\ Len(<<>>) = 0 /\ Append(<<>>, e) = <<e>>
    OBVIOUS
<1>2. Worth(<<e>>) = e.amount
  <2>1. /\ AllFoldable(<<>>, 1..Len(<<>>)) /\ Foldable(e) /\ NoAccount \in Accounts
    BY <1>1, EntriesFold, EffectInt
  <2>2. FoldLeft(Fold, NoAccount, <<e>>) = Fold(FoldLeft(Fold, NoAccount, <<>>), e)
    BY <1>1, <2>1, FoldOfAppend
  <2>3. FoldLeft(Fold, NoAccount, <<e>>) = Fold(NoAccount, e)
    BY <2>1, <2>2, FoldOfNothing
  <2>4. AvailableBalance(Fold(NoAccount, e)) = e.amount
    BY DEF AvailableBalance, Fold, NoAccount, Entries
  <2>. QED
    BY <2>3, <2>4 DEF Worth
<1>3. ASSUME NEW r, NEW t PROVE Net(<<e>>, r, t) = 0
  <2>1. Net(<<e>>, r, t) = Net(<<>>, r, t) + Weight(e, r, t)
    BY <1>1, NetOfAppend
  <2>2. Weight(e, r, t) = 0
    BY DEF Weight, Effect
  <2>3. Net(<<>>, r, t) = SumFunctionOnSet(Weights(<<>>, r, t), 1..0)
    BY <1>1, NetIsSum
  <2>4. Net(<<>>, r, t) = 0
    <3>1. 1..0 = {}
      OBVIOUS
    <3>. QED
      BY <2>3, <3>1, SumEmpty
  <2>. QED
    BY <2>1, <2>2, <2>4
<1>. QED
    BY <1>2, <1>3

LEMMA AdjustmentsInit == Init => AdjustmentsInv
<1>. SUFFICES ASSUME Init PROVE AdjustmentsInv
    OBVIOUS
<1> DEFINE e == Entry("AccountOpened", OpeningBalance, NoID, NoID)
<1>1. /\ e \in Entries /\ e.type = "AccountOpened" /\ e.amount = OpeningBalance
      /\ e.transfer = NoID /\ e.adjustment = NoID
  <2>1. OpeningBalance \in Nat /\ OpeningBalance \in Int
    BY AdjustmentsAssumption
  <2>. QED
    BY <2>1 DEF Entry, Entries, EventTypes
<1>2. /\ streams = [a \in AccountIDs |-> <<e>>]
      /\ \A t \in TransferIDs : transfers[t] = "none"
      /\ \A r \in RequestIDs : requests[r] = Absent
      /\ \A d \in Admins : drafts[d] = NoID
    BY DEF Init
<1>. HIDE DEF e
<1>3. TypeOK
    BY <1>1, <1>2 DEF Init, TypeOK, TransferStates
<1>4. EntriesSound
    BY <1>1, <1>2, AdjustmentsAssumption DEF EntriesSound, EntrySound
<1>5. DebitsAreCovered
  <2>1. Worth(<<e>>) \in Nat
    BY <1>1, Opening, AdjustmentsAssumption
  <2>2. \A a \in AccountIDs : Available(a) \in Nat /\ CountedTwice(a) \in Nat
    BY <1>2, <2>1, WorthIsAvailable, TwiceNat
  <2>. QED
    BY <2>2 DEF DebitsAreCovered
<1>6. RequestsSound
    BY <1>2 DEF RequestsSound
<1>7. OriginalsUnique
    BY <1>2 DEF OriginalsUnique, Absent
<1>8. Accounted
  <2>1. \A r, t : Net(<<e>>, r, t) = 0
    BY <1>1, Opening
  <2>2. \A a : Corrected(Absent, a) = 0
    BY DEF Corrected, Absent
  <2>3. \A a \in AccountIDs, t \in TransferIDs \cup {NoID} : Done(transfers, a, t) = 0
    BY <1>2 DEF Done, Posted
  <2>. QED
    BY <1>2, <2>1, <2>2, <2>3 DEF Accounted
<1>. QED
    BY <1>3, <1>4, <1>5, <1>6, <1>7, <1>8 DEF AdjustmentsInv

LEMMA AdjustmentsStep == AdjustmentsInv /\ [Next]_vars => AdjustmentsInv'
<1>. SUFFICES ASSUME AdjustmentsInv, [Next]_vars PROVE AdjustmentsInv'
    OBVIOUS
<1>1. CASE Customer
    BY <1>1, DepositKeeps, WithdrawKeeps, HoldTransferKeeps, PostTransferKeeps,
       CaptureTransferKeeps, ReleaseTransferKeeps, CompleteTransferKeeps DEF Customer
<1>2. ASSUME NEW d \in Admins, Maker(d) PROVE AdjustmentsInv'
  <2>1. \A f \in Forms : f.event \in EventNames
    BY AdjustmentsAssumption
  <2>. QED
    BY <1>2, <2>1, CreateManualKeeps, CreateTransferReversalKeeps, CreateEventReversalKeeps,
       InsertRequestKeeps, DropDraftKeeps DEF Maker
<1>3. ASSUME NEW d \in Admins, Checker(d) PROVE AdjustmentsInv'
    BY <1>3, ApproveAdjustmentKeeps, RejectAdjustmentKeeps DEF Checker
<1>4. CASE UNCHANGED vars
  <2>1. TypeOK' /\ RequestsSound'
    BY <1>4 DEF vars, AdjustmentsInv, TypeOK, Waiting, RequestsSound
  <2>. QED
    BY <1>4, <2>1, TablesKept DEF vars, AdjustmentsInv
<1>. QED
    BY <1>1, <1>2, <1>3, <1>4 DEF Next

(* The inductive invariant holds throughout: a reversal, row or draft,     *)
(* says the truth about the event or transfer it is for, at most one       *)
(* request of either type that is not rejected names a transfer or event,  *)
(* what every request and every transfer has moved on every account is     *)
(* what its row says, and debits are covered, whatever clients write in    *)
(* manual requests and however far their transfers are (CreateAdjustment,  *)
(* ApproveAdjustment, RejectAdjustment, PostTransferLedger).               *)
THEOREM AdjustmentsInvariant == Spec => []AdjustmentsInv
BY AdjustmentsInit, AdjustmentsStep, PTL DEF Spec

(* Streams, transfers, requests and drafts keep their types; a request has *)
(* a reviewer exactly when it is no longer waiting (ApproveAdjustment,     *)
(* RejectAdjustment).                                                      *)
THEOREM AdjustmentsTypeCorrect == Spec => []TypeOK
<1>1. AdjustmentsInv => TypeOK
    BY DEF AdjustmentsInv
<1>. QED
    BY <1>1, AdjustmentsInvariant, PTL

(* Withdrawals, holds, postings, corrections and reversals spend only what *)
(* is there and not held by another transfer, between the posting of a     *)
(* transfer and its capture too; the exceptions are a posting on a         *)
(* released hold and a manual request that names a transfer with a fee     *)
(* below minus its amount (WithdrawAvailable, ReserveTransferFunds and     *)
(* ApproveAdjustment compare the available balance, PostTransferLedger     *)
(* does not).                                                              *)
THEOREM DebitsStayCovered == Spec => []DebitsAreCovered
<1>1. AdjustmentsInv => DebitsAreCovered
    BY DEF AdjustmentsInv
<1>. QED
    BY <1>1, AdjustmentsInvariant, PTL

(* What an approved reversal is for, and what it may undo. *)
LEMMA ReversalFacts ==
    ASSUME AdjustmentsInv, NEW r \in RequestIDs, Reversal(r)
    PROVE  /\ requests[r] \in RequestRows
           /\ requests[r].status = "approved" /\ requests[r].type = "reversal"
           /\ requests[r].transfer # NoID =>
                 /\ requests[r].transfer \in TransferIDs
                 /\ TransferNamed(requests[r], transfers)
           /\ requests[r].transfer = NoID => EventNamed(requests[r], streams)
           /\ requests[r].transfer = NoID => requests[r].event # NoEvent
<1>1. requests[r].status = "approved" /\ requests[r].type = "reversal"
    BY DEF Reversal, Approved
<1>2. requests[r] # Absent
    BY <1>1 DEF Absent
<1>3. requests[r] \in RequestRows /\ RequestSound(requests[r], streams, transfers)
    BY <1>2 DEF AdjustmentsInv, TypeOK, RequestsSound
<1>4. /\ requests[r].transfer \in TransferIDs \cup {NoID}
      /\ requests[r].account \in AccountIDs
    BY <1>3 DEF RequestRows
<1>5. /\ requests[r].transfer # NoID => TransferNamed(requests[r], transfers)
      /\ requests[r].transfer = NoID => EventNamed(requests[r], streams)
    BY <1>1, <1>3 DEF RequestSound
<1>6. EventNamed(requests[r], streams) => requests[r].event # NoEvent
    BY <1>4, AdjustmentsAssumption DEF EventNamed, NoEvent, EventAt
<1>. QED
    BY <1>1, <1>3, <1>4, <1>5, <1>6

LEMMA UndoneOnceHolds == AdjustmentsInv => UndoneOnce
<1>. SUFFICES ASSUME AdjustmentsInv PROVE UndoneOnce
    OBVIOUS
<1>1. ASSUME NEW r \in RequestIDs, NEW s \in RequestIDs,
             Reversal(r), Approved(s), SameOriginal(r, s)
      PROVE  r = s
  <2>1. requests[r].status = "approved" /\ requests[s].status = "approved"
    BY <1>1 DEF Reversal, Approved
  <2>2. CASE requests[r].transfer # NoID
    BY <1>1, <2>1, <2>2 DEF SameOriginal, AdjustmentsInv, OriginalsUnique
  <2>3. CASE requests[r].transfer = NoID
    <3>1. requests[r].event # NoEvent /\ requests[r].event = requests[s].event
      BY <1>1, <2>3, ReversalFacts DEF SameOriginal
    <3>. QED
      BY <2>1, <3>1 DEF AdjustmentsInv, OriginalsUnique
  <2>. QED
    BY <2>2, <2>3
<1>2. ASSUME NEW a \in AccountIDs, NEW n \in DOMAIN streams[a],
             NEW r \in RequestIDs, Undoes(r, a, n)
      PROVE  /\ Reversal(r) /\ requests[r].status = "approved"
             /\ \/ requests[r].transfer = NoID /\ requests[r].event = EventAt(a, n)
                   /\ CustomerOriginated(streams[a][n])
                \/ /\ requests[r].transfer = streams[a][n].transfer
                   /\ streams[a][n].transfer # NoID
  <2>1. Reversal(r) /\ requests[r].status = "approved"
    BY <1>2 DEF Undoes, Reversal, Approved
  <2>2. CASE requests[r].transfer # NoID
    BY <1>2, <2>1, <2>2 DEF Undoes
  <2>3. CASE requests[r].transfer = NoID
    <3>1. EventNamed(requests[r], streams) /\ requests[r].event = EventAt(a, n)
      BY <1>2, <2>1, <2>3, ReversalFacts DEF Undoes
    <3>2. requests[r].event.acct = a /\ requests[r].event.n = n
      BY <3>1 DEF EventAt
    <3>3. CustomerOriginated(streams[a][n])
      BY <3>1, <3>2 DEF EventNamed
    <3>. QED
      BY <2>1, <2>3, <3>1, <3>3
  <2>. QED
    BY <2>2, <2>3
<1>3. ASSUME NEW a \in AccountIDs, NEW n \in DOMAIN streams[a],
             NEW r \in RequestIDs, NEW s \in RequestIDs, Undoes(r, a, n), Undoes(s, a, n)
      PROVE  r = s
  <2>1. Reversal(r) /\ Approved(s) /\ SameOriginal(r, s)
    BY <1>2, <1>3 DEF CustomerOriginated, SameOriginal, Approved
  <2>. QED
    BY <1>1, <2>1
<1>4. ASSUME NEW a \in AccountIDs, NEW n \in DOMAIN streams[a],
             streams[a][n].adjustment # NoID, NEW r \in RequestIDs
      PROVE  ~Undoes(r, a, n)
  <2>1. n \in 1..Len(streams[a])
    BY DEF AdjustmentsInv, TypeOK
  <2>2. EntrySound(streams[a][n])
    BY <2>1 DEF AdjustmentsInv, EntriesSound
  <2>. QED
    BY <1>2, <1>4, <2>2 DEF EntrySound, CustomerOriginated
<1>. QED
    BY <1>1, <1>3, <1>4 DEF UndoneOnce

(* A movement of money is undone at most once, by a reversal of its event  *)
(* or of its transfer; what undoes it is never undone itself; and nothing  *)
(* else, a manual request included, is approved for what a reversal undid, *)
(* whatever requests administrators create and review at the same time and *)
(* whatever they write in them (CreateAdjustment, ApproveAdjustment and    *)
(* the unique indexes).                                                    *)
THEOREM MovementsAreUndoneOnce == Spec => []UndoneOnce
BY UndoneOnceHolds, AdjustmentsInvariant, PTL

LEMMA ReversalRestoresHolds == AdjustmentsInv => ReversalRestores
<1>. SUFFICES ASSUME AdjustmentsInv, NEW r \in RequestIDs, NEW a \in AccountIDs, NEW q,
                     q = requests[r]
              PROVE  /\ ~Approved(r) => Net(streams[a], r, NoID) = 0
                     /\ Approved(r) /\ q.type = "manual" =>
                           Net(streams[a], r, NoID) = Ordered(q, a)
                     /\ Reversal(r) /\ q.transfer # NoID =>
                           Net(streams[a], r, q.transfer) = 0
                     /\ Reversal(r) /\ q.transfer = NoID =>
                           Net(streams[a], r, NoID)
                              = On(a, q.event.acct, -Effect(streams[q.event.acct][q.event.n]))
    BY DEF ReversalRestores
<1>1. Net(streams[a], r, NoID) = Corrected(q, a)
  <2>1. Done(transfers, a, NoID) = 0
    BY DEF Done
  <2>2. Corrected(q, a) \in Int
    BY RowBook DEF AdjustmentsInv, TypeOK
  <2>3. Net(streams[a], r, NoID) = Corrected(q, a) + Done(transfers, a, NoID)
    BY DEF AdjustmentsInv, Accounted
  <2>. QED
    BY <2>1, <2>2, <2>3
<1>2. ~Approved(r) => Net(streams[a], r, NoID) = 0
    BY <1>1 DEF Corrected, Approved
<1>3. Approved(r) => Net(streams[a], r, NoID) = Ordered(q, a)
    BY <1>1 DEF Corrected, Approved
<1>4. ASSUME Reversal(r), q.transfer # NoID PROVE Net(streams[a], r, q.transfer) = 0
  <2>1. PICK t : t = q.transfer
    OBVIOUS
  <2>2. t \in TransferIDs /\ TransferNamed(q, transfers)
    BY <1>4, <2>1, ReversalFacts
  <2>3. /\ q.account = Transfers[t].src /\ q.counterparty = Transfers[t].dst
        /\ q.amount = Transfers[t].amount /\ q.fee = Transfers[t].fee
        /\ transfers[t] = "completed"
    BY <2>1, <2>2 DEF TransferNamed
  <2>4. Net(streams[a], r, t) = Ordered(q, a) + Done(transfers, a, t)
    BY <1>4, <2>2 DEF AdjustmentsInv, Accounted, Corrected, Reversal, Approved
  <2>5. Ordered(q, a) = (IF a = Transfers[t].src THEN Total(t) ELSE 0)
                        - (IF a = Transfers[t].dst THEN Transfers[t].amount ELSE 0)
    BY <1>4, <2>3 DEF Ordered, On, Total
  <2>6. Done(transfers, a, t) = (IF a = Transfers[t].src THEN -Total(t) ELSE 0)
                                + (IF a = Transfers[t].dst THEN Transfers[t].amount ELSE 0)
    BY <2>2, <2>3, TransferFacts DEF Done, Posted
  <2>7. Ordered(q, a) + Done(transfers, a, t) = 0
    BY <2>2, <2>5, <2>6, TransferFacts
  <2>. QED
    BY <2>1, <2>4, <2>7
<1>5. ASSUME Reversal(r), q.transfer = NoID
      PROVE  Net(streams[a], r, NoID)
               = On(a, q.event.acct, -Effect(streams[q.event.acct][q.event.n]))
  <2>1. EventNamed(q, streams) /\ q \in RequestRows
    BY <1>5, ReversalFacts
  <2>2. PICK e : e = streams[q.account][q.event.n]
    OBVIOUS
  <2>3. /\ q.event.acct = q.account /\ e.amount = q.amount /\ q.amount \in Nat
        /\ \/ e.type = "MoneyCredited" /\ q.direction = "debit"
           \/ e.type = "MoneyDebited" /\ q.direction = "credit"
    BY <2>1, <2>2 DEF EventNamed, RequestRows
  <2>4. -Effect(e) = IF q.direction = "credit" THEN q.amount ELSE -q.amount
    BY <2>3 DEF Effect
  <2>5. Ordered(q, a) = On(a, q.account, IF q.direction = "credit" THEN q.amount ELSE -q.amount)
    BY <1>5 DEF Ordered
  <2>6. Net(streams[a], r, NoID) = On(a, q.account, -Effect(e))
    BY <1>3, <1>5, <2>4, <2>5 DEF Reversal
  <2>. QED
    BY <2>2, <2>3, <2>6
<1>. QED
    BY <1>2, <1>3, <1>4, <1>5

(* An approved reversal restores every account: the transfer, its fee      *)
(* included, or the event and the request together move nothing.  A        *)
(* request that is not approved has moved nothing, an approved manual one  *)
(* what its row says, a fee and a counterparty its client wrote included   *)
(* (ApproveAdjustment writes events and row in one transaction).           *)
THEOREM ReversalsRestore == Spec => []ReversalRestores
BY ReversalRestoresHolds, AdjustmentsInvariant, PTL
=============================================================================
