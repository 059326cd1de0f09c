# TLA+ specification of go-odtbank

go-odtbank is a small bank in Go: an event-sourced account store (in memory or
PostgreSQL), an HTTP API, and a background saga that carries money transfers
through their steps. This directory models its core logic in TLA+, checks it
with TLC on small instances, and proves its safety properties with TLAPS for
every instance.

Paths below are relative to `src/`, and to `src/internal/` where the directory
is one of its packages.

## 1. Inventory

| Component | State | Operations | Interacts with |
|---|---|---|---|
| Account aggregate (`domain/account.go`, `domain/events.go`) | none stored: the fold of an event stream | `fold`, `ReplayAccount`, `ReplayAccountFrom` | every service that reads a balance |
| Event store (`eventstore/`) | event streams, snapshots, transfers, reservations, decisions, postings, requests, customers | `Append`, `Load`, one transaction per operation | services, repository; PostgreSQL transactions with advisory locks |
| Transfer saga (`service/transfer_service.go`) | transfers, reservations, compliance decisions, ledger postings; per process the fetched batch and the step under way | `Transfer`, `Run`/`ProcessDue`/`Process`, `handleStepError`, `retry`, `advance` | store, compliance checker, fee policy, event bus |
| Deposits and withdrawals (`service/deposit_service.go`, `withdraw_service.go`) | none | `Deposit`, `Withdraw` | the same streams as the saga |
| Account repository and snapshots (`repository/memory_repo.go`) | latest snapshot per account | `FindByID`, `maybeSnapshot` | event store |
| Adjustments (`service/adjustment_service.go`) | adjustment requests | create, approve, reject | streams of two accounts |
| Onboarding and review (`service/onboarding_service.go`, `review_service.go`) | customers, passport images | create application, approve (opens the account), reject | PostgreSQL and the object store |
| Sessions and passwords (`service/auth_service.go`, `password.go`, `cmd/admin`) | administrators, sessions | login, authenticate, logout, upsert administrator | HTTP middleware, customers and their review |
| Money and fees (`domain/money.go`, `policy/policies.go`) | none | parse, format, fee | request bodies, answers, event payloads, the saga's fee |
| HTTP API, dashboard (`httpapi/`, `web/`) | none; per request the principal the middleware read | routing and its checks, decoding, rendering | services |

What is hard in this code:

- the effect of a saga step and the row update that records it are two
  transactions, so a crash or a lost answer between them repeats the effect;
- several server processes poll the same table and work on copies of its rows;
- a call to PostgreSQL may fail after it committed (a broken connection, the
  context timeout during COMMIT) and the caller treats it as not done;
- retries have a bound before the ledger posting and none after it;
- deposits, withdrawals, holds, postings and reversals of different transfers
  meet on one stream, and deposits take no lock;
- an account is read with three store calls, between which the stream grows and
  other readers store snapshots;
- a reversal request is looked up and inserted in separate statements, and a
  manual request is stored and carried out with every field its client wrote;
- an application is written to two stores;
- a handler acts on a principal read earlier, while reviews, logouts, expiry and
  password changes go on, and a login is three store calls;
- amounts arrive as text and are kept in 64-bit minor units.

What makes each component correct:

| Component | Properties |
|---|---|
| Transfer saga | the recorded step never runs ahead of the effects it stands for, in the table or in any copy; completed means approved, posted and captured; effects happen once and are never taken back; money is conserved; holds and reserved balances agree; funds are not overspent; one transfer per customer key; every transfer ends |
| Stream transactions | every operation is atomic on the streams as they are when it commits; nobody waits in a circle |
| Snapshots | a snapshot is the replay of the events it claims, a read is the account at some moment of the call, snapshots never fall back |
| Adjustments | a movement is undone once, by one kind of request, whatever clients write in manual requests; a reversal restores exactly what was moved, fee included; debits spend only money that is there and not held for another transfer |
| Onboarding | one row per person, one account per approval, an accepted application keeps its image |
| Sessions | a banking handler only works on the account of the approved customer who logged in; only administrators review; a token handed out works until expiry or logout, and never after |
| Money | an amount is read exactly or refused, written amounts are read back, a fee is rounded to the nearest unit |

## 2. Modules

```
Account ─┬─ TransferSaga ── SagaProperties ──┬── MCTransferSaga
         │                         │         └── SagaProofs (F) ── SagaFewFaultsProofs
         │                         └ INSTANCE AtomicPayments
         ├─ AtomicStreams ── AccountStreams ─┬── MCAccountStreams
         │                         │         └── StreamsProofs (F)
         │                         └ INSTANCE AtomicStreams
         ├─ Snapshots ───────────────────────┬── MCSnapshots
         │                                   └── SnapshotsProofs (F)
         ├─ Adjustments ─────────────────────┬── MCAdjustments
         │                                   └── AdjustmentsProofs (F)
         └─ FoldTheorems (F)
Onboarding ─┬─────────────────────────────────── MCOnboarding
            └─ Sessions ─────────────────────┬── MCSessions
                                             └── SessionsProofs
Money ───────────────────────────────────────┬── MCMoney
                                             └── MoneyProofs (F)
```

`MC...` modules give TLC its instances; `...Proofs` modules hold the proofs, and
those marked (F) extend `FoldTheorems` for sums and folds. `SessionsProofs` also
holds the proofs about `Onboarding`, which `Sessions` extends.
Every proof is about the same definitions the runs check.

A definition whose comment begins with "variant:" is the definition after it
with a plausible mistake. No specification uses the variants: they show that
each property notices a mistake in the code it is about.

### Account

The fold of one event into an account, and the available balance. An event is
its type and amount, the only fields the fold reads. `opened = FALSE` stands
for the empty stream, which the services read as "no such account".

### TransferSaga, SagaProperties

`TransferSaga` models `TransferService`, the saga's store operations and the
other operations on balances. An account stream is represented by its fold.

| Variable | Code |
|---|---|
| `accounts` | the folds of the event streams |
| `transfers` | the `transfers` table: command, fee, status, step, failure, attempts, and whether `next_attempt_at` has come |
| `holds`, `decisions`, `ledgerPostings` | `account_reservations`, the compliance decisions, `ledger_postings` |
| `queue`, `job` | per server process: rows fetched by `ListDueTransfers` and not yet processed, as fetched; the place in `Process` between two store calls |
| `published` | how often `TransferCompleted` reached the event bus |
| `receipts`, `cash`, `faults` | history: answers to clients, money outside the bank, number of faults |

| Action | Code |
|---|---|
| `Transfer` | `Transfer` and `CreateTransfer`: validation, idempotency key, new row; the answer may be lost |
| `ListDueTransfers`, `Take` | `ProcessDue`: the poll, and the next transfer of the batch |
| `ProcessCreated` … `ProcessReservationCaptured` | the cases of `Process`: the store call and what its result leads to |
| `RejectRelease`, `FailRelease` | the release of the hold after a rejection, and on the failure path, whose error is ignored |
| `Advance` | the compare-and-set update of the row (`UpdateTransferSaga`), for `advance`, `retry` and failures |
| `Publish` | the event bus call after the completing update |
| `Crash` | a server process ends and restarts: its batch and place are gone |
| `BackoffElapses` | the back-off of a retried row is over |
| `Deposit`, `Withdraw`, `OpenAccount` | the counter, and an approved application |

Every store call is one transaction and one step; between two calls of a worker
anything may happen. `StoreCall` adds the faults: "lost" (an error, nothing
happened) and "unacked" (an error, although it committed). A stale update
(no row affected by the compare-and-set) ends the processing of the copy.

`SagaProperties` holds the properties and the inductive invariants `SagaInv` and
`CalmInv`, and instantiates `AtomicPayments` with a refinement mapping: the balance of an
account is its posted balance, the ledger posting is the payment.

### AtomicPayments

What the bank promises of a transfer, without holds, workers or retries: paid
once in one step out of money that is there and then completed, or failed with
no money moved.

### AtomicStreams, AccountStreams

`AtomicStreams` is what the event store promises its callers (and what
`TransferSaga` takes for granted): a deposit, withdrawal, hold, posting, end of
a hold or reversal happens in one step on the streams as they are. The memory
store, one mutex around each operation, is this specification.

`AccountStreams` is the PostgreSQL store, statement by statement. `tx[p]` is the
operation of a process: the statements still to run, the locks it has, the
streams as it read and extended them (`view`), and its inserts (`added`), which
become visible at `Commit`. The sequence of statements of each operation is an
operator with the name of its method; the actions run one statement each
(`LockAccount`, `ReadRow`, `LoadEvents`, `InsertEvent`, `AppendEvent`,
`Commit`), and `Rollback` may end any of them. `workload` names the operations
of a behaviour, so that one run covers two sets of them. Isolation is READ COMMITTED; an
insert at a key that another transaction inserted and did not commit waits.

### Snapshots

`FindByID` in its three store calls: `Load`, `LoadSnapshot` with the replay, and
`Return` with `maybeSnapshot` (`SaveSnapshot` keeps the newer snapshot). The
stream grows by any event the services may append: a hold is covered when it is
placed, a debit or credit is any amount on an open account, since a posting
debits before its hold is captured. A failed snapshot read is
read as "no snapshot", a failed write is ignored.

### Adjustments

The adjustments of the PostgreSQL store.

| Variable | Code |
|---|---|
| `streams` | the event streams, each event with its transfer or adjustment |
| `transfers` | per transfer how far it has come: held, posted, captured, completed, released, or posted and released ("loose") |
| `requests` | the `adjustment_requests` table |
| `drafts` | per administrator: a request looked up and not yet inserted |

`CreateManual`, `CreateTransferReversal` and `CreateEventReversal` are the
look-ups of `CreateAdjustment`; `InsertRequest` is its insert against the two
unique indexes, a later step. `handleCreateAdjustment` decodes every field of a
request, and a manual request keeps all of them: `Forms` are the combinations of
account, direction, amount, fee, counterparty, transfer and event that clients
may write. A reversal of a transfer takes accounts and amounts from the
transfer and keeps the client's event. `ApproveAdjustment` looks for another
approval only when the type is reversal (`FirstApproval`) and then acts on the
row (`Adjust`): a request of either type that names a transfer debits the
counterparty of the row and credits amount plus fee of the row.
`ApproveAdjustment` and `RejectAdjustment` are one step each.

Meanwhile customers deposit and withdraw, and transfers go through
`HoldTransfer`, `PostTransfer`, `CaptureTransfer`, `ReleaseTransfer` and
`CompleteTransfer`, the saga's effects in transactions of their own. Every order
of release and posting that the saga has is allowed, finding 1 of section 4
included.

### Onboarding

`PutObject`, `InsertCustomer` and `DeleteObject` are the calls of
`CreateCustomerApplication` to the two stores, each of which may fail before or
after it took effect; `Crash` ends a process between them.
`ApproveApplication` and `RejectApplication` are the review.

### Sessions

Extends `Onboarding` with who may do what over HTTP.

| Variable | Code |
|---|---|
| `admins`, `sessions` | the tables of these names; a session has a role, an id and `expires_at` |
| `now` | the server's clock; `Lifetime` is the 24 hours of a session |
| `calls` | per request under way: the place in `Login` between two store calls, or the handler with the principal the middleware read |
| `reviewedBy` | column `reviewed_by` of `customers` |
| `issued`, `loggedOut`, `everAdmin` | history: the credentials of each token handed out, tokens whose deletion took effect, all credentials of administrators |

`LoginFindAdmin`, `LoginFindCustomer` and `LoginCreateSession` are the store
calls of `Login`. `Authenticate` is `requireAuth` with `FindSession` and the
checks of the route (`requireApprovedCustomer`, `requireAdmin`,
`authorizedAccount`); a request that fails them changes nothing and is left
out. `HandleBanking`, `HandleReview` (the review of `Onboarding`, by the
administrator of the session) and `HandleLogout` come later, as steps of their
own. `UpsertAdmin` is the command `cmd/admin`, `Onboard` an accepted
application, `Tick` the clock; `Interrupted` ends a request anywhere.

### Money

`ParseMoney` and `String` on sequences of characters, over a word
`-MaxInt - 1 .. MaxInt` that wraps as `int64` does, and the percentage fee. A
client types a text and posts it (`Type`, `Post`); the properties compare what
is read with the value of the digits by place (`IsDecimal`, `Hundredths`), which
share nothing with the code. The server starts from any amount of the word.

## 3. Runs

| Run | Instance | Shows |
|---|---|---|
| `saga_faults` | one worker, two transfers that together exceed the balance, any compliance answers, two attempts, three faults | types, `StepReflectsEffects`, `CompletedMeansSettled`, `Conservation`, `HoldsMatchReserved`, `PostedAfterApproval`, `CoveredUnlessPostedOnReleasedHold` |
| `saga_two_workers` | two workers on the same two transfers, one crash | `SagaInv`, `PublishedOnce`, `SagaMovesForward`, `EffectsAreFinal` |
| `saga_few_faults` | one worker, compliance that answers consistently, five attempts and four faults; replayed, conflicting and invalid requests, an account that opens meanwhile | `ImplementsAtomicPayments`, `FailedMeansReleased`, `ReceiptsHonoured`, `CalmInv` |
| `saga_liveness` | two fair workers, any compliance answers, two attempts, three faults | `SagaEndsUnlessPostedOnReleasedHold` |
| `posted_on_released_hold` | one worker, five attempts, six lost calls or crashes | `NoOverdraft` is violated (finding 1) |
| `streams` | two processes; deposits, withdrawals and a transfer with a fee, or two transfers in opposite directions with all their operations | types, `PendingEventsFit`, `NoWaitCycle`, `ImplementsAtomicStreams` |
| `occupied_sequence` | the first of these sets of operations | `OccupiedIsConflict` is violated (finding 2) |
| `snapshot_reads` | two readers, streams of up to five events, threshold two | types, `SnapshotIsReplay`, `ReadsAreCurrent`, `SnapshotsAdvance` |
| `reversals` | two administrators, two requests, a transfer with a fee, five manual requests, three of which name a transfer or event | types, `UndoneOnce`, `ReversalRestores`, `DebitsAreCovered` |
| `onboarding_faults` | three submissions with clashing identities, three faults, reviews | `OnePersonOneRow`, `OneAccountPerApproval`, `AcceptedIsComplete` |
| `sessions_faults` | two people, one with the email of the administrator, two passwords, two tokens, two requests at a time, one moment of expiry, one fault of any kind | types (of `Onboarding` too), `OwnAccountOnly`, `ReviewedByAnAdmin`, `IssuedIsUsable`, `SessionEndsForGood` |
| `amounts` | texts of up to six of nine characters, every value of a word up to 507 | `DecimalsReadExactly`, `OnlyExtraSigns`, `RoundTrip`, `FeeRoundsHalfUp` |

**Bounds and why they are enough.** The saga's hazards need two transfers on
one account (spending the same money), two workers (a stale copy), and as many
faults as it takes to exhaust the attempts and lose one more call: with two
attempts, three. The code's constant is five; the attempts of a step are only
compared with the limit, so two gives the same cases except for
`saga_few_faults`, which keeps five because its claim is about fewer faults
than attempts. The batch limit is 1 or 2 against two transfers, so batches that
are cut off and batches that are not both occur. `cash` bounds deposits; the
amounts are chosen so that one transfer is covered and both are not, and so that
a withdrawal can spend released money. On streams, two processes suffice for
every pair of conflicting operations; three processes could only add longer
wait cycles, which the theorem `NobodyWaitsInACircle` excludes for any number. Streams are
allowed to be one event longer than any operation reads when it begins. Five
events with threshold two allow a snapshot, two more events, and a second
snapshot that overtakes the first. Two requests and two administrators are what
a double reversal takes. Of the five manual requests two are as documented; one
names the transfer with a fee of -2, so that its credit is a debit of 1; one
names the transfer and an event with one account on both sides; one names an
event alone. Customers act on streams of up to two events, which the transfer
and the adjustments then extend: 1.3 million states. Three submissions let two clash with a third in
different keys. Two requests are one that has read its principal and one that
acts meanwhile; with a lifetime of one and one tick a session is used before,
at and after its last moment, and two tokens give a customer and an
administrator a session at the same time. The word of `amounts` ends in 07 like
2^63 - 1, so the limit falls inside the cents; six characters are a sign, three
digits, the point and a decimal, or blanks and signs in any place. The texts
that reach the limit exactly ("5.07", "-5.08") are among them.

**Deadlock** is checked except in `Reversals.cfg`, `OnboardingFaults.cfg` and
`SessionsFaults.cfg`, where ids, tokens and the lengths of streams run out: every
request is reviewed and every submission has ended, as in a bank without new
customers.

**Symmetry** is used for processes, workers, readers, administrators, requests,
transfers and customers where the specification treats them alike, and not in
the run for liveness.

**Fairness** (`Fairness` in `TransferSaga`): each worker's loop and the passing
of back-offs are weakly fair. The code polls on a 250 ms ticker for as long as
the process runs (`Run`) and a back-off is a time that passes; nothing else is
fair: no client has to send anything, no call has to succeed. Faults are finite
in number by `MaxFaults`, which stands for "the database is eventually
reachable for long enough"; without that no retry loop can finish.

## 4. What the runs show of the code

Two disagreements between the code and what its documents say are runs of
their own:

1. **A transfer may be posted on money that was released.** `retry`
   (`transfer_service.go:175`) releases the hold and then marks the row failed,
   in two transactions. When the second does not happen, the row stays pending
   at `compliance_approved`; the money can be withdrawn, and the next attempt
   posts, because `PostTransferLedger` looks neither at the hold nor at the
   balance. `requirement/Transfer.md` says concurrent transfers cannot
   overspend.
2. **An occupied sequence is not always a conflict.** A deposit that commits
   between the load and the insert of a withdrawal (hold, posting, adjustment)
   makes `insertEventTx` fail with the database's own error, answered with 500.
   Atomicity is kept; the answer is not the documented `ErrConcurrencyConflict`.

Others have no run of their own; a reader can reproduce them by adding a
property or moving a bound:

- An application may lose its image. When COMMIT takes effect and reports an
  error, the deferred clean-up (`postgres_store.go:69`) deletes the image of a
  stored customer, and a new submission is refused as a duplicate. With
  `ImageOfEveryRow` in `OnboardingFaults.cfg` TLC shows the steps. The
  repository's `README.md:159` says that the object is removed "If the database
  write fails"; here the write did not.
- `POST /logout` answers 204 and clears the cookie when `DeleteSession` failed
  (`router.go:533`); the session then lives until it expires.
  `requirement/Authentication.md:15` says that logout invalidates the session.
  `SessionEndsForGood` is therefore about deletions that took effect.
- Sessions outlive a change of the administrator's password (`UpsertAdmin`
  touches no session), so `ReviewedByAnAdmin` admits any password the
  administrator has had.
- `ParseMoney` accepts a sign that `ParseInt` takes of its own: "+5", "1.+5" and
  "--5" are amounts. `OnlyExtraSigns` says that nothing else beyond decimals is
  accepted. A whole part with such a minus is not checked against the lower end
  of the word and may wrap.
- The percentage fee multiplies before it divides and wraps beyond the word;
  `FeeRoundsHalfUp` is about amounts below that.
- `saga_few_faults` with `MaxFaults = 5`, the number of attempts: five postings
  that commit and report an error fail a transfer whose money moved
  (`ImplementsAtomicPayments`); five such reservations fail it at step `created`,
  where `retry` releases nothing, and the hold stays (`FailedMeansReleased`).
- Two workers are enough, without any fault, for a failed transfer that keeps its
  hold (`FailedMeansReleased` in `SagaTwoWorkers.cfg` with `MaxFaults = 0` and
  `ByAmount` for the compliance answers). Both have a copy of a row at step
  `created`; the first finds too little money and fails the row; money is
  deposited; the second reserves on its stale copy, since `ReserveTransferFunds`
  does not look at the row, and its update is then refused. Nobody takes up a
  failed row, so the hold stays. This is why the theorem
  `FailedTransfersHoldNothing` asks for one worker.
- The exception in `SagaEndsUnlessPostedOnReleasedHold` is needed: after finding
  1 the capture answers `ErrIdempotencyConflict` on every retry and the transfer
  stays pending for ever.
- `CoveredUnlessPostedOnReleasedHold` is about posted and held money counted
  once. The available balance as the API computes it counts a transfer's money
  twice between posting and capture and may be negative there, without any
  fault. `DebitsAreCovered` adds that sum (`CountedTwice`).
- A manual request is carried out with fields that `requirement/Adjustments.md`
  does not give it. One that names a transfer, completed or not, debits the
  counterparty and credits amount plus fee as its client wrote them; migration
  0006 has no CHECK on the fee. With a fee below minus the amount the credit is
  a debit that is compared with no balance and may overdraw the account, although
  `requirement/Adjustments.md` and `README.md:316` of the repository say that
  debits cannot overdraw. `DebitsAreCovered` without the second disjunct of
  `UncheckedDebit` shows the steps; `ReversalRestores` says what such a request
  does move.
- A manual request may name an event that no reversal may be for, a leg of a
  transfer for instance; it blocks nothing but that event, so the transfer can
  still be reversed. `UndoneOnce` is about reversals, and about manual requests
  that name exactly what a reversal is for.
- The memory store has neither the unique indexes nor the second look at
  approval. Look-up and insert are one step there, which is enough for
  reversals; but a manual request that names a reversed transfer is accepted
  and carried out. `UndoneOnce` is a property of the PostgreSQL store: the
  variant `TakenByReversal`, with indexes on reversals only, breaks it in the
  same way.
- `README.md:508` of the repository says that snapshots are not implemented;
  `FindByID` reads and writes them.

## 5. Proofs

The theorems hold for every value of the constants that satisfies the named
`ASSUME`s of the modules. Unless an assumption is listed here it only gives a
constant its type: amounts, fees and limits are naturals, commands and transfers
name known accounts.

| Assumption | Why the code gives it |
|---|---|
| `FiniteAssumption`: accounts and transfers are finite sets | ids have a fixed length; a sum over all accounts needs it |
| `ProcessesAssumption`: finitely many processes | connections to a database; needed for the wait-for graph |
| `StreamsAssumption`: accounts and transfers have different ids | the row lock of a request is not the advisory lock of an account |
| `OnboardingAssumption`: `Nobody` is no customer id; `AdjustmentsAssumption`: `NoID` is no id | NULL is not an id |
| `StreamsAssumption`, `AdjustmentsAssumption`: source and target differ | `Transfer` refuses equal accounts |
| `AdjustmentsAssumption`: finitely many transfers | as above; needed for the sum `CountedTwice` |
| `AdjustmentsAssumption`: a manual request has a known account, a direction and a positive amount, and any fee, counterparty, transfer and event | `Create` and the look-up of the account check the first three and nothing else |
| `WordAssumption`: the cents of the least word have one digit | 2^63 ends in 08 |
| `MoneyAssumption`: the unit of basis points is even | it is 10000, and half of it is added to round |

The theorems of `SagaFewFaultsProofs` have conditions in their statements, because
without them the runs and section 4 show the properties violated:

| Condition | Meaning |
|---|---|
| `FewFaults` | fewer calls fail, lose their answer or are cut off by a crash than a transfer has attempts (five in the code) |
| `SteadyCompliance` | the compliance checker answers, and one command always alike; the only checker of the repository approves everything (`transfer_service.go:14`) |
| `OneWorker` | a single server process, for `FailedTransfersHoldNothing` only |

### What is proved

| Module | Theorem | States |
|---|---|---|
| `SagaProofs` | `TypeCorrect` | `TypeOK` |
| | `SagaInvariant` | the inductive invariant `SagaInv` |
| | `StepsReflectEffects` | the recorded step never runs ahead of hold, approval, posting and capture |
| | `CompletedIsSettled` | completed means approved, posted and captured |
| | `PostingNeedsApproval` | nothing is posted without approval and hold, nothing captured before it was posted |
| | `RowsOnlyMoveForward` | rows are never deleted, move a step at a time, terminal rows are frozen |
| | `EffectsStay` | holds open and close once, decisions and postings are never taken back |
| | `ReceiptsAreHonoured` | a transfer a client was told of stays, with the client's command; one transfer per customer and key |
| | `AnnouncedOnce` | `TransferCompleted` is published at most once, for completed transfers only |
| | `MoneyInvariant` | the inductive invariant `MoneyInv` |
| | `MoneyIsConserved` | balances and fees add up to what came in from outside |
| | `ReservedIsSumOfHolds` | a reserved balance is the sum of the open holds |
| | `HoldsAreCovered` | money covers the open holds, unless a transfer was posted on a released one |
| `SagaFewFaultsProofs` | `NobodyGivesUp` | few faults, steady compliance: the inductive invariant `CalmInv`; no transfer is given up once its money is held |
| | `PaymentsAreAtomic` | then `TransferSaga` implements `AtomicPayments`, with any number of workers |
| | `NobodyIsOverdrawn` | then no account is overdrawn |
| | `FailedTransfersHoldNothing` | then, with one worker, a failed transfer keeps no hold |
| `StreamsProofs` | `StreamsInvariant` | the inductive invariant `StreamsInv` |
| | `StreamsTypeCorrect` | `TypeOK` |
| | `PendingFits` | uncommitted inserts continue the committed stream |
| | `StreamsAreAtomic` | `AccountStreams` implements `AtomicStreams` |
| | `NobodyWaitsInACircle` | no set of processes waits for each other |
| `SnapshotsProofs` | `SnapshotsInvariant` | the inductive invariant `SnapshotsInv` |
| | `SnapshotsTypeCorrect` | `TypeOK` |
| | `SnapshotsAreReplays` | a snapshot is the replay of exactly the events it claims |
| | `FindByIDIsCurrent` | a read is the account at some moment of the call |
| | `SnapshotsOnlyAdvance` | the stored snapshot never falls back |
| `AdjustmentsProofs` | `AdjustmentsInvariant` | the inductive invariant `AdjustmentsInv` |
| | `AdjustmentsTypeCorrect` | `TypeOK` |
| | `DebitsStayCovered` | debits spend only money that is there and not held for another transfer, but for the two debits nobody checks (section 4) |
| | `MovementsAreUndoneOnce` | a movement is undone once, and no manual request for the same original is approved beside its reversal |
| | `ReversalsRestore` | an approved reversal leaves nothing of the movement, fee included; a manual request moves exactly what its row says |
| `SessionsProofs` | `OnboardingInvariant` | the inductive invariant `OnboardingInv` |
| | `PersonsAreUnique` | no two rows share an identity |
| | `ApprovalOpensOneAccount` | one account per approved customer |
| | `AcceptedStaysComplete` | an accepted application has its row and its image |
| | `SessionsInvariant` | the inductive invariant `SessionsInv` |
| | `SessionsTypeCorrect` | `SessionsTypeOK` |
| | `AccountsAreTheOwners` | a banking handler works on the account of the approved customer who logged in |
| | `ReviewersAreAdmins` | only administrators review |
| | `TokensWork` | a token works until expiry or logout |
| | `EndedSessionsStayEnded` | and never after |
| `MoneyProofs` | `MoneyInvariant` | the invariant `MoneyInv` of texts and amounts under way |
| | `DecimalsAreExact` | a decimal of any length is read as what its digits say, or refused exactly when its size is beyond the greatest word (the least word is refused too) |
| | `NothingElseIsRead` | what else is accepted has a sign too many |
| | `AmountsRoundTrip` | what was written is read back, for every value of the word |
| | `FeesAreRounded` | a fee is the nearest unit, at most the amount, and grows with it |

### Along which argument

**Sums and folds** (`FoldTheorems`). `SumFunction` and `FoldLeft` of the
community modules are defined by `CHOOSE` of a function on subsets. The module
proves that this function exists, that the sum does not depend on the order in
which elements are chosen, that it changes by one term when one term changes,
and that a fold of a stream splits where the stream does. The induction is over
finite sets and its hypothesis is a set of the sets that have the property, so
no lemma takes an operator as a parameter. Everything below that speaks of a
balance rests on these lemmas.

**`SagaInv`.** `StepReflectsEffects` is not inductive. A worker writes the step
it computed from a copy fetched earlier, so the invariant must speak of copies.
`SagaInv` says that the effects a step stands for are there for every copy of a
step: in the table (`RowsSupported`), in the fetched batches
(`QueuesSupported`), and in what a worker is about to write
(`JobsSupported`), which is moreover at most one step ahead of the copy it
started from. Because effects are final (`EffectsKept`), a copy never loses its
support by being old; the compare-and-set then gives the row a supported step.
`PostedAfterApproval` is part of it because a posting or capture repeated by a
stale worker must still find the approval and the hold. Each store operation
has a lemma about what it does to the effects; each action preserves each part
of the invariant in a step of its own.

**`PublishInv`.** A worker about to publish made the completing update itself:
its row is completed and not yet published, and no other worker is at that
place for the same transfer. The compare-and-set gives the last part, since the
update of a second worker finds a terminal row.

**`MoneyInv`.** Every step of the saga is first shown to be one of six kinds
for the accounts (`MoneyStep`: nothing, cash at the counter, an opening, a hold,
the end of a hold, a posting); each kind then changes each sum by known terms.
`RowsSound` (a transfer has two different accounts, a hold has a row) and
`UnopenedEmpty` are what these terms need. `HoldsAreCovered` needs
`HoldsMatchReserved` for withdrawals and new holds, because the code checks the
available balance and not the list of holds.

**`CalmInv`.** Every attempt a copy of a row counts was used up by a fault, so
the attempts of every copy stay at or below the number of faults and, with
`FewFaults`, below the limit: the branch of `retry` that gives up is never taken.
This needs the compliance answer, since "error" is the one result that uses up
an attempt without a fault of the store. The releases that are left follow a
recorded rejection, and `SteadyCompliance` keeps a recorded rejection and a
later approval of the same command apart. So a row fails at an early step only,
a posted row is past these steps, and a hold is released for a transfer that is
never posted. The invariant speaks of copies, like `SagaInv`: a copy is never
ahead of its row, and a failing update leaves the step as it was.

**`PaymentsAreAtomic`.** With `SagaInv`, `MoneyInv` and `CalmInv` every step is
shown to be an order, a payment, an ending or a counter operation of
`AtomicPayments`, or a stutter. The payment is the first ledger posting: the
hold is still open, hence covered by the balance (`HoldsAreCovered`), and the row is
pending, hence not failed. `NobodyIsOverdrawn` follows in the same way: the
exception of `HoldsAreCovered` does not occur. For
`FailedTransfersHoldNothing` the single worker has one copy of each row of its
batch, and that row is still pending (`FreshInv`), so it cannot reserve for a
row that has failed.

**`StreamsInv`.** The statements of an operation are its plan. Every plan has a
shape, `PlanSound`, proved per operation: inserts come under the lock of their
account, a row is read under its lock, locks are taken in ascending order, a
stream is loaded once and before it is extended. The invariant places each
transaction at a position of its plan with the locks and inserts of the
statements before it; what it read is a prefix of the committed stream and, once
it has inserted after it, all of that stream; what it checked still holds;
locks are exclusive and at most one transaction has inserts pending on an
account. A deposit takes no lock and may commit between the read and the first
insert of another transaction; that insert then finds its key occupied and the
transaction ends. After the first insert it is the deposit that waits, because
the key of the next event is taken. The refinement then
maps a commit to the atomic step of its operation, the append of a deposit to
`DepositStep`, and every other statement to a stutter. Nobody waits in a circle:
a process that is waited for holds a lock, because inserts happen under one; a
process that holds a lock waits for locks only, because its inserts are under
the lock of their account; and the lock it waits for is above all it holds
(`Rank`). So the process of a circle that holds the highest lock would wait for
a holder of a higher one.

**`SnapshotsInv`.** A reader about to return has the account at the events it
loaded, or at a later point when the snapshot it read was ahead of these. In
the second case the pair it would store is wrong (a later account under an
earlier version); the invariant keeps that the stored snapshot has at least
that version, so the comparison in `SaveSnapshot` refuses it.

**`AdjustmentsInv`** keeps the books (`Accounted`): what the events of a stream
that belong to a request or transfer add up to is what its row says it has
moved. This holds for manual requests too, because the books are about the row
and not about the original. A reversal, stored or only looked up, keeps agreeing
with its original (`RequestsSound`), since completed transfers and events stay;
of a manual request nothing is claimed. The unique indexes cover requests of
both types (`OriginalsUnique`), and events belong to a transfer or an adjustment
but not both (`EntriesSound`): together they give `UndoneOnce`, and with the
books `ReversalRestores`. `DebitsAreCovered` is inductive with the sum of the
posted and not captured totals: posting debits the total and adds it to the sum,
capture gives both back, and a comparison with the available balance is stricter
than one with the sum. The two exceptions are lasting: a transfer posted on a
released hold stays so, and so does an approved request.

**`OnboardingInv`, `SessionsInv`.** A submission before its INSERT has no row,
one that stored its image still has it, and an accepted one has nothing left to
do, so no clean-up can follow. For sessions the invariant follows an
entitlement (`Entitled`) from the login over the session to the request under
way: role and id belong to the email and password of the login. Entitlements
last, since rows and identities are never removed and `everAdmin` is history;
this is why a handler may act on a principal read earlier.

**Money.** The invariant is small (`MoneyInv`: a text is within its bound, an
answer is what an amount of the word is written as); the work is in the
operators. `Decimal` and `TenTo` are recursive functions and `Number` is a fold;
that the functions exist and obey their equations is proved by
`NumberInduction`. Writing a number and folding its digits are shown inverse
digit by digit (`DecimalReads`); the parts of a text are found around its only
point (`PointSplits`, `DecimalParts`); the sum of the digits by place is the
whole part hundredfold plus the cents (`WholeSum`, `HundredthsIs`); and the test
for overflow is exact, because it subtracts the cents before it divides
(`JoinedIs`). The least word is a case of its own (`LeastRoundTrip`): its negation
wraps to itself, both parts are written with a sign and read with one, and the
result wraps back.

### Only model-checked

- `SagaEndsUnlessPostedOnReleasedHold`: liveness under fairness is out of the
  prover's reach.

Every invariant and action property of the passing runs, and both refinements,
are theorems.

## 6. Abstractions

- Attempts saturate at the limit: past the ledger posting the code counts on
  without looking at the number.
- The balances a row stores for information (`initial_source_balance` and the
  like), timestamps, reasons and names are left out.
- Service hours, the format of keys and missing fields are refusals before the
  store is reached and change nothing.
- A worker takes the transfers of a batch in any order, which includes the
  code's order.
- In `Snapshots` there is one account: streams and snapshots of different
  accounts never meet.
- The advisory lock of an account is known by the account's id; two ids with
  the same hash would share a lock and wait more often.
- The row written by a stream transaction is written with its commit: no other
  transaction reads it earlier.
- A review of an adjustment is one step in `Adjustments`; `AccountStreams` has
  the reversal's statements.
- In `Adjustments` a request without reason, case reference or a valid type is
  refused before the store and left out; amount plus fee does not overflow; an
  event named without its account or sequence is no event, as in the index. The
  module follows the PostgreSQL store; section 4 says where the memory store
  differs.
- Field validation in `Onboard` decides which identities arrive.
- Account and customer ids and session tokens are random and never drawn twice.
- A password hash is the password: salt, rounds and encoding only make equal
  passwords look different. Emails arrive in the form `Login` and `Onboard` give
  them (trimmed, lower case).
- In `Sessions` an application is one accepted step: how it may fail is checked
  in `Onboarding`, and nobody can log in before the row exists. What a banking
  handler does to the account is in the other modules.
- The clock of `Sessions` moves in steps of a lifetime; the clocks of server and
  database do not differ, because the server passes its own time to the query.
- In `Money` quotes around a JSON string are taken off and escapes do not occur;
  a character is one byte.

## 7. Plan

Done: the saga, stream transactions, snapshots, adjustments, onboarding,
sessions and money are modelled and checked; their invariants and action
properties are proved, and so are the refinements of `AtomicStreams` and
`AtomicPayments`. What a next step could add:

1. a second worker in `FailedTransfersHoldNothing`, once `ReserveTransferFunds`
   looks at the row, or a failed row is swept for an open hold (section 4);
2. one theorem from HTTP to the streams: `Sessions` and `TransferSaga` composed,
   so that the account a handler works on is the account of its command;
3. finding 1 without a condition on faults, once release and failure are one
   transaction.

Not modelled and not planned: the dashboard, the read-only routes and rendering
(no state of the bank), PBKDF2 itself (a property of the hash function, not of a
protocol), configuration, graceful shutdown and migrations (before the
program runs), `Withdraw`'s fallback for a store without `WithdrawAvailable`
(both stores have it).
