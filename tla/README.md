# Verification of the payments engine

TLA+ models of the payments service under `src/`, the TLC instances that check
them, and TLAPS proofs of the properties that matter most. Everything is
translated from the Go and SQL source; the repository has no tests, and its
documentation is its comments.

## 1. The system

An HTTP server in front of PostgreSQL. All shared state is in three tables,
and any number of server instances may run against them.

| Component | State | Operations |
|---|---|---|
| Status graph (`internal/domain/payment.go`) | none | `CanTransitionTo` |
| Payment service and repository (`internal/service/payment.go`, `internal/repository/payment.go`) | `payments`, `payment_events` | `Create`, `Confirm`, `Capture`, `Cancel`, `Refund`, `GetByID`, `List` |
| Idempotency service and repository (`internal/service/idempotency.go`, `internal/repository/idempotency.go`) | `idempotency_keys` | `Check`, `Complete`, `Fail` |
| Handlers (`internal/handler/`) | per request | `POST /v1/payments`, four transition verbs, two queries, health |
| Startup sweep (`internal/recovery/startup.go`) | the keys it fetched | `RunStartupSweep` |
| Reconciliation worker (`internal/recovery/reconciliation.go`) | the keys it fetched | `sweep`, at start and every 5 minutes |
| Server life cycle (`cmd/server/main.go`, `internal/handler/server.go`, `internal/config`) | where the process is | load, connect, sweep, listen, drain, close, exit |
| Connection pool (`internal/repository/postgres.go`) | lent connections | `Acquire`, `Release`, `Close`, of pgxpool |
| Validator, card data (`pkg/validator`, `service/payment.go`) | none | pure checks, encryption |
| Metrics, logging, middleware | counters | none that touch the tables |

How they interact. `handleCreatePayment` claims the request's
`Idempotency-Key` (`Check`), creates the payment (`Create`), and stores the
response under the key (`Complete`, or `Fail`). A request that dies in between
leaves the key `pending`; the startup sweep, which ends before the process
listens, and the worker, which runs for as long as the process does, find such
keys by age and resolve them, beside the handlers and sweeps of other
instances. The four
transition handlers run one transaction each, serialised per payment by
`SELECT ... FOR UPDATE`. The two queries read single statements' snapshots of
`payments`. Handlers and sweeps of a process share its pool, which `main`
opens, and `Server.Start` closes once it has drained.

What is hard.

* Transitions of one payment race, wait on each other's row locks, and may fail
  or die at any statement, the answer of `COMMIT` included.
* `Create` runs two statements that commit separately, and `handleCreatePayment`
  five; nothing makes them atomic, and nothing bounds how long a handler takes.
* The sweeps' `FOR UPDATE SKIP LOCKED` is outside a transaction: the locks are
  gone when the query returns, so sweeps overlap.
* The sweeps guard their updates with `status = 'pending'`; the handler's
  `UpdateKey` has no guard.
* A payment takes its identifier before its row is inserted, so rows appear
  out of order under a client that pages through the list by identifier.
* The pool is closed while the worker, which nobody waits for, still uses it;
  `db.Close` waits for connections without a deadline.
* What a payment may look like is said in three places: the Go checks, the
  types and `CHECK` constraints of the columns, and what each query scans.
  Nothing in Go looks at the currency.

`PROJECT.json` lists these as hazards, each at its line with the properties
that watch it.

What makes each component correct.

* Status graph and transitions: status and audit trail never part; money moves
  once; one winner per transition; nobody waits for a request that waits; every
  request returns.
* Idempotency: one payment per key; a 201 names the caller's own payment;
  replays agree; a resolved key is not overwritten.
* Recovery: every pending key is resolved, once.
* Queries: pages neither repeat nor lose a payment, and a walk through them
  ends; GET answers what the POST was answered, but for what the columns cut
  off.
* Validation: it implies the constraints it is meant to imply, and agrees with
  itself.
* Life cycle: no request is cut off by an orderly shutdown, shutdown ends, and
  no request waits for a connection for ever.

## 2. Modules

| Module | What it is |
|---|---|
| `PaymentStatus` | Statuses and `CanTransitionTo`, constant level |
| `PaymentService` | Creation and transitions of payments, one SQL statement a step |
| `PaymentLedger` | What `PaymentService` promises: open once, move along one edge and record it at the same instant |
| `CreatePayment` | `POST /v1/payments`: idempotency, creation, both sweeps |
| `AtMostOncePayment` | What `CreatePayment` promises of a key |
| `PaymentRequest` | Field checks, `pkg/validator` and the payment `Create` builds, constant level |
| `PaymentTable` | Rows of `payments`: their `NULL`s and constraints, and what each query reads, constant level |
| `PaymentQueries` | Payments created beside a client that reads them, singly and page by page |
| `PagedReading` | What `PaymentQueries` promises a client that reads a customer's payments |
| `ServerLifecycle` | One process from `main` to its exit, and its connection pool |
| `GracefulServer` | What `ServerLifecycle` promises the clients of a process |
| `PaymentService_proofs`, `CreatePayment_proofs`, `PaymentRequest_proofs`, `PaymentQueries_proofs`, `ServerLifecycle_proofs` | Theorems |
| `SampleBodies`, `MCPaymentService`, `MCCreatePayment`, `MCPaymentQueries`, `MCServerLifecycle` | Instances for TLC |

`PaymentQueries` extends `PaymentTable`, which extends `PaymentRequest`. The
instances of `CreatePayment` take the kind of each body from
`PaymentRequest!KindOf`, applied to the bodies of `SampleBodies`.

Each of the four abstract modules is instantiated in the module that implements
it, with a refinement mapping where the variables differ (`Ledger`, `Register`,
`Reading`, `Server`), and its specification is a property of a run and a
theorem.

Operators marked MUTANT restate a definition with a plausible bug; they are
used only to show that a property notices it.

### PaymentService

`status`, `opened` and `trail` are the committed rows of `payments` and
`payment_events` (events without, and with, a `from_status`); `lock` is the
holder of each payment's row lock; `counted` stands for
`payment_state_transitions_total`. Each request has a program counter `pc`, the
`call` it makes, the status it has `seen`, and the `reply` it was given.

| Action | Code |
|---|---|
| `ArriveCreate`, `Insert`, `CreateEvent` | `Create`: `uuid.NewV7`, `repo.Insert`, `createEvent`, each statement committing on its own |
| `ArriveTransition` | the four verb handlers up to `pool.Begin` |
| `GetByIDForUpdate`, `RejectUnknown` | the locking read, with or without a row |
| `RejectTransition` | `CanTransitionTo` refuses |
| `UpdateStatus` | `UPDATE ... WHERE status = from`, and the counter |
| `InsertEvent`, `Commit` | the event, and `tx.Commit`, where both writes become visible |
| `StatementFails`, `Crash` | any statement fails; the process dies |

What a transaction wrote is not visible before `Commit`, so `status` and
`trail` change there and only there. A rollback, also the server's own when a
connection is lost or pgx closes one whose rollback failed, drops the locks at
once. An error answered after `Insert`,
`createEvent` or `Commit` took effect is a separate outcome of those actions.
Amounts, methods and card data do not matter here and are left out; a `Create`
that fails validation writes nothing.

### CreatePayment

`payments`, `opened` and `keys` are the tables, a payment being named by the
request that creates it. `age` is the age class of a key's `created_at`: below
`sweepMinAge` (5 minutes), up to `sweepMaxAge` (24 hours), beyond. `recovered`
counts `recovery_keys_resolved_total` per key. Each request has `pc`, `req` and
`answer`; each sweep has `sweep` and the `batch` of keys it fetched.

| Action | Code |
|---|---|
| `Arrive`, `RejectUnkeyed` | header and body |
| `InsertKey`, `KeyConflict`, `GetKey` | `Check`: the claiming INSERT, or the second statement and the handler's `switch` on what it read |
| `RejectRequest` | `decode`, field checks, `Create`'s validation |
| `Panic` | `CardNumber[len-4:]` on a number of fewer than four digits |
| `InsertPayment`, `InsertEvent` | `repo.Insert`, `createEvent` |
| `FailKey`, `CompleteKey` | `Fail`, `Complete`: the unguarded `UpdateKey` |
| `StatementFails`, `Crash` | a statement fails without effect; the handler dies |
| `GrowOld` | time passes |
| `Fetch`, `FetchFails` | the sweeps' query |
| `Resolve`, `ResolveFails` | one turn of their loop, the guarded update included; the answer of an update that took effect may be lost, and the key is then not counted |
| `Restart` | the process stops and starts again |

A body is abstracted to the first error it meets (`BodyKind`); which digits
make it so is said by `KindOf` in `PaymentRequest`. `SlowHandlers` says whether a handler
may outlive `sweepMinAge`. In the code it may: no deadline ends a handler, and
the age compares two clocks. The properties that need the contrary are stated
under `~SlowHandlers` and checked in a run of their own.

Choices a reader should know:

* A handler's answer counts from the moment it returns. `decode` writes its
  error before `Fail` stores its own; every other path answers after it.
* The loop of a sweep takes its keys in any order, which includes the code's.
* Single handlers and sweeps die; the crash of a process is several of those.
* Rows of `idempotency_keys` are never deleted (`expires_at` is read by
  nothing), so `GetKey` after a conflict always finds its row.
* A stored response is read back as it was stored. `pgScanBytes` drops anything
  that is not `[]byte`, and whether the driver hands it JSONB as bytes is
  outside this repository.

### PaymentRequest, PaymentTable

The operators have the names of the Go functions. A string is a sequence of
tokens, so that a card number is looked at digit by digit and everything else
is as short as the checks allow; the two regular expressions are the sets of
strings they match (`UPIIDs`, `IFSCs`). `KindOf` is the first error of
`handleCreatePayment` and `Create`, `Payment` the `domain.Payment` that
`Create` builds, `Row` the columns `Insert` writes (`nullableString` makes the
empty string `NULL`, `TIMESTAMPTZ` drops nanoseconds), `Checks` the five `CHECK`
constraints, `TypesFit` the column types that can refuse what no Go check
looks at (`CHAR(3)`, `INET`). A `CHAR(3)` is three characters: `Char3` pads
shorter text with blanks and keeps the first three of longer text, which is an
error unless only blanks are lost (`FitsChar3`); `char_length` does not count
trailing blanks (`currency_length`). So `"INR "` is stored as `"INR"`, `"EURO"`
is refused by the type, `"IN "` and `"IN"` by the constraint. `ReadRow` is what `GetByID` and `List` scan,
`fetchPayment` what recovery scans. Ciphertext and fingerprint are tags of
their input, different for different input and never empty.

### PaymentQueries

`phase`, `sent` and `answer` follow the POST that was given identifier `i`;
`rows` is the table. `walk`, `customer`, `asked`, `cursor` and `page` are a
client's walk through `GET /v1/payments`; `earlier` (pages before this one) and
`atStart` (the customer's payments when it began) are history that only
properties read.

| Action | Code |
|---|---|
| `Accept`, `Refuse` | validation and `uuid.NewV7` in `Create` |
| `Insert`, `InsertFails` | `repo.Insert`; the 201 may be lost or replaced by an error after the row is there |
| `StartWalk` | a client chooses customer and limit |
| `ListPage` | `handleListPayments`: `List`'s limit, the query, `next_cursor` |
| `GetPayment` | `handleGetPayment`, an operator, for it changes nothing |

Identifiers are numbers because UUIDv7 sorts by time. An `Accept` may take any
free identifier and an `Insert` may come at any time after it, which includes
clocks of several instances that disagree. The status is left out: no query
filters by it.

`PagedReading` sees of this only what a client can tell: `owned`, the payments
each customer has (the rows, by customer); what was `owed` to the reading when
it began (`atStart`) and what it has `shown` (`earlier` and `page`); and whether
it is a `whole` one, which it is for limits up to `MaxLimit`. Limits, cursors
and the order of `ListPage`'s query are gone: a page shows payments of the
customer older than all shown before, at least one if more are to follow.

### ServerLifecycle

`phase` is where the main goroutine is, `code` how the process ended; `env` its
environment. `pool`, `maxConns` and `lent` are the pool, `doing`, `left` and
`refused` the users of it: requests, the startup sweep and the worker.

| Action | Code |
|---|---|
| `FailToStart`, `Begin` | `Load` and `Connect`, then the worker's goroutine and the startup sweep |
| `StartListening`, `Notify` | `Start`: the listener's goroutine, then `signal.Notify` |
| `ListenFails`, `Terminate`, `Kill` | `errCh`; the first signal; SIGKILL, or a signal before `Notify` |
| `Drained`, `DrainTimesOut`, `Closed` | `Shutdown` returning nil or an error; `db.Close` |
| `Accept`, `Want`, `Acquire`, `Refuse`, `Release`, `Return` | a handler or sweep and its statements |
| `ClientGone` | the request's context is cancelled |
| `EndSweep`, `Tick` | the worker |

A transaction is one statement here: it holds one connection from `Begin` to
its end. `handleReady` is a request of one statement. What statements do is the
subject of the other modules. pgxpool and `net/http` are external: a closed pool
refuses `Acquire`, `Close` waits for what is lent, and `Shutdown` waits for
handlers. `context.Background()` is the parent of both sweeps' context, and
`cancel` is deferred to the end of `main`, so neither is ever cancelled while
the process lives.

`GracefulServer` sees the process as `down`, `up`, `stopping` or `gone`
(`SeenServer`), each request as `none`, `taken`, `answered` or `lost`
(`SeenRequest`), and `orderly` as exit code 0. Configuration, pool and sweeps
are gone; what is left is when requests are taken, that each is answered once,
and that none is lost by a process that says it ended well.

## 3. Runs

| Run | Instance | Shows |
|---|---|---|
| `PaymentService_safety` | 1 payment, 5 requests | `TypeOK`, `AuditTrail`, `ReadStaysCurrent`, `CapturedOrCancelledOnce`, `OneWinner`, `WaitsForRunning`, `LedgerSpec` |
| `PaymentService_liveness` | 2 payments, 3 requests | `EveryCallReturns` |
| `PaymentService_counter` | 1 payment, 2 requests | `CountedTransitionsHappened` is violated |
| `CreatePayment_safety` | 3 requests, 1 key, 2 bodies, both sweeps | `TypeOK`, `OnePaymentPerKey`, `CompletedKeyNamesItsPayment`, `SuccessNamesOwnPayment`, `CompletedIsFinal`, `ResolvedOnce`, `RegisterSpec` |
| `CreatePayment_timely` | the same, bodies of three kinds, no slow handler | `ReplaysAgree`, `ResolvedIsFinal` |
| `CreatePayment_liveness` | 2 requests, 2 keys, 1 worker, LIMIT 1, a body that panics | `EveryKeyResolved` |
| `CreatePayment_late_handler` | 2 requests, 1 key | `ResolvedIsFinal` is violated by slow handlers |
| `CreatePayment_timed_out` | 2 requests, 1 key | `TimedOutKeyHasNoPayment` is violated |
| `CreatePayment_replay` | 2 requests, 1 key, bodies of three kinds | `ReplayRepeatsAnswer` is violated |
| `PaymentQueries_safety` | 3 identifiers, 16 bodies, 2 customers, limits below, at and above the maximum | `TypeOK`, `OnlyCurrencyCanFail`, `BrandMatchesCvv`, `MistypedCardRefused`, `PageExtendsWalk`, `WalkIsComplete`, `ReadBackAgrees`, `ReadingSpec`, `WalkEnds` |
| `PaymentQueries_rebuild` | the same | `RebuiltResponseIsHandlers` is violated |
| `ServerLifecycle` | 2 requests and both sweeps, 10 environments, pools of 1 and 2, integers of 3 bits | `TypeOK`, `OrderlyExit`, `OnlyWorkerIsRefused`, `ServerSpec`, `ShutdownCompletes`, `RequestsEnd` |

Bounds, and why they are enough.

* Payments do not interact (locks, status and trail are per payment), so one
  suffices for safety; five requests create, confirm and capture it and leave
  two to race for the refund or against the capture. Liveness has two payments,
  so that a lock on one does not hide in the other's progress.
* Three requests under one key are an owner, a retry during its work and a
  replay after it, or two replays to compare. Keys do not interact except in
  the sweeps' batches and `LIMIT`, whose question is progress: the liveness run
  has two keys and a limit of one.
* Ages are three classes because the code compares with two thresholds.
* A request is handled once and retries are other requests, so every run is
  finite; `recovered` is bounded by `ResolvedOnce` and not by a constraint.
* `LIMIT` is 1 or 2 instead of 100, so that it is met.
* Three identifiers and a largest page of two give a full page, a short page
  after it, an empty page after a full one, and a row that appears behind or
  ahead of the cursor in between. `DefaultLimit` 1 and `MaxLimit` 2 stand for 20
  and 100; a limit of 3 is above the maximum. Limits below one are answered
  400 by the handler, so none is in `Limits`.
* The bodies have one of each method and one of each refusal, an Amex beside a
  Visa, one with blanks after its currency, and three that only the table
  refuses: an address, and currencies of four and of two characters. Real numbers are
  longer; the theorems about the Luhn sum are for numbers of any length.
* Four users and pools of one or two connections make every user wait. Two
  statements each are a first, and one after a refusal or a wait. The
  environments' sizes 4, 8 and 9 wrap to -4, 0 and 1 in three bits.

Identifiers are symmetric in the safety runs; the liveness runs have no
symmetry.

Deadlock is checked in every run but `ServerLifecycle`, where the process
exits. `PaymentService` has the explicit step `AllDone`; in `CreatePayment` the
worker's next tick is always possible, and in `PaymentQueries` the next walk.

### Fairness

`PaymentService!FairSpec`: weak fairness of each request's `Step`. The database
answers a statement that is not waiting for a lock, and the Go scheduler runs
the handler. Failures and crashes have no fairness.

`CreatePayment!FairSpec`: weak fairness of handlers and of time, weak fairness
of a worker's query (its ticker fires) and strong fairness of its guarded
update: an update that is tried again and again does not fail for ever. This
is an assumption about the database; without it no recovery can promise
anything, and a full batch of keys whose updates always failed would starve the
others. The startup sweep has no fairness and is absent from that run: the
worker alone resolves every key.

`PaymentQueries!Spec`: weak fairness of `ListPage`: the client of the walk
follows `next_cursor` for as long as it is given one.

`ServerLifecycle!Spec`: weak fairness of the main goroutine and of every user's
own steps, for the scheduler runs them and the database answers what it was
asked; strong fairness of `Acquire`, for pgxpool serves those who wait in order,
so that nobody is passed over again and again. Arrivals, signals, clients
hanging up and ticks have no fairness.

### What the violated properties show

1. `ResolvedIsFinal` (with slow handlers): a handler that outlives the sweeps'
   minimum age overwrites the key a sweep failed, since
   `repository/idempotency.go:88` has no guard. One replay is told
   `processing_timeout`, a later one 201.
2. `TimedOutKeyHasNoPayment`: `payment_id` is written only together with
   `completed`, so a pending key never has one, and a sweep tells the client to
   "retry with a new idempotency key" (`startup.go:188`) although the payment
   exists. The branch that rebuilds the response is never reached.
3. `ReplayRepeatsAnswer`: the stored response is not the one sent; for example
   415 first, 400 on replay; or 400 `invalid_amount`, then 422
   `payment_failed`.
4. `CountedTransitionsHappened`: `payment_state_transitions_total` counts
   transitions that were rolled back.
5. `RebuiltResponseIsHandlers`: `fetchPayment` scans columns into plain strings
   that the `CHECK` constraints make `NULL` for some method or other, so it fails
   for every stored payment, and it does not select the metadata. `domain/response.go:5-7` promises the handler's response. The
   branch is unreachable today because of 2; mending 2 alone would reach it.

Properties that hold and may still surprise: a limit above 100 shows 20 payments
and no `next_cursor`, so the rest of the list is not offered (`WalkIsComplete`
claims nothing of such limits); the 201 has nanoseconds in `created_at`, and
may have blanks after the currency, that no later GET shows (`ReadBackAgrees`
says that nothing else differs); and a currency that is not of three characters
passes every check in Go, so that only the INSERT refuses it
(`OnlyCurrencyCanFail` says that of the constraints no other can).

## 4. Proofs

Checked by `tlapm` for every value of the constants, from the assumptions named
in the modules: `NoRequest` is not a request (`NoRequestAssumption`); the kinds
of bodies, `None`, the two kinds of sweeps, `SweepLimit` and `SlowHandlers` are
what their comments say; limits are positive and the default is one that `List`
accepts (`LimitAssumption`, handler and service read together); the regular
expressions do not match the empty string, card fields are strings, and `NULL`
is none (`TextAssumption`); no request is called startup or worker, and the
numbers an environment holds are integers (`LifecycleAssumption`).

**PaymentService_proofs.** The inductive invariant `IInv` adds to `TypeOK` and
`AuditTrail`: `Calling` (what a request asks for agrees with the code it is
running), `Creation` (a payment's creator is alone, and finds no row), `Locking`
(row locks are held by exactly the transactions that took them), `Reading`
(whoever read FOR UPDATE has seen the committed status, and writes an edge of
the graph) and `Recording` (a request has no event in a trail before it
commits). `AuditTrail` is not inductive by itself: `Commit` appends an edge from
`seen`, and only `Reading`, which rests on `Locking`, says that `seen` is still
the status.

* `TypeCorrect`, `AuditTrailExplains`, `ReadsStayCurrent` follow from `IInv`.
* `NoWaitingChain`: by `Locking`, whoever holds a row's lock is past its `SELECT
  ... FOR UPDATE` of that very row, and its own `UPDATE` finds the lock its own.
  This is the part of `EveryCallReturns` that is not about fairness: there is no
  cycle of waiting, and no lock whose holder has returned.
* `ImplementsLedger`: every step opens, records, moves or stutters.
* `MoneyMovesOnce`: along every trail the statuses rise strictly in `Rank`, an
  order of the status graph (`Rising`); captured and cancelled have one rank.
* `AtMostOneWinner`: a request answered "ok" has its event in the trail
  (`Answering`), and two events with one target contradict `MoneyMovesOnce`.

**CreatePayment_proofs.** A claimant of a key is a handler that inserted the
key's row, until it returns, and for ever if it created a payment. `IInv` adds
to `TypeOK`: `Progress` (what a handler has done, by the statement it is at),
`Claiming` (each key has at most one claimant, whose body the row records),
`Outcomes` (what each status of a key says of its row, of its count and, when
completed, of its payment and of the handler that is no longer at work) and
`Sweeping` (the keys a sweep fetched had no payment). The properties are not
inductive by themselves: that no second payment is made, and that no late
handler overwrites a completed key, both rest on `Claiming`.

* `TypeCorrect`, `AtMostOnePayment`, `CompletedKeysAreTrue`,
  `AtMostOneResolution`, `CompletedKeysAreFinal`, `ImplementsRegister` follow
  from `IInv`; `SuccessIsOwn` adds `Answering`.
* `ResolvedKeysAreFinal` and `ReplaysAreEqual` assume `~SlowHandlers`, and add
  `Timely` (nobody works for a key that is resolved, old enough to be swept, or
  in a batch) and `Replaying` (a replay is what the row still says).

**PaymentQueries_proofs.** `IInv` adds to `TypeOK`, `PageExtendsWalk` and
`WalkIsComplete`: `Stored` (a row, and an answer, is that of the accepted body
it was made of) and `Walking` (while a walk goes on, whatever the customer had
at its start has been shown or is below the cursor, and the cursor is not above
anything shown). Completeness is not inductive by itself: only `Walking`
relates the cursor to what was shown before, and only `LimitAssumption` lets a
page shorter than the limit be the last. The statements about bodies rest on
lemmas about the constant modules (`PostMade`, `ChecksHold`, `RoundTrip`), with
one case per method.

* `TypeCorrect`, `PagesExtendWalk`, `WalksAreComplete` are conjuncts of `IInv`.
* `ConstraintsAgree` (of all the `CHECK` constraints, only `currency_length` can
  refuse what `Create` accepted), `BrandsMatch` and `ReadsAgree` (GET is the 201,
  with the currency and `created_at` as their columns keep them) follow from
  `Stored`, for every body a client can send; so does `MistypesRefused`, with
  the theorems of `PaymentRequest_proofs`.
* `NextPageExists`: among any payments, `ORDER BY id DESC LIMIT n` has exactly
  one page. It exists by induction on `n` (`PageExists`: the largest payment that
  is not on the page makes it one longer); of two pages one contains the other
  (`PageUnique`). So `ListPage` is never stuck, and in each state there is one
  thing it can do.
* `ImplementsReading`: an `Insert` is an `Appear`, `StartWalk` a `Begin`, and
  `ListPage` a `Show`, by what `PageExtendsWalk` and `WalkIsComplete` say of the
  state it leads to. With `NextPageExists` this is the part of `WalkEnds` that is
  not about fairness: the client can always go on, and every page but the last
  shows at least one of `N` payments that was not shown before.

**PaymentRequest_proofs.** The sum of `luhn` is a recursive function, and what
it is for numbers of any length needs induction. That is done without the
library's induction theorems, on sets: the numbers up to which something holds
contain 0 and with each its successor, so they are all there are
(`SetInduction`, from the least element of what is left, `LeastElement`). In
this way the sum exists and satisfies its recursion (`LuhnSumRecursion`), and
replacing one digit changes the whole sum by what that digit adds
(`ReplacedSum`, from `SumsDiffer`).

* `LuhnDetectsMistype`: a number that passes does not pass with one digit
  changed, since `Doubled` permutes the digits (`DoubledPermutes`) and two
  different digits differ by less than ten.
* `LuhnDetectsSwap`: nor with two neighbours exchanged, since of two neighbours
  one is doubled, and what a digit gains by that tells all digits apart but 0
  and 9 (`GainDiffers`). This is where the alternation of the loop matters: an
  undoubled sum would notice no exchange.

**ServerLifecycle_proofs.** `IInv` adds `Order` (what has returned, and what the
pool is, in each phase: after `Drained` no handler runs, the startup sweep
returned before anyone listened) and `Lending` (whoever is in a statement has
been lent a connection). `OrderlyExit` needs both: `Closed` waits
for `lent` to be empty, which says something about the worker's statement only
by `Lending`.

* `TypeCorrect`, `ExitIsOrderly`, `HandlersKeepPool` follow from `IInv`.
* `ImplementsServer`: one lemma for the main goroutine (`MainSeen`), one for the
  steps of a handler or sweep (`UserSeen`), of which clients see the first and
  the last; `Order` says who is in flight when the process leaves or dies.

Model-checked only: the five liveness properties (fairness and `ENABLED` are out
of the prover's reach), and that the five violated properties are violated.
Every other property of every run is a theorem. No module declares a
`RECURSIVE` operator.

## 5. Not modelled

* AES-GCM and SHA-256 themselves: library code. That what is encrypted can be
  decrypted is never used: nothing in the repository decrypts.
* Middleware, request ids, logging, latency series: no effect on the tables,
  the pool or the life cycle.
* Durations, addresses and `DB_MIN_CONNS` in the configuration, TLS and HTTP
  timeouts: no condition of the code depends on them but `ShutdownTimeout`,
  which may run out at any time in the model.
* Columns that are only carried along (`email`, `user_agent`, `updated_at`), and
  the time zone `created_at` is shown in.
* The statements of handlers inside `ServerLifecycle`, and connections inside
  the other modules: `Crash`, `StatementFails` and `Restart` are what a killed
  process, a refused `Acquire` and a cancelled context are to the tables.
* The wire format of JSONB: `pgScanBytes` keeps only `[]byte`, and which type
  the driver hands it is not in this repository.
* `StatusFailed`: no code path asks for it; the edge is in `CanTransitionTo`.
* The value of `MaxAmount`: a parameter. The source has `100_000_00` paise,
  which is one lakh rupees, under a comment that says ten (`validator.go:40`).

A payment can be confirmed before its creation event is committed, or without
one for ever when `createEvent` fails (`service/payment.go:125-134`). This is in
both models of creation (`Insert` and `CreateEvent` are separate steps) and
listed as a hazard; `LedgerSpec` and `AuditTrail` are about the events that
transitions write.

## 6. Plan

In order of weight; 1 to 6 are done.

1. `PaymentService` with `PaymentLedger`: races, audit trail, proofs.
2. `CreatePayment` with `AtMostOncePayment`: idempotency, recovery, proofs.
3. `PaymentRequest`, `PaymentTable`: validation, constraints, rebuilding.
4. `PaymentQueries`: pages, cursors, limits, proofs.
5. `ServerLifecycle`: start, pool, drain, exit, proofs.
6. `PagedReading`, which `PaymentQueries` implements, and `GracefulServer`,
   which `ServerLifecycle` implements; card numbers of any length.
7. `PaymentSystem`: `CreatePayment` composed with `PaymentService`: a client
   that pays again under a new key after a timeout, transitions on a payment
   whose `Create` has not returned.
