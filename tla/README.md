# Railbook in TLA+

A formal model of [railbook](../src/README.md), a train-ticket booking service
(FastAPI + SQLAlchemy async over PostgreSQL, Redis for a seat cache and rate
limits, a mock payment gateway, a React client). The modules here say what the
service does statement by statement, TLC checks them on small instances, and
TLAPS proves the properties that matter most for every number of requests,
users, seats, keys and instants.

    tlc -workers 2 -config race.cfg MCBookingEngine     # a run
    tlapm BookingEngineProofs.tla                       # the proofs of a module

Paths below are relative to `src/backend/app/` unless they start elsewhere.

## 1. Inventory

| Component | State | Operations | Interacts with |
|---|---|---|---|
| Booking engine `bookings/service.py` | tables `bookings`, `payments`, `audit_trail` (`models.py`) | `create_booking`, `pay_booking`, `refund_booking`, reads | database locks and constraints, gateway, audit, seat cache |
| Cleanup task `bookings/cleanup.py` | none of its own; a background task per process | every 60 s: cancel overdue reservations | same rows as the engine, `SKIP LOCKED` |
| Payment gateway `payments/gateway.py` | `_processed`, in the memory of the process | `charge` (idempotent per key), `refund` (not) | called by the engine between two statements of a transaction |
| Audit trail `audit/service.py` | `audit_trail` rows | `log_audit` adds a row to the caller's transaction | every transition |
| Database `database.py`, `models.py` | rows, row locks, unique and foreign keys, a pool of 10+20 connections | sessions closed at the end of a request | everything |
| Seat cache `trains/service.py`, `redis.py` | Redis `seats:<schedule>`, TTL 5 s | cache-aside read, best-effort invalidation | written by readers, deleted by the engine after a commit |
| Rate limiter `ratelimit/limiter.py` | a Redis sorted set per client and path | trim, count, add, expire in one pipeline | dependency of login, register and create |
| Authentication `auth/` | table `users`; stateless tokens | register, login, refresh, current user | gives every engine call its `user_id` |
| Race demo `demo/service.py` | none | two concurrent creates, reports a winner | client of the engine |
| Admin statistics `admin/service.py` | none | five counts, each a statement with its own snapshot | reads the engine's tables |
| Startup and seed `main.py`, `seed.py` | seeded rows, the worker processes | seed if there is no train, start and cancel the cleanup task | database |
| Migrations `src/backend/migrations/` | the schema | `upgrade`, once, before a worker can start | database |
| Frontend `src/frontend/` | per page | HTTP client | the API |
| Load test `src/loadtest/` | none | sends requests; `verify_integrity.py` checks the tables afterwards | the API, the tables |

What makes them hard, and what makes each correct:

* **Engine.** Many requests interleave at every `await`; PostgreSQL runs at
  READ COMMITTED, so a statement sees what was committed when it began and a
  later write may rest on a stale read. `FOR UPDATE` locks rows that exist and
  nothing else, so the first booking of a slot is guarded only by unique
  constraints. A payment keeps its row locked through half a second of gateway
  latency while the clock, the cleanup task and other payments go on. A failure
  may hit between an external effect and the commit that records it. Correct
  means: no seat is sold twice, a key names one booking, what was checked is
  still true when it is written, payments, statuses and audit agree, no wait
  is circular, everything is answered, expired seats come back.
* **Gateway.** Its memory dies with the process while the database survives.
  Correct means that a charge pays for one booking, and that only the
  failure of the request that made it can lose it.
* **Connection pool.** A request keeps one of 30 connections from its first
  statement through the gateway's sleep. Correct means that a full pool refuses
  the request at once or later, and blocks nobody who has a connection.
* **Seat cache.** A fill that read before a commit can land after the
  invalidation of that commit; the cleanup task never invalidates; a Redis
  failure loses an invalidation. Correct means that what is outdated has a
  known cause and a life of at most the TTL.
* **Rate limiter.** The clock is read before the pipeline runs, so requests enter
  the window out of order; equal timestamps collapse to one member; refused
  requests count; the key expires by itself; Redis failures let requests through.
  Correct means a bound on what is admitted by the count in any window, and that
  a key at rest for a window is always enough.
* **Authentication.** Check-then-insert on registration, beside the seeding of
  other workers; two kinds of token. Correct means that of the registrations of
  an address one succeeds and stays, and that no session outlives its tokens.
* **Startup.** Workers start together, all find an empty database, seed it at once
  and may die in the middle. Correct means that a worker that serves finds all of
  the seeded rows, and that no death leaves a database no worker can start on.
* **Statistics.** Five statements, five snapshots. Correct means that no settled
  booking falls between them and that the revenue covers the confirmed.
* **Race demo and integrity check.** They are how the system is demonstrated and
  judged: the demo must name the true winner, the check must pass when all is
  over.

Each hazard is listed with its line in `PROJECT.json`, with the properties that
cover it or the reason none does.

## 2. Modules

| Module | Role |
|---|---|
| `BookingTypes` | the vocabulary: statuses, audit entries |
| `BookingLifecycle` | the abstract specification: what the committed tables may do, one atomic step per transaction, no locks, gateway or clock |
| `BookingEngine` | the detailed one: every statement of the three handlers, the cleanup task, the gateway and the connection pool, as an action |
| `RaceDemo`, `IntegrityCheck` | `run_race` and `verify_integrity.py`, as definitions over the engine's state |
| `BookingClaims` | statements of the repository's documents and tests that the code does not keep |
| `MCBookingEngine` | instances of the above for TLC: constants and sets of request parameters |
| `SeatCache` | readers of the seat map, the Redis key, the deletions after commits; its tables move by the steps of `BookingLifecycle` |
| `AdminStats` | `get_stats`, statement by statement, over the same steps |
| `Reads`, `MCReads` | `SeatCache` and `AdminStats` over one life cycle; its instance |
| `HostClock` | the clock of limiter and tokens |
| `RateLimiter` | `RateLimiter.check` as a machine of its own |
| `Startup` | migration, seeding and death of worker processes |
| `Accounts`, `MCAccounts` | the composition of `Startup` and `RateLimiter` with the handlers of `/auth` and the dependencies that stand before every other handler; its instance |
| `BookingEngineProofs`, `BookingAnswersProofs`, `LifecycleProofs` | theorems about the engine: its tables, its answers, its abstract specification |
| `RaceDemoProofs` | the theorem about the race demo |
| `ReadsProofs`, `RateLimiterProofs`, `AccountsProofs` | theorems about the others |

The engine is composed with the rest in two ways. `SeatCache` and `AdminStats`
take their commits from `BookingLifecycle`, which the engine is proved to
implement, so that what holds of the readers holds for every engine behaviour
without its statements having to be explored again. `Accounts` ends where a
request is `"served"`: that is where the engine's `Receive` begins.

`BookingEngine` contains `Lifecycle == INSTANCE BookingLifecycle WITH ...`: a
booking is a create request, `slot` is `SlotOf` and `receipts` is `Receipts`,
and `Implements` says the committed tables follow the life cycle, over the pairs of
schedules and seats that have rows (`Schedules \X Seats`): a row for anything else
would be no step of it.

### State and actions of `BookingEngine`

The tables are the **committed** ones; a transaction's own uncommitted writes
are known from its `pc`, and `CreateCommit`, `PayCommit`, `RefundCommit` and
`CleanupCommit` publish them in one step. A create request stands for the
primary key of the row it would insert (`uuid4`, never reused).

| Variable | Code |
|---|---|
| `status`, `expires` | `bookings.status` (`"none"`: no row), `bookings.expires_at` |
| `payments`, `audit` | tables `payments`, `audit_trail` |
| `lock` | holder of `FOR UPDATE` on the row, until its transaction ends |
| `pc`, `seen`, `charge`, `outcome` | a handler's next statement, its locals `existing_booking` and `charge_result`, its answer |
| `processed` | `MockPaymentGateway._processed` |
| `charged`, `refundCalls` | history: charges that took money, refunds that returned it |
| `batch` | the rows the running cleanup pass has locked |
| `now`, `call`, `faults` | the clock, the parameters of the requests, the failures so far |

| Action | Code |
|---|---|
| `CreateLookup`, `CreateLock`, `CreateOverlap`, `CreateReplace`, `CreateInsert`, `CreateIndex`, `CreateCommit` | steps 1–6 of `create_booking`, with their early returns. The waits are the row lock of step 2 and, in step 5, PostgreSQL's waits for pending duplicates: `CreateInsert` is the INSERT up to its index entry for the key, `CreateIndex` the entry for the slot and the foreign keys |
| `PayLock`, `PayLookup`, `PayAnswer`, `PayCharge`, `PayFlush`, `PayCommit` | `pay_booking`; `PayAnswer` is `enrich_booking` for a key that has paid, with the row still locked; `PayCharge` is `payment_gateway.charge` after its sleep; `PayFlush` inserts the payment, and waits for a pending one of its key |
| `RefundLock`, `RefundReturn`, `RefundCommit` | `refund_booking`; `RefundReturn` includes `payment_gateway.refund` |
| `CleanupSelect`, `CleanupCommit`, `CleanupFail` | one pass of the cleanup task: select, commit, or raise and be rolled back |
| `Abort`, `Crash` | a request's statement or connection fails; the process dies |
| `Receive`, `PoolTimeout` | a request gets a connection of the pool, or waits for one in vain and ends in a 500; the cleanup pass needs one too (`CleanupSelect`) |
| `Tick`, `Rest` | time passes; everything is over |

`RaceDemo` picks two create requests of one slot with keys of their own, maps
their outcomes to status codes and names the winner as `run_race` does;
`IntegrityCheck` has the four queries and the exit code of `verify_integrity.py`.

### State and actions of `SeatCache`, `AdminStats` and `Reads`

| Variable | Code |
|---|---|
| `cache`, `ttl` | the value of `seats:<schedule>` in Redis and the time it has left |
| `owed` | requests that have committed a change and have not yet called `_invalidate_seat_cache` |
| `at`, `read` | a reader's next await in `get_seat_availability`, and the map it has queried |
| `calm`, `causes` | history: time since a cached map went out of date, and what may have outdated it |
| `ran`, `answer`, `settled` | statements of `get_stats` that have run, their results; history: the bookings settled at the first |
| `audience` | whether a behaviour has map readers or an administrator: neither writes what the other reads |

| Action | Code |
|---|---|
| `EngineCommit` | a commit of create, pay or refund, which now owes a deletion |
| `CleanupPass` | a commit of the cleanup task, which owes none |
| `Invalidate`, `LoseInvalidation` | the deletion after the commit; Redis refuses it, or the process dies before it |
| `Ask`, `Hit`, `Miss`, `Query`, `Fill`, `GiveUp` | the awaits of `get_seat_availability`: lookup, query (404 for an unknown schedule), fill with `EX 5`; a Redis error is a miss, or a fill not made |
| `RedisRestart`, `Tick` | Redis loses its data; time passes in Redis |
| `Statement`, `Answered` | the next of the five statements of `get_stats` runs; the numbers are returned |

A map is the set of seats that are taken, with their status; seats without a live
booking are the rest of the train's. A count is represented by the set it
counts, and the revenue by the set of bookings whose payments it sums.

### State and actions of `RateLimiter`, `Startup` and `Accounts`

| Variable | Code |
|---|---|
| `key`, `stamp`, `verdict` | a call of `check`: its key, the `time.time()` it has read, how it ended |
| `window`, `lapses` | the members of the sorted set, and when the key expires |
| `ran` | history: calls whose pipeline ran since Redis last lost its data |
| `schema`, `trains`, `users` | the migration has run; the seeded rows; the password hash of each address |
| `stage` | where each worker is in `lifespan` |
| `call`, `at` | what the client sent and to which worker; the await of its handler, or its outcome |
| `tokens` | tokens that have been issued; they are never revoked |
| `granted` | history: when tokens were last issued to an address |

| Action | Code |
|---|---|
| `Check`, `Execute`, `FailOpen` | `RateLimiter.check`: the clock is read and the pipeline sent; it runs and its count decides; Redis fails, with or without having run it, and the request passes |
| `Wait`, `RedisRestart` | time passes; Redis loses its data |
| `Migrate`, `Boot`, `SeedCheck`, `SeedFlush`, `SeedCommit`, `Die` | `upgrade`; a worker starts, looks for a train, inserts (waiting for a worker that has inserted the same unique values), commits and serves; it dies |
| `Arrive` | a request reaches a worker: `/auth` asks the limiter, the rest decodes the token |
| `LimitAnswer` | the limiter's verdict, then the handler or a 429 |
| `RegisterLookup`, `RegisterCommit`, `RegisterAnswer` | `register_user` up to its query, its commit, and the tokens |
| `Login`, `UserLookup` | `authenticate_user`; `get_current_user` with what follows it: refresh, `/me`, the admin's role, or the limiter of bookings and payments |
| `WorkerDies`, `LatePipeline` | a worker dies with its requests; a pipeline it has sent may still run |

Abstractions here: the members of a window are their scores, as in the code,
where two calls at one instant are one member; the scores are naturals. Window
and tokens are read on one clock (`HostClock`): workers on several hosts, or a
Redis whose clock runs away from theirs, are not modelled. Passwords are equal or
different, tokens cannot be made up. A request that dies after its commit is
`"lost"` to its client. The system user of the audit trail has a hash that bcrypt
rejects, so a login as him is a 500.

### Abstractions of the engine

* One clock stands for the hosts' and the database's. `expires_at` is set from
  the application's clock and compared with `func.now()` by the cleanup task
  and with `datetime.now(UTC)` by `pay_booking`; skew is not modelled.
* The cleanup task's period is "at any time": a pass every 60 s is one of
  the behaviours. The task is a single one (one process).
* The flush of a create and that of a payment are actions apart from their commits,
  because they wait for pending rows: a create with nothing locked, at its second
  wait with the entry for its key made, for which others may wait; a payment with its
  booking's row locked. The index entries of a booking are made in the order in which
  the migration declares the unique constraints (`596377e27b70_initial_schema.py:86-87`).
  The other flushes touch only the locked row and new rows that nobody else can
  collide with, and are one action with what follows them: the audit entry before
  the charge with the charge, the flush of a refund with its commit.
* A request ends in the model at its commit. What the router does after it,
  `_invalidate_seat_cache` apart, is `enrich_booking`: it takes a connection again and reads
  rows that never change. If that fails, a write that is done is answered with a
  500: an answer that is lost after its commit, as below. An early return of
  `create_booking` (`"found"`) and every `HTTPException` hold no lock that outlives
  them by more than the closing of the session.
* Ids are looked up, never computed: uuids are model values, a seat is not
  required to belong to the train of the schedule (the code does not require
  it either).
* A crash frees locks at once; PostgreSQL does so when it notices. An answer that
  is lost after its commit changes no table: to the client it is a request of
  unknown outcome, and what the client does next is another request.
* Amounts, prices, ids of audit rows, metadata, addresses and logging are left
  out. The Redis invalidation after each commit has no effect on these tables
  and is part of `SeatCache`.
* `scalar_one_or_none` raises on two rows; where two rows are possible (the
  overlap query, after two racing creates) the outcome `"multiple_results"` is
  reachable, and where they are not (successful payments) the proof says so.

## 3. Runs

| Run | Instance | Shows |
|---|---|---|
| `race` | 3 creates; the first fixed, the others any of 20 calls (2 users and one without a row, overlapping, touching and missing schedules, 2 seats and a missing one, equal and different keys); no clock, no failures | `TypeOK`, `NoDoubleBooking`, `KeyNamesOneBooking`, `OverlapRefusalsJustified`, `RaceHasOneWinner`, `WaitsAreShort` |
| `payment` | 2 bookings of 2 users, 2 payments with equal or different keys, on the same or different bookings, by the owner or not, 1 refund, expiry, cleanup, 1 failure anywhere | `LockedReadsHold`, `PaymentConsistency`, `ChargeBacksOneBooking`, `MoneyAccounted`, `AnswersLast`, `QuietSystemVerifies`, `WaitsAreShort` |
| `lifecycle` | 2 creates for one slot, the second also for a missing schedule or seat, 1 payment, 1 refund, cleanup, 1 failure, over a pool of 3 connections; with fairness | `WaitersHoldNothing`, `AuditTrailTellsStatus`, `Implements`, `EveryRequestAnswered`, `ExpiredReservationsReleased` |
| `reads` | 2 bookings, 2 readers; or an administrator who asks for the statistics again and again | `ReadsTypeOK`, `HealsWithinTTL`, `StalenessExplained`, `RevenueCoversConfirmed`, `SettledAreCounted`, `StaleMapsVanish` |
| `access` | 2 workers on a new database; 2 calls of any kind to a seeded one; 3 logins in a row | `AccountsTypeOK`, `ServingImpliesSeeded`, `SeedIsWhole`, `RegistrationsLast`, `AdmitsAtMostLimit`, `RetryAfterHonoured`, `SessionsLapse` |

In `race` and `payment` deadlock is checked: the only state without a further
step is `Rest`, in which every request is answered and nothing is overdue. It is
checked in `reads` too, where readers never stop. In `lifecycle` requests need
not arrive and the clock stops at its bound, so deadlock checking is off and
the liveness properties take its place; in `access` it is off because calls, deaths
and clock run out.

**Bounds.** `MaxTime` caps the clock, `MaxFaults` the failures. A reservation
lasts one unit and overdue means strictly later, so two units of time reach
reserve, expire and clean up in every order with a payment in flight; the first
schedule leaves at 2 and the refund cutoff is 1, so a refund can be in time and
too late. One failure lets the process restart, or a connection
break, with two payments of one key and a refund in flight, which is what
`MoneyAccounted` must survive (its last conjunct speaks of two refunds, and the run has
one: that part rests on the proof of `MoneyIsNeverLost`); each failure returns to states that are reachable
without it, minus what the gateway forgot. Two requests make a race; three let two losers meet after a winner. The waits that `WaitsAreShort` is about meet in two runs: in `race` one
create can wait for the key of a second that waits for the slot of the third, in `payment`
the refund can wait for the row of a payment that waits at its flush for the other. No
state constraint is used. `payment` declares its two payments symmetric, which
is sound: its workloads give each of them the same calls, its properties are
invariants and name neither. All safety properties are also proved,
without any bound.

The pool has the 30 connections of the code in `race` and `payment`, where it
never fills, and 3 in `lifecycle`, where four requests and a cleanup pass compete
for it: a request with a connection must be answered although others wait, and an
overdue reservation be released although payments keep connections. Of a request that
still waits for a connection `EveryRequestAnswered` says nothing: it gets one or, after
the pool's timeout, a 500 (`PoolTimeout`), and has done nothing yet.
`StaleAfter`, the two minutes that the integrity check grants the cleanup task, is 0,
the strictest choice.

`reads` has one schedule, one seat of its train and one of another (which
`create_booking` accepts and the map does not show), one reader of that schedule
and one of an unknown id. A TTL of 2 lets a map be filled, go out of date with
time left, and be replaced before it expires. Schedules do not interact, and the
proofs hold for any number of them.

`access` bounds three kinds of traffic apart (`MCAccounts`), since their product is
out of reach: `starts` has two calls on workers that race to seed and of which one may
die, with the clock at its end; `clients` has two calls of any route with any
token issued before, to one worker, while the clock runs; `burst` has three logins
against a limit of 1 per window of 2, enough for two calls to meet between clock
and pipeline with a third after them. The pool of Redis connections is 1, so it can be
exhausted. Access tokens live 1 and refresh tokens 2. Calls and workers are
symmetric, which is sound: they have equal parameters, and no property is a
liveness property or names one of them.

**Fairness.** The event loop resumes each coroutine whose await is over and
PostgreSQL serves lock waits, so each request's next step is weakly fair; the
cleanup task loops for ever and survives exceptions, so selecting and committing
are weakly fair; time goes on. Nothing obliges a client to send a request
(`Receive`), or anything to fail. Weak fairness of a waiting step is enough: a
row that becomes free could be taken by others for ever only if requests were
infinitely many, and in the model each runs once. This is a limit of the model:
with endless new requests PostgreSQL's lock queue gives the same guarantee by
order of arrival, which is not modelled. In `Reads` only `Tick` is weakly fair: time goes
on in Redis whatever engine and readers do, and that alone makes outdated maps
vanish (`StaleMapsVanish`); no reader, and no deletion, is obliged to act.

### Where the code and its documents disagree

Each is a run that TLC must find violated, and a finding in `PROJECT.json`.

| Run | The documents say | The code does |
|---|---|---|
| `rebooking` | a cancelled or refunded seat is released for rebooking (`docs/architecture/CONCURRENCY.md:43`, `docs/DIAGRAMS.md:87`) | the deletion of the old row fails on its audit entries: 500, for ever |
| `race_loser` | the loser waits and is answered 409 (`CONCURRENCY.md:29`, `backend/tests/test_concurrency.py:74`) | with no row to lock both insert; the loser's unique violation is a 500 |
| `overlap_race` | no window between the overlap check and the insert (`CONCURRENCY.md:72`) | two seats, one user, two overlapping journeys both commit |
| `lost_charge` | a charge whose commit fails is handled (`CONCURRENCY.md:209`) | the booking can expire, be cancelled and never be retried |
| `refund_atomicity` | refund and status commit atomically (`README.md:177`) | the refund is called before the commit |
| `pay_retry` | a retry returns the original result (`README.md:208`) | the status check comes first: 400 |
| `stale_map` | the cache is invalidated after every booking mutation (`docs/architecture/DATABASE.md:310`; cleanup included, `docs/railbook-plan.md:512`) | a cleanup pass deletes no key (`bookings/cleanup.py:24`): the map shows the seat as reserved until its TTL |

## 4. Proofs

All theorems hold for **every** value of the constants: infinite sets of requests,
workers or readers, any limits and lifetimes, no bound on time or failures.

### The engine: `BookingEngineProofs`, `BookingAnswersProofs`, `LifecycleProofs`

Assumed: `RequestsAssumption` (the kinds of request are disjoint sets and the
sentinels none of them), `WorkloadsAssumption` (every request has parameters of
its kind), `TimesAssumption` (times are naturals, rows are among the ids, a train
arrives after it has left: `seed.py` is the only source of schedules) and
`StaleAfterAssumption`.

| Theorem | Statement |
|---|---|
| `TypeCorrect`, `Invariance` | `TypeOK`, `IInv` |
| `SeatsSoldOnce`, `KeysAreUnique` | `NoDoubleBooking`, `KeyNamesOneBooking` |
| `NoStaleWrites` | `LockedReadsHold` |
| `PaymentsMatchStatus`, `ChargesAreUnique` | `PaymentConsistency`, `ChargeBacksOneBooking` |
| `TrailsTellStatus` | `AuditTrailTellsStatus` |
| `LockDiscipline`, `NobodyWaitsInACircle` | `LockInv`, `WaitersHoldNothing` |
| `EveryWaitIsForSomebodyAtWork` | `WaitsAreShort` |
| `PromisesAreKept`, `AnswersAreLasting` | `PlaceInv` and `AnswersInv`, `AnswersLast` |
| `OverlapIsExact`, `RefusalsAreJustified` | `JourneysOverlap <=> OnBoardTogether`, `OverlapRefusalsJustified` |
| `RefusalsHaveReasons` | `ReasonInv` |
| `MoneyIsFound`, `MoneyIsNeverLost` | `Ledger`, `MoneyAccounted` |
| `QuietTablesVerify` | `QuietSystemVerifies` |
| `Refinement` | `Spec => Implements` |
| `TablesMoveForward` | `Spec => [][Forward]_vars` |
| `SeatsAreNeverResold` | `SlotsSoldOnce` |

None of the safety properties is inductive. `IInv` adds what the code relies on:

* `SectionInv`: a payment past its checks, a refund past its checks and the
  cleanup's batch hold the lock of their row, and the row still has the status
  they read. This is why a write after the gateway's latency is not stale: all
  writers of a status take the lock first, `SKIP LOCKED` included.
* `RowInv`: rows that exist **or have an index entry and are not yet committed**
  have distinct keys, and those that also have the second entry distinct slots; a create has no row before its commit, and one
  that has seen an inactive row never reaches the INSERT. `NoDoubleBooking` alone
  would not survive a commit: it needs that the insertion waited for pending
  duplicates.
* `PaymentInv`: statuses and payments agree, payment keys are unique.
* `ChargeInv`: what the gateway remembers for a key was charged by a request with
  that key, so equal charges have equal keys, and unique keys, those of payments
  flushed and not yet committed included, make them one payment. It is kept by a crash because forgetting only removes.
* the audit chain of every booking ends in its status.

The proof has one lemma per group of actions (`CreateKeeps`, `PayKeeps`, ...),
frame lemmas for the conjuncts an action does not touch, and lemmas on chains of
audit entries (`ChainAppend`).

`BookingAnswersProofs` stands on `IInv` and adds invariants of its own:

* `LockInv`: a lock has a holder who is past its locked read and has not finished,
  or is a cleanup pass with the row in its batch. With `RowInv` it gives
  `WaitersHoldNothing`: the one waiter that could hold a lock, a create at its
  INSERT, has seen no row and so locked none. (A payment at its flush does hold one, and
  is not among the waiters of `WaitersHoldNothing`.) It also gives the hard part of
  `QuietSystemVerifies`: `SKIP LOCKED` can keep an overdue row from the cleanup only
  while somebody is at work.
* `WaitsAreShort` follows from both, and says that PostgreSQL never finds a deadlock
  among row locks, pending bookings and pending payments. A create waits for a row
  (`CreateLock`), for a pending key or for a pending slot, and then holds no row; but at
  its wait for the slot it has made its entry for the key, so another may wait for it.
  A payment waits for a row and, at its flush, for a pending payment of its key, and
  then holds the row of its booking, for which another may wait. In both cases the
  queue is two deep, and its head, a create or a payment with all its entries made,
  has nothing left but its commit (`LastInLine`). The last step needs that the entries of
  all bookings are made in one order, the key's first.
* `AnswersInv` says what each outcome promises; `Forward` says what any step may
  do to the tables, and `AnsweredStays` that promises survive it, so that only the
  request that ends has something to show. A refusal for an overlap needs
  `PlaceInv` (what is inserted, and every row, has a schedule and a seat) and that
  the request is not refused for its own booking (`RowInv`). The comparison of
  `service.py:70` is exact (`OverlapIsExact`): it finds an overlap if and only if the
  journeys share an instant.
* `ReasonInv`: a create that is over has ended in one of ten ways, and each refusal
  has a reason that is still in the tables. `"seat_taken"` and `"child_rows"` mean a
  row of somebody else for the slot, `"unique_violation"` one for the slot or the
  key, `"not_found"` a schedule or seat that does not exist, `"unknown_user"` a user that does
  not, whom only the race demo can name. Its last part, that the
  row a create has seen is another one of its slot, is what makes it inductive.
* `Ledger`, whatever fails. `MemoryInv`: the gateway remembers each charge that is
  about to be recorded, and what it remembers for the key of a payment is that
  payment's charge; it may have forgotten a payment after a restart, but then no
  request is left that would charge for the key again, because a restart takes all
  requests with it and later ones find the key at `service.py:147`. It settles a
  payment that loses the race for its key: it was told the charge that the winner has
  recorded. `Books`: every charge is in a payment, about to be, or made by a request
  that was cut off; refunds likewise, and at most one per booking that was not cut
  off.

`LifecycleProofs` has what follows for the tables as a whole. `Refinement` maps the
four commits to the actions of `BookingLifecycle` and all else to stuttering; the
interesting case is `CreateCommit`, where the guard of `Reserve` follows from `RowInv`
and the slot's existence from `PlaceInv`. `TablesMoveForward` says what no step does.
`SlotsSoldOnce` is the finding `rebooking` for every number of requests: a slot gets one
row in the life of the system, although documents and step 5 of `create_booking` mean a
cancelled or refunded seat to be booked again.

### The race demo: `RaceDemoProofs`

`RaceIsDecided` is `RaceHasOneWinner`: in a race of users that exist (`demo/router.py` does
not look) for a seat that exists and that no
other request has anything to do with (`Undisturbed`), if neither attempt is cut off,
exactly one has the row and `run_race` names it. `RowInv` gives at most one. At least
one is `LoserMetWinner`: by `ReasonInv` and `AnswersInv` each of the ways to lose needs a
row of somebody else, and in an undisturbed race that can only be the other attempt's.

### Readers: `ReadsProofs`

From `CacheAssumption` (slots are of seeded schedules and seats, `TTL` is positive):
`ReadsTypes`, `MapsHeal` (`HealsWithinTTL`), `MapsExplained` (`StalenessExplained`),
`RevenueCovers` and `SettledCounted`. `ReadsInv` adds to them `RowInv`, the part of
the life cycle they rest on (a booking keeps its slot, a confirmed one has its
payment), and `StatsInv`, which says after each statement of `get_stats` where a
booking that was settled at the first must have been counted or can still go: the
order of the statements follows the order of the statuses, and that is why none
falls between.

`ReadersOnlyRead` closes the composition: `ReadsSpec => Spec`, the specification of
`BookingLifecycle`, which is what `Refinement` shows of the engine. Both sides of the
interface between engine and readers are thus proved against the same module.

### Limits and accounts: `RateLimiterProofs`, `AccountsProofs`

From `LimiterAssumption`: `AdmissionsAreBounded` (`AdmitsAtMostLimit`) and
`RefusalsAreEarned` (`RetryAfterHonoured`). `CountInv` is the reason: a call that
Redis has counted is in the set as long as it is within the window, although
calls prune by the clock they have read and not by the time they run, and the key
does not expire before the last of its calls is a window old.

`AdmitsAtMostLimit` is less than the "5 requests per 60 seconds" of
`ratelimit/dependencies.py`, because the code is: it bounds instants, since two calls that
read one time are one member of the set, and counted calls, since those that Redis
failed to count pass (`docs/architecture/ARCHITECTURE.md:130` means them to).
`RetryAfterHonoured` speaks of a key: for bookings and payments that is a user's, for
`/auth` an address's, where one client's calls are the other's refusals.

From `StartupAssumption` and `AccountsAssumption` as well: `AccountsTypes`,
`ServingFindsSeed`, `SeedingIsAtomic`, `RegistrationsAreKept`, `SessionsEnd`; and
`LimiterInside`, that `AccountsSpec` implements `LimiterSpec`, so that the limiter's
two theorems hold of the service (`ServiceIsLimited`). `AccountsInv` consists of
`SeedInv` (no worker serves and no call arrives before the one seeding commits),
`FormInv`, `RegistrationsLast` (at most one
registration of an address has inserted its row and is not lost, and the account has the
password it was made with) and `SessionInv` (no token outlives the last grant of
its user by more than its lifetime).

### Only model-checked

The liveness properties `EveryRequestAnswered`, `ExpiredReservationsReleased` and
`StaleMapsVanish`: fairness and `ENABLED` are out of TLAPS's reach. What they say of
safety is proved: whoever is waited for is at work and no wait is circular
(`WaitsAreShort`), and a map is outdated for a TTL
at most (`HealsWithinTTL`).

## 5. Not modelled, and what could come next

* **Frontend.** Its pages keep no state beyond a view; what they send is among the
  requests of the models, a new payment key per click included.
* **Load generator** (`src/loadtest/locustfile.py`): it only sends requests.
* **Lists, occupancy, the audit list**: single statements, one snapshot each.
* **Demo configuration**: the failure rate is any choice at every charge, the
  latency any time.
* **An engine of several processes.** `backend/Dockerfile` and `docker-compose.yml` run one,
  and the engine is modelled as one. `docs/guides/DEPLOYMENT_GUIDE.md:201` suggests four
  workers, which is why `Startup` and `Accounts` have any number; the engine would
  then have a cleanup task and a gateway memory per worker. The cleanup tasks keep
  apart by `SKIP LOCKED`, as the one does from payments; two payments with one key
  that meet different memories are both charged, and the one that loses the unique
  key has no payment, so `MoneyAccounted` is claimed for one process only. The other
  properties do not rest on the memory: a crash, which the model has, empties it.
* **`downgrade`**, `pool_pre_ping`, `pool_recycle`: not used by the running service, or
  without effect on state.
* Serialisation, HTTP wiring, CORS, settings, logging, prices, page layout, password
  hashing and token encoding.

Next: an engine of several processes; clocks that differ between hosts and database.
