# Fleet management: TLA+ models, checks and proofs

This project specifies the core of the fleet-management backend (Python,
`src/fleet_management`): FastAPI request handlers over PostgreSQL, a Redis cache,
a RabbitMQ consumer with its simulator, the database migrations and the live map of
the web client. The models are written from the code; paths below are relative to
`src/fleet_management/` unless they start with `README.md`, `alembic/`, `scripts/`
or `tests/`.

## 1. The system

| part | code | state | operations | talks to |
|---|---|---|---|---|
| rentals | `services/rental_service.py`, `api/rentals.py` | `rentals`, `vehicles` rows | start, end | stations, list cache |
| stations, vehicles, renters | `services/station_service.py`, `api/{stations,vehicles,renters}.py` | their rows | create, list, get; free-slot check | list cache |
| list cache | `cache.py` | one Redis key per list | read through, invalidate | every handler that changes a list |
| telemetry consumer | `telemetry/{worker,processor,schemas}.py` | `telemetry_readings` rows, `vehicle:<id>:state` hashes, unacknowledged messages | validate, save, update hot state, ack / nack / reject | RabbitMQ, PostgreSQL, Redis |
| vehicle state | `services/vehicle_state_service.py` | none | state of one vehicle, positions of the fleet | Redis first, PostgreSQL otherwise |
| retry policy | `resilience.py` | one call | attempt, back off, give up | any awaitable |
| pricing and eligibility | `services/rental_service.py`, `api/rentals.py` | a rental's two timestamps | cost, discount, eligibility, revenue | clocks of the replicas |
| consent, marketing, analytics | `services/{consent,marketing}_service.py` | consent rows, history, outbox, events | grant, revoke, gate, enqueue, dispatch | audit |
| erasure, export, audit | `services/{erasure,export,audit}_service.py` | users, renters, audit rows | anonymise, export, record | consent |
| users and auth | `services/user_service.py`, `auth.py`, `security.py`, `api/{auth,admin}.py`, `cli.py` | users rows, tokens, the hashing pool | register, appoint, login, authorise | audit |
| migrations and schema | `alembic/env.py`, `alembic/versions`, `models/` | the schema, its version, an advisory lock | upgrade, downgrade | every replica that starts |
| simulator | `telemetry/simulator.py` | in-memory fleet | poll, sync, advance, publish | list endpoint, RabbitMQ |
| web client | `web/static/js` | one page, its timer, listener, requests and markers | route, render, poll, pause | API |
| demo data | `scripts/seed_demo.py` | what the API holds | ensure stations, vehicles, renters, rentals | API |

Several API processes run at once (2 to 5 replicas) and each handles many requests
concurrently. Every request owns one database session at PostgreSQL's default READ
COMMITTED level. One telemetry worker is deployed; a rolling update runs two of them
for a while and the replica count is a chart value.

What is hard here, and so what the properties are about: handlers read, decide and
commit in separate steps with other requests in between; the cache is filled and
invalidated in separate steps; the worker stores, caches and acknowledges in
separate steps and may die after each; messages come back, twice or out of order;
replicas migrate one schema at once and stamp one rental with two clocks; an export
reads table after table without a snapshot; the map page polls, pauses, hides and is
left in any order; scripts and containers are interrupted and run again.
`PROJECT.json` lists each hazard at its line.

## 2. Modules

### Rentals (with RentalDesk, RentalsProofs, MCRentals)

State: the rows of `stations`, `renters`, `vehicles`, `rentals`, and per request
where its handler stands (`pc`), the ids it works on (`arg`) and the vehicle row its
session loaded (`seen`). One action per SELECT and one per commit:

| action | code |
|---|---|
| `ReceiveStart`, `StartReadVehicle`, `StartCommit`, `StartForeignKeyError` | `start_rental`: `db.get(Vehicle)` with its two error answers; the one transaction that inserts the rental and updates the vehicle; the foreign key of the renter |
| `ReceiveEnd`, `EndReadRental`, `EndCheckSlot`, `EndLoadVehicle`, `EndCommit` | `end_rental`: `db.get(Rental)`, `has_free_slot`, `db.get(Vehicle)`, commit |
| `CreateStation`, `CreateRenter`, `CreateVehicle` | the three POST handlers; rows are never deleted, so their reads cannot go stale |
| `Abort` | any error, cancellation or killed process before the commit |

`EndCommit` writes what SQLAlchemy writes: a column whose new value equals the value
this session loaded is not part of the UPDATE (`ReturnedVehicle`). This matters: a
session that loaded the vehicle as AVAILABLE does not touch its status.

`RentalDesk` is the abstract specification: a vehicle stands at a station or is out
with exactly one rental, each request is one step, and a return needs a free slot.
`Rentals` implements it when requests do not overlap (`SerialSpec`).

### ListCache (MCFreshness, ListCacheProofs)

One Redis key and the table behind it, abstracted to the number of committed
changes. Readers take `read_through_json` step by step (`Get`, `Load`, `Set`, with
the failing variants), writers `Commit` and then `Invalidate` or fail to. `Tick` is
time: it counts down the entry's lifetime. The time from a reader's SELECT to its
SET is bounded by `MaxDelay`, which the code does not do; the bound on staleness is
therefore stated relative to it.

### Telemetry (MCTelemetry, TelemetryProofs)

State: the broker's view of each message, the `telemetry_readings` rows, the Redis
hash per vehicle, and per worker the await its `handle_message` stands at. A reading
is represented by the message it came from; a row's key is (vehicle, recorded_at).
`Fail` is any exception of the database or Redis, `Crash` a dying worker or
connection, `RestartRedis` the loss of every hash. A body may be malformed, or
well-formed but never storable (a vehicle id beyond the column's range passes
`TelemetryMessage` and is then refused by the database each time).

### VehicleState (MCVehicleState, TelemetryProofs)

Extends Telemetry with clients that run `get_vehicle_state` (with retries) and
`get_fleet_positions` (without): ask, read Redis or fail to, look up PostgreSQL. The
history variables `acked` and `had` record what was true when the client asked.

### Retry (StandaloneProofs)

`call_with_retry` under a `RetryPolicy`: attempts that take up to the timeout,
pauses with equal jitter, and the four ways out of the loop.

### Consent (ConsentProofs)

`user_consents` and `consent_history` per user and purpose, the row locks, and the
requests that grant and revoke.

| action | code |
|---|---|
| `Receive` | `grant_consent`, `revoke_consent` behind `get_current_user` and `subject_access` (`MayActOn`) |
| `ReadForUpdate`, `ReadNothing` | `_get_current(lock=True)`: waits for the row's lock and then sees the row as committed; a missing row cannot be locked |
| `Update`, `Insert` | the commit of the row together with its history row (`Record`) |
| `InsertConflict` | the unique constraint: `grant` rolls back and runs once more |
| `Abort` | any error or cancellation |

A history row refers to the user's row and therefore waits while that row is locked
for update (`userLock`), which only the erasure does. `Allows` is the policy gate's
decision.

### Marketing (extends Consent; ErasureProofs)

Gated writes (`Request`, `Gate`, `InsertMessage`, `InsertEvent`) and the dispatch
(`ReadQueue`, a `Decide` per message, `Apply` or `ApplyStale`). Gate and write are
separate steps, so consents change in between. The history variable `seen` collects,
per writer and dispatch, the consents that held at some moment since it began; it is
what "had consent" is measured against.

### Erasure (extends Marketing; ErasureProofs)

`anonymize_user` as `Ask` (the user is loaded by `subject_access`), `LockUser`,
`AlreadyAnonymized` or `Find` (the SELECTs and DELETEs of `_erase` and
`withdraw_all`; they are one step because the lock keeps their tables still, and
`EraseMissesNothing` fails as soon as the lock is dropped), and `Erase`, the commit
that changes exactly what was found. `LockUser` does not refresh the loaded
`anonymized_at`: the session has the object already and the SELECT does not ask for
`populate_existing`. Two more writers, renter profile and login activity, ask no gate.
`identity` counts the replacements of a user's identifiers. A consent change and an
erasure can wait for each other; PostgreSQL then ends one of them (`BreakDeadlock`).

### Accounts (MCAccounts, PlatformProofs)

Requests that register, log in, appoint admins (over HTTP and from the console) and
act on a subject's data, the users rows they share, the pool of Argon2 threads
(`jobs`, `hashing`) and the audit log. An address is a mailbox and the form it was
typed in, so that `normalize_email` does something.

| action | code |
|---|---|
| `Register`, `create_admin`, `console_create_admin`, `login`, `on_subject`, `no_token` | a request arrives, and what it decides before its first await: `get_current_user`, `require_roles`, `subject_access` |
| `TakeJob`, `Hashed` | `hash_password` and `verify_password` in the pool, the rest of `authenticate` |
| `Insert`, `Activity`, `Audit`, `Erase` | the commits: `create_user` with its unique index, `record_activity`, `record_audit_event`, the erasure's commit |

Each commit may fail once (`Fail`). `owner` remembers whose account it was when a request
arrived, `gone` which accounts its session loaded as anonymised: a repeated erasure is
recognised by that, as in the code, not by what the row holds once the lock is granted.
`password_hash_workers` has no lower bound; at zero or below the handler hashes inline,
which the model counts as one thread (`Threads`): the event loop runs one hash at a time.

### Pricing and RentalRules (StandaloneProofs)

`Pricing` follows one rental: started, looked at (`rental_with_cost`), ended, summed
up (`completed_rental_revenue`). Each timestamp comes from the clock of some replica,
off by up to `Skew`. `RentalRules` holds the discount tables and the ordered
eligibility rules next to the branching code they replaced, which the tests keep as
their reference, and a client who asks about any renter.

### Migrations (PlatformProofs)

Every statement of the five revisions, in both directions, on a schema that is a set of
columns, indexes, keys and enum types, with the columns of an index and the labels of a
native enum in their order; enums stored as text have labels in Python only. `Refused` and
`Done` are PostgreSQL's part.
Replicas run `upgrade head` when they start and operators `downgrade -1`: `Begin`,
`Lock` (the advisory lock of `env.py`), `ReadVersion`, a `Migrate` per statement,
`CommitMigration`, `Close`; `Die` ends a process anywhere, and PostgreSQL then rolls
back and frees the lock. `Metadata` is what the ORM models declare. What each script
does by itself, executed on the schema of its revision, is `ScriptsAssumption`: it has no
parameter, and TLC decides it by executing every statement.

### FleetMap (MCFreshness, FleetMapProofs)

The map page, per visit: `Open`, `Loaded` or `LoadFails`, `Leave` (the router), `Fire`,
`Serve`, `Refreshed`, `RefreshFailed` (a poll), `ToggleLive`, `Hide`, `Show`, `Filter`
(the user and the browser). Two visits have two closures, and a request of the first may
be answered during the second. `Refreshed` and `RefreshFailed` arm the timer of a page that
was left meanwhile, as `tick` does.

### Simulator (StandaloneProofs)

The loop of `run` (`Tick`, `Fetch`, `Sync`, a `Publish` per vehicle, `EndTick`) beside
`Trip`, by which rentals start and end in the API. A poll that fails with an OSError is
skipped; any other error of a poll, and any error of a publish, ends the program
(`RunFails`), which is started by hand and not restarted. A position is the hub a vehicle
left last, with the one it drives to.

### Export (PlatformProofs)

`build_export` one SELECT after the other (`SelectOrder`, `Select`), from
`subject_access` (`BeginExport`) to the audit row (`EndExport`), while rows are added
(`Store`) and an erasure commits (`Anonymize`). Each SELECT sees what is committed by
then; only the subject itself is kept as it was loaded.

### SeedDemo (StandaloneProofs)

`scripts/seed_demo.py` call by call, with an interruption (`StopSeed`) between any two
and further runs. The script works from lists it read before it wrote, as `todo` and
`mine` do. `ReturnTrip` has no refusal of a full station: the script returns a vehicle to
the station it was taken from, whose slot nobody else takes, since only the script runs.

### MCStandalone and MCFreshness

Retry, Pricing, RentalRules, Migrations, Simulator, Export and SeedDemo read nothing of
each other. The module runs them in one state space: a call under the retry policy first
and then one of the others, so that it is their sum and not their product. MCFreshness
does the same with ListCache and FleetMap, the two ways to see a list that is out of date.

## 3. Runs

| run | instance | what it shows |
|---|---|---|
| `rentals_concurrent` | 3 requests, 2 vehicles, 2 rentals, 2 stations | no vehicle is lost; a COMPLETED rental, its end included, is final once no end that found it ACTIVE is under way; the inductive invariant holds |
| `rentals_serial` | 1 request at a time, 2 stations (1 and 2 slots), 2 vehicles, 3 rentals | the handlers implement `RentalDesk` |
| `rentals_double_booking` | 2 requests, 1 vehicle | violated: two ACTIVE rentals on one vehicle |
| `telemetry_workers` | 2 workers, 4 messages of 1 vehicle, 1 fault, 1 restart | nothing acknowledged is lost, nothing is stored twice, Redis shows stored readings only, every message that can be stored is settled |
| `vehicle_state` | 1 worker, 2 vehicles, 3 messages, 1 client, 2 attempts, 1 fault, 1 restart | answers are stored readings, never falsely absent, never older than what was acknowledged; the hot state never goes back |
| `freshness` | list cache: 2 readers, 2 writers, 2 writes, TTL 3, delay 2; map: 2 visits, 2 vehicles, 2 requests in flight per visit, 2 clicks, 1 fault, 1 change | staleness of the cached list is bounded and it converges; a map page that is watched keeps polling and catches up, a paused one is quiet, one that was left never gets busier than it was, markers are what was last answered |
| `consent_and_erasure` | 2 consent changes, 1 consent, 2 policy versions, 2 events, 1 erasure, 1 writer | the evidence log explains the row, every event changed something, no grant loses the insert race, everyone is answered despite opposite lock orders |
| `erasure` | 1 erasure, 1 consent change, 1 writer, 1 dispatch, 2 messages, 2 purposes | an erasure misses nothing and repeated is a no-op; nothing is written or sent without consent since the request began; no half-applied batch; nothing processed twice; an erased, bare and idle user stays bare |
| `erasure_late` | 1 erasure, 1 consent change, 1 writer | violated: data stored after the erasure by a request that passed its checks before |
| `accounts` | 5 users rows, 3 requests, 1 hashing thread, 1 failing commit | one account per mailbox; nobody erased or unentitled is answered; owners get in however they type their address; access is audited; everyone is answered |
| `standalone` | see below | the seven components of MCStandalone |
| `simulator_parked` | as `standalone` | violated: a parked vehicle is published at a station it is not at |

The instances of `standalone`. Retry: five attempts. Pricing: an hour of three units,
clocks off by two, ten moments. Rules: rental counts at and around every boundary, with
every other attribute. Migrations: two replicas, one operator, seven runs, one crash.
Simulator: two vehicles, two stations, four hubs on two banks, a poll every second tick,
four starts or ends, one failed poll or publish. Export: three rows and an erasure. Seeding: two
stations, five vehicles, three renters of whom two keep a rental, five runs, two
interruptions.

Several properties are conjunctions whose parts are named and commented in the module:

| property | its parts |
|---|---|
| `ReadingsAreSafe` | types, `AckedIsStored`, `CachedIsStored`, `StoredOnce` |
| `AnswerInv` | types, `AnswerIsStored` |
| `LogIsEvidence` | `HistoryExplainsRow`, `EveryEventChanges` |
| `ActedWithConsent` | `ConsentedSend`, `ConsentedWrite` |
| `ErasureInv` | types, `BatchUntouched` |
| `MapInv` | types, wiring, `KeepsPolling`, `NoTimerWhilePaused`, `MapShowsPositions` |
| `PolicyIsKept` | types, `WithinWorstCase`, `ExhaustedMeansAllFailed` |
| `PriceIsFair` | `BillFitsRide`, `QuoteIsHonoured` |
| `RulesAreLegacy` | `DiscountIsLegacy`, `EligibilityIsLegacy` |
| `SchemaIsSound` | `MigrationInv`, `HeadIsMetadata`, `VersionNamesSchema`, `NoRunFails` |
| `ExportIsSound` | `ExportIsComplete`, `AnonymizedExportIsBare` |

Why the bounds are enough to be interesting. Rentals: two overlapping requests are
needed for each known race and three for a third party in between; two rentals of
the same vehicle let a late return meet a vehicle that is out again. Telemetry: two
readings of one vehicle plus a duplicate show reordering and deduplication; one fault
lets a message come back after each await, two let it come back twice. ListCache:
with two writes, a reader can be overtaken by a write whose invalidation succeeds and
one whose invalidation fails; TTL exceeds the delay by one, so both orders of expiry and SET
occur. Retry: five attempts reach the delay cap. Consent: two requests
race for the first insert, and the second attempt of a grant meets the erasure; two
versions make a repeated grant differ from an equal one; the proof is for any number of
either. One purpose, because the model's erasure waits for all consent rows at once
where PostgreSQL waits for one after the other. Marketing and Erasure: one actor of each kind suffices for every pair of
kinds to interleave at every step; two messages make a batch that can be half decided
or half deleted; one erasure can be asked for again and again. Accounts: two requests
race and a third erases or looks; with one thread they queue for it. FleetMap: the
second visit begins while requests of the first are in flight, and two requests of one
visit are answered in either order. Pricing: ten moments hold rides of two to three
hours with every position of the clocks. Migrations: seven runs let a replica that
waited find the schema upgraded, downgraded or half done and rolled back. Simulator:
four trips end a rental, start the next and end it between two polls. Export: a profile,
a rental and one more row fall between any two SELECTs. Seeding: two interruptions leave
two trips behind, and three further runs repeat the end.

The three violated properties are what the repository's own text says: `README.md:63`
promises row locks "to avoid double booking", the entity policy at the top of
`services/erasure_service.py` what is left of an erased user, and
`telemetry/simulator.py:3` that parked vehicles "stay at their station". The last fails
when a rental starts and ends between two polls: `sync_fleet` takes over the new station
and parks only what the poll before saw driving. What does hold is `LockedStaysPut`: a
vehicle shown locked stands still, at the station the last poll gave or where it was shown
locked before.

Where a property needs an assumption on the deployment, the run makes it and the
model shows why. `CacheNeverGoesBack` needs one worker: two can interleave HGET and
HSET of `telemetry/processor.py:34`. `ProcessedOnce` and `ErasureInv` need one
dispatch at a time: two read the same QUEUED messages. `RepeatIsNoOp` needs
erasures that do not overlap: a second one still holds `anonymized_at` as loaded
before it waited for the lock (`services/erasure_service.py:72`). `ImplementsDesk`,
with its capacity check on return, needs requests that do not overlap.
`ActedWithConsent` speaks of consent since the dispatch began, not at its commit: a
revoke in between is not noticed. `StalenessBounded` is the promise that survives a
reader storing a list it loaded before a write (`cache.py:80`). `PriceIsFair`
allows for the clocks' difference, as the code compares timestamps of two
machines. `ExportIsSound` speaks of rows that were there at the start and still are;
see below for what it does not promise. `SeedDelivers` needs more vehicles than
interruptions and kept rentals together.

### What the models show besides

None of these contradicts a property above; a reader of the code should know them.

* Of two overlapping ends of one rental both succeed, and the later commit replaces
  `ended_at` and `end_station_id` of a rental that is COMPLETED already
  (`services/rental_service.py:59`): the row is neither locked nor read again. The test
  `test_end_rental_rejects_inactive_rental` covers ends that do not overlap.
  `ClosedRentalsAreFinal` says when this is over: with the requests under way.
* A poll of the map that is in flight when the page is left arms the timer again when it
  is answered (`web/static/js/views/map.js:317`), after `onLeave` cleared it: the left page
  goes on polling, once per interval, until the next page load. It does not come to rest;
  `LeftOnlyWindsDown` says that it never gets busier, and that a page left with nothing
  going stays quiet.
* A tab that becomes visible while the map is paused polls once.
* Answers of overlapping polls are shown in the order they arrive, the older one last if
  it was slower.
* An export may mix a subject of before an erasure with tables of after it, and current
  consents with a history that is one event older: its statements share no snapshot.
* An interrupted run of `scripts/seed_demo.py` may leave a renter with an active rental
  who is meant to have none; later runs do not end it. `SeedDelivers` bounds their number.
* `docker-compose.yml:64` says replicas that migrate at once would race; `alembic/env.py`
  serialises them (`OneMigrationAtATime`).
* The erasure hashes a password on the event loop, not in the pool of `security.py`.

### Fairness

`telemetry_workers`: weak fairness of each worker's handler (the event loop resumes a
coroutine when its await completes, and every await ends or raises) and strong
fairness of delivering each message, because the broker serves its queue in order
while a failed message is handed back and forth. With `PREFETCH_COUNT` (50) or more
messages that can never be stored this would not hold; the instance has one.
`freshness`: time passes and readers proceed; the browser fires armed timers and settles
every request (of the component that was chosen to run). `standalone`: the event loop resumes
the simulator's loop, unless an error has ended it; a migrating process goes on once it holds the
lock, and PostgreSQL serves the lock's queue in turn (strong fairness of `Lock`).
`consent_and_erasure`: handlers proceed, PostgreSQL serves those who wait for a lock in
turn (strong fairness of the steps that wait) and its deadlock detector ends one of two
transactions that wait for each other. `accounts`: hashing threads take the next job and
finish, and the database answers every commit, with success or an error. Nothing is
assumed of clients, users, faults, writers or operators.

## 4. Proofs

TLAPS proves, for every value of the constants:

* `RentalsProofs`: `TypeCorrect`, `Inductive`, `NoVehicleLost`, `ClosedRentalsStay`. The property
  "a RENTED vehicle has an ACTIVE rental" is not inductive: a commit completes a
  rental on the word of what its session loaded. The strengthening `RentedIsBacked`
  says that one ACTIVE rental of the vehicle is safe from every pending commit that
  would complete it without freeing the vehicle, i.e. every such session loaded the
  vehicle as not AVAILABLE, so that its UPDATE writes the status. `SessionsOK` gives the
  rest: the vehicle a session remembers is its rental's vehicle. `ClosedRentalsStay` follows
  from it: a step that writes an existing rental is the commit of an end under way.
  `SerialImplementsDesk` rests on an invariant that adds: one request at a time, rows agree
  (RENTED exactly with one ACTIVE rental), and what the current request checked still
  holds. Each visible commit maps to one desk step.
* `TelemetryProofs`: `NothingLost` (an induction over what each program counter
  implies: past `save` the reading is stored) and `OneWorkerKeepsNewest` (with one
  worker, nobody writes between its comparison and its HSET). With clients,
  `ReadersOnlyRead` (the composition implements the pipeline alone, so the pipeline's
  invariant holds in it), `AnswersAreStored`, `NoReadingOverlooked` (`ReadersOK`: rows are
  finitely many, so a newest exists, and what had a row keeps one) and
  `AnswersAreCurrent`, for one worker and a Redis that keeps its data: an acknowledged
  reading has gone through Redis, whose copy of a vehicle never gets older.
* `ListCacheProofs`: `CacheTypes`, `TTLBoundsStaleness` (every loaded list is stale by at most its
  reader's delay; every entry by at most the rest of TTL + MaxDelay).
* `ConsentProofs`: `ConsentIsEvidenced`, with `LogStaysEvidence` and `GrantsWinRaces` as its
  parts, and `ConsentTypes`. That the log explains the
  row and holds no idle event is inductive only with `UpdatesOwn` (a session about to
  update holds the row's lock, so what it read still stands) and `InsertsOnce` (only
  a first attempt inserts; a second one finds a row, since rows are never deleted).
* `ErasureProofs`: consents, gated writes, dispatches and erasures together.
  `ErasureInvariant` (`EInv`) is the registry's invariant and: an erasure past FOR UPDATE
  holds the user's row (`HoldsUser`); what it found is what there is, because whoever would
  add to it waits for that row (`FoundIsCurrent`); who passed the gate had consent since the
  request began (`PassedWithConsent`). It gives `ErasureMissesNothing`,
  `NothingWithoutConsent`, `ErasureKeepsEvidence`, `ErasureKeepsGrants` and `ErasureTypes`
  for any number of overlapping requests. Four results need an assumption, which is part of
  the theorem. `DispatchDecidesFirst` and `NothingProcessedTwice`: one dispatch at a time
  (two would both read a message as QUEUED). `RepeatChangesNothing`: one erasure at a time
  (two that load the user before either locks it both replace its identifiers, since
  FOR UPDATE does not refresh what was loaded). `ErasedUsersSettle`: no admin acts on
  erased accounts, which `subject_access` would allow.
* `StandaloneProofs`: `TimesAreClose`, `BillIsFair`, `QuotesAreHonoured`, `PricesAreFair`: for
  every tariff, hour and clock difference, from `PricingInv` (each timestamp is within `Skew`
  of the truth, and each quote is the cost of a duration at most 2 `Skew` longer than the
  ride) and lemmas on started hours (monotone; a sum costs at most the sum).
  `TablesEqualBranches` and `RulesEqualBranches`, together `DecisionsUnchanged`: tables and
  branches agree on every input. `AllAttemptsAreMade` counts failures against the attempt
  number (`FailuresCounted`); `PoliciesAreKept` adds the time: after each attempt no more has
  passed than its timeouts and the sum of the longest pauses so far (`ElapsedBounded`).
  Powers and sums are recursive functions on the naturals; that such a definition has a
  solution is proved here from the existence of least elements (`RecursionExists`).
  `RidesStayOnTheirBank` and `ParkedStaysPut` (`SimInv`: what a vehicle drives to, and what
  its last reading shows, lies on the bank of the hub it left; between two polls every
  known vehicle is published, so no poll finds a reading older than the one before; what
  was shown locked has not moved since, unless a poll parked it).
  `SeedingDelivers` and `RerunsChangeNothing` (`SeedInv`: within a run everything before the
  current call is there; each ACTIVE rental outside the trip under way is the first of an
  account that keeps one, or an interruption explains it, so that the vehicles suffice by
  counting).
* `FleetMapProofs`: `MapInvariant`, from which `PollingGoesOn`, `PausedIsQuiet`,
  `MarkersAreRight` and `LeftPagesWindDown` follow (of a left page a timer can only turn into
  a request, and a request into a timer; requests are counted as a finite set). `MapInv` ties listener, timer, requests and
  markers to how far a visit is (`Wiring`): without it nothing excludes a timer on a page
  that was never mounted.
* `PlatformProofs`: `OneMigrationAtATime` (whoever is past the lock holds it and read the
  version that is still committed) and `SchemaStaysSound`: a transaction's draft is the schema
  its script has led to so far (`SchemaInv`), so no statement is refused and a commit leaves
  the schema its version names; `AccountsInvariant`, `MailboxesAreUnique`,
  `OnlyTheEntitled` (`RowsOK`: addresses are stored normalised and unique; `Waiting(q)`: what
  a request has established at each await), `OwnersGetIn` and `AccessesAreAudited`
  (`AnswersInv`: what a login that waits for its hash will find, and that the audit row is
  there before the answer); `ExportLeavesNothingOut`, `AnonymizedMeansBare`,
  together `ExportIsAlwaysSound` (`ExportInv`: rows never come back, the renter is found
  before its rentals are asked for, a subject called anonymized is anonymized for good).

Assumptions on constants are the named ASSUMEs of the component modules; TLC evaluates
them in every run. They are types, that special values are distinct, and finite lists where
a count occurs (`SeedAssumption`, with enough vehicles for the interruptions).

Every safety property of the passing runs is stated by a theorem. Only model-checked:
liveness (`EverySettled`, `EventuallyFresh`, `EveryoneAnswered`, `EveryRequestAnswered`,
`MapCatchesUp`, `EveryRunEnds`, `SimulatorCatchesUp`), which is out of the prover's reach;
`ScriptsAssumption`, a computation over the fixed scripts that the prover takes as given and
TLC carries out; and the three findings, which are counterexamples.

## 5. Not modelled

* Coordinates, fuel and other payload (a reading is one value); formatting, wording and
  HTTP layouts; unique license plates and numbers; consent timestamps and sources.
* Log sanitising (`privacy/`): regular expressions over text, with no state between two
  records; the correlation id lives in one request's context.
* `schemas.py`, `schemas_privacy.py`, `config.py`, `main.py`: declarations of what is
  validated, configured and wired together.
* The web client's other pages: each sends one request and shows its answer.
* Data inside the tables during a migration, and alembic's offline mode.
* Deployment files, load tests, and the scripts that measure and print.

## 6. Plan

1. Refinement as theorems: an abstract consent registry (one state per user and purpose)
   that Consent implements, and an abstract latest-reading register for one worker.
2. Rentals composed with ListCache: what a client sees of its own rental.
3. The web client's session: answers that arrive after a logout or a new login.
