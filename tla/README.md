# RouteFast, verified: a TLA+ project beside the code

RouteFast dispatches delivery orders to drivers. Five NestJS services work
together: three of them keep business state in databases of their own and talk
through RabbitMQ, a fourth keeps driver positions, and a gateway forwards HTTP
for a browser console. No transaction spans two services. What holds the system
together is a saga: reserve a driver, tell the order; on a cancel release the
driver, then tell the order. This project models that saga, the messaging under
it, the breaker in front of its synchronous calls, how orders come in, the search
for candidates, the planning of routes, positions from the device to those who
watch, the gateway, and the console; TLC checks the models on small instances,
and TLAPS proves for all instances every safety property that TLC finds to hold.

## 1. Inventory

| Component | State | Operations | Talks to |
|---|---|---|---|
| Driver service: reservations | `driver_profiles` (status, `reserved_order_ids`, capacity), `driver_reservations` (unique `order_id`), advisory and row locks | `reserve`, `release` | answers on RabbitMQ |
| Driver service: availability | the same `driver_profiles` row | `PATCH availability`: findById, check, save; `POST drivers` | HTTP |
| Dispatch service: workflow | `dispatches` (unique `order_id`) | start, completeReservation, startCompensation, completeCompensation, timeout | events both ways, BullMQ |
| Dispatch service: timeout jobs | one delayed BullMQ job per dispatch | schedule, fire | Redis |
| Dispatch service: candidate search | a circuit breaker per dependency; ranking and planning are pure | listCandidates, findNearby, rank, plan | HTTP to driver and tracking service |
| Order service: creation | `orders` (unique `idempotency_key`), advisory locks, outbox | `POST orders` | HTTP, outbox |
| Order service: lifecycle | `orders` | cancel, four dispatch events | events both ways, HTTP |
| Reliability (a copy per service) | outbox and inbox tables; queue, retry queue and dead-letter queue | outbox worker, `handle`, `process` | RabbitMQ |
| Tracking service: ingestion | Redis GEO set and hashes with a TTL, BullMQ history jobs, PostGIS tables | update, persist | HTTP, WebSocket |
| Tracking service: queries, gateway | Socket.IO rooms | latest, history, nearby, subscribe, broadcast | HTTP, WebSocket |
| API gateway | none | validate, forward, give up after 3 s | HTTP |
| Ops console | lists, selection, route plan, map, demo steps | refresh, select, build route, guided demo | HTTP, WebSocket, OSRM |
| Observability | access logs, metrics | interceptor | stdout, Prometheus |

The hard parts, and what makes each component correct:

* **Driver reservations.** Transactions of different orders meet on the rows of
  the drivers. A driver must never list more orders than its capacity, each
  listed order must hold an ACTIVE reservation of that driver and no other, a
  reservation must be made once and released once whatever is repeated, and
  locks must neither deadlock nor starve a release. The availability request
  reads, checks and saves without a lock in the middle of all this.
* **Saga.** Events are repeated and reordered, handlers die, timeouts and late
  answers race. A dispatch that says ASSIGNED must have its capacity, one that
  says CANCELLED must have given it back, a driver reserved too late must be
  released, and searches and compensations must end.
* **Orders.** Use cases are read, change, write without a lock or a version.
  The order must show what dispatch has decided, and nothing else.
* **Order creation.** Clients repeat a POST that was not answered while the
  transaction of the first goes on. One idempotency key must name one order, no
  order may be stored without its event, and nobody may wait for a lock for ever.
* **Reliable messaging.** Outbox workers publish rows that others publish as
  well, or die between the broker's confirm and the save; two copies of an event
  are handled side by side. Nothing may be lost or given up early.
* **Circuit breaker.** A call may be admitted in one state of the breaker and
  return in another. No slot may leak, no more than the configured number of
  probes may run.
* **Candidate search and route planning.** Drivers move, fall silent and leave
  dead entries while a search reads them one by one; a driver that is near and
  live must not be missed without a reason, and one that is worse in every
  respect must not be tried first. A planned route must serve every order it
  can, within capacity after every stop.
* **Tracking.** Samples arrive late and repeatedly, hashes expire, the live
  position and the history are written one after the other, by jobs that may be
  run twice. A live position must not go back in time, no sample may be
  forgotten, the latest row must be the newest, and those who watch must not be
  sent what was refused as late.
* **Gateway.** It gives up while a service goes on. What it does report must be
  true of what the services have done.
* **Console.** Every answer is applied to the screen of its time: lists must catch
  up, the map must draw the stops it shows, routes must not be planned again and
  again, and the demo must not claim what has not happened.

`PROJECT.json` lists all hazards at their lines.

## 2. The modules

```
EventLink  <---------- refined by ----------  Reliability
    ^                                              (outbox, queues, inbox)
    | is what EventBus abstracts
EventBus <-- DriverService  <-- DriverServiceEnv  <-- MCDriverService
         |     |
         |     +-- refines ReservationLedger
         +-- DispatchService --+
         +-- OrderService -----+-- DispatchSaga   <-- MCDispatchSaga

CircuitBreaker, OrderIntake, OpsConsole, GuidedDemo           <-- MCRequests
Tracking <-- TrackingGateway  --+
CandidateSearch, RoutePlanner --+
LiveMap, GatewayCalls         --+------------------------------ MCPlaces

DriverServiceLemmas    on DriverService        <-- DriverServiceProofs, DispatchSagaProofs
DriverServiceProofs    on DriverServiceEnv
DispatchSagaProofs     on DispatchSaga
ReliabilityProofs      on Reliability, with its refinements of EventLink and EventBus
RequestsProofs         on MCRequests and its four components
CandidateSearchProofs  on CandidateSearch      <-- PlacesProofs
RoutePlannerProofs     on RoutePlanner         <-- PlacesProofs
PlacesProofs           on Tracking, TrackingGateway, LiveMap, GatewayCalls and MCPlaces
```

### The saga

**EventBus** is the bus as a handler sees it: `net` holds every event from the
commit that writes its outbox row until a handler has settled it. `Handled` is
a commit after which the event is gone or comes once more; `Rejected` is a
rollback, with a copy in the retry queue or, after `MaxRetries`, a dead letter.
A copy of an event that was handled has no effect on the rows, but when the inbox
cannot be read it goes to the retry queue too; as a copy that has stayed in `net`.
The set has no order: several outbox workers, back-off, prefetch and retries
let events overtake each other. A dispatch id is the id of its order, because
`order_id` is unique in `dispatches`.

**DriverService** has one action per statement that other transactions can
observe. `txn[o]` is the transaction that holds the advisory lock of order `o`,
with its row locks and the row it is going to write. `LockCandidate` and
`SkipCandidate` are the two results of `FOR UPDATE SKIP LOCKED` in the loop over
ranked candidates, `ScanAll` is the query without candidates (it has no LIMIT,
so it locks every row it returns), `LockForRelease` waits. `CommitReserve`
writes row, reservation and answer together; `ReserveConflict` is the unique
index hit by a request repeated after the release; `Rollback` covers every
crash and failing statement in between. The availability request is three steps:
`CheckAvailability` (findById and the check in the aggregate), `DiffAvailability`
(the SELECT of TypeORM's save, which decides what columns differ) and
`SaveAvailability` (the UPDATE of these columns, which waits for the row lock).

**ReservationLedger** is what that promises to dispatch: `Take` a place of a
driver with room, once per order, and `GiveBack`. Read off the reservation
table, the driver service implements it as long as no availability save runs
unlocked (`ImplementsLedger`); with one it does not (`DriverOverbooked`).

**DriverServiceEnv** closes it with the most general dispatch service: any
request for any order, at any time, in any order.

**DispatchService** takes each handler as one action, since each is one
transaction on a locked dispatch row, except where the code is not atomic:
`StartDispatch` commits the dispatch and `ScheduleTimeout` puts the timeout
into Redis afterwards, or `LoseTimeout` does not; `RequestCancel` reads the
status and `StartCompensation` acts on it later. The plan over HTTP is the
choice of a list from `CandidateLists`, or `PlanFails`.

**OrderService** splits each use case into `LoadForEvent`/`LoadForCancel`
(findById and the operation of the aggregate), `DiffOrder` and `SaveOrder` (the
SELECT and UPDATE of save). `RefuseEvent` is an aggregate that throws. Two history
variables record what overlapping use cases do to each other: `overtaken` has the
workers whose row another has changed since they read it, and `overwritten` the
orders that such a worker has then changed.

**DispatchSaga** composes the three services over one bus.

**Reliability** models the bus itself, statement by statement: `Poll`, `Publish`
and `SaveRow` of the outbox worker, then for each delivery `LookUp`, `InsertRow`,
`Recheck`, `RunOperation`, `MarkProcessed`, or `HandlerThrows`, `EraseRow`,
`CopyForRetry`, and `Ack`. Each statement may fail: `InsertRow` with or without a row
in its way, `EraseRow` with or without effect, and `ReadThrows` is either `findOne` of
the inbox, which is outside the try that erases the row and leads straight to
`CopyForRetry`, even if the event was PROCESSED. **EventLink** is what the services
expect of it: an event lives until it was applied or given up, its operation does
not run after that, and a copy of an applied event may still be given up.

### Requests in flight

**OrderIntake** follows a POST from the client through the gateway into the order
service and back. `Post` is the gateway's validation; `Unavailable` its three
seconds, after which the transaction goes on unwatched. `Lock` is the
transaction-scoped advisory lock on a hash of the key, which two keys may share;
`FindExisting`/`FindNone`, `Commit` (the rows of order and event, or the unique
index) and `RollBack` are the transaction, `CrashIntake` a process that dies with
all its requests, `Announce` the outbox worker. `Respond` is the interceptor that
writes the access log and the filter that sets the status after it.

**CircuitBreaker** splits `execute()` at its await: `Admit`/`AdmitProbe` before,
`Succeed`/`Fail` after, in whatever state the breaker is by then; `Tick` is time.

**OpsConsole** is `App.tsx` between its awaits: the lists and positions it has, the
selected driver, its plan, and the slots of refreshes and of `buildDriverRoute`
in flight. A handler runs to its next await, React commits, and the effect
`AutoRoute` runs; the three are one step. `EndBuild` and `BeginBuild` are the
two ends of a route request, `PlanAnswered` the `setSelectedDriverId` and
`setDriverRoutePlan` when a plan has come, `ApplyLists` what `allSettled` leaves.

**GuidedDemo** is `runGuidedDemo` with its six steps, its polling and its catch, and
the change of language that builds the steps anew.

**GatewayCalls** is every other call of the console: which bodies each controller
of the gateway refuses itself and which it passes on (`PassOnValid`, `PassOn`),
the services' answers with their own validation and errors, the gateway's
`GiveUp`, and the browser's `LoseAnswer`. `working` is a cancel between its two
steps.

### Places

**Tracking** keeps, for each driver, the time of the hash and of the GEO entry in
Redis, and a sample is its driver and its time. `Upsert` is the Lua script,
`Enqueue` the `queue.add` after it and `Interrupt` a process that dies in
between; `call` is an update that has done the first and not the second.
`Expire` ends the hash alone. `Persist` is the transaction that appends to the
history and replaces the latest row unless that is newer; BullMQ may run it
again, and `FailJob` and `RemoveJob` end the life of a job. `lost` collects the
samples whose update or job was given up. `GetLatest` and `GetHistory` are the
queries.

**TrackingGateway** adds the websocket to it: who has sent an update, who watches
whom, and what a watcher was sent last. An update is its two halves,
`ReceiveUpdate` and `FinishUpdate`, with others in between.

**CandidateSearch** is the planning inside `StartDispatch`: `ListCandidates` asks
the driver service, `GeoSearch` and then `KeepHit` or `SkipHit` per hit are the
nearby search of the tracking service, `Rank` scores. Between any two of them a
driver may report (`Report`) and positions age (`Tick`). A driver's place is its
distance from the pick-up. The age of a position counts from its receipt, as in the
code, so an accepted report starts at 0 whatever its `recordedAt`; a report that the
store refuses changes nothing here. Scores are exact fractions over a common
denominator, rounded to hundredths as the code does; the roundings before that, of
loads to four decimals and of distances to three, are monotone and left out, and so
is the filter on free places in `rank()`, which drops nobody that was listed
(`ListedHaveRoom`). What sort() returns is stated and not
computed: `Rankings` are the ways to move the hits so that they are in order, and
there is always exactly one (`RankingIsDetermined`). COUNT is `Overfetch` times the limit: 3
in the code and 1 in the run, so that already a third entry can hide a driver.
`DispatchService` takes any list; this module says what can be relied on about it.

**RoutePlanner** considers the orders of a request one by one: `Insert` tries each
pair of positions, `Reject` gives up on an order. Loads and distances are
recursive functions over the stops; the distance of two places is a constant, and
so is the set of requests, which `RoutePlanner` only assumes to be orders with
whole demands and places.
The properties do not rely on the running load or the two loops: they look at who
is on board after each stop, and compare an insertion with every other way to
merge the pair into the route.

**LiveMap** is the line on the map: direct segments at once, the road when the
routing service answers, with the abort of the effect's cleanup and the timeout.

**MCPlaces** and **MCRequests** put the components of their group side by side: a
behaviour is one of a single component, chosen at the beginning, since these
components share no state. One run then checks them all.

Definitions headed "Mutation of X" are plausible bugs of X. No specification
uses them; each is put in place of X to see that a property notices.

## 3. What the runs check

| Run | Instance | Shows |
|---|---|---|
| `DriverSafety` | 2 orders, 2 drivers of capacity 1, both queries, 1 availability request | `CapacityRespected`, `NoPhantomLoad`, `ReservationsOnlyMoveForward` hold with the unlocked availability save in between |
| `DriverLedger` | 2 orders for 1 place, no availability request, fair | `ImplementsLedger`; releases complete |
| `DriverOverbooked` | as `DriverSafety` | *violated*: `ReservationsWithinCapacity` |
| `SagaSafety` | 1 order, 1 driver, cancels by customer and operator, 2 use cases of the order at a time | `DispatchMatchesReservation`, `OrderFollowsDispatch`, `DispatchOnlyMovesForward`, `OnlyStaleSavesReopen` |
| `SagaLiveness` | dispatch and drivers with 1 retry, fair | searches and compensations end, late reservations are released |
| `SagaReopened` | 2 order handlers, customer cancel | *violated*: `CancelledIsTerminal` |
| `SagaStuckOrder` | 1 order handler, fair | *violated*: `FailureReachesOrder` |
| `Link` | 1 event (any number in `ReliabilityProofs`), 2 outbox workers, 2 deliveries, 1 retry, failing reads and writes of the inbox, fair | `ImplementsLink`, `DeadWasRetried`; `EveryEventSettles` |
| `Places`: search | 3 drivers, 2 listed, COUNT 2, a report and a tick during a search | `RankedAreLive`, `NobodyIsMissed`, `NearerIsTriedFirst` |
| `Places`: route | 3 orders on 3 places, demands that share the vehicle, fill it or exceed it | `RouteServesAccepted`, `VehicleNeverOverloaded`, `OnlyImpossibleRejected`, `InsertionIsShortest` |
| `Places`: gateway | 1 driver, 2 times, 2 updates at a time, 1 watcher | `HistoryIsComplete`, `LatestIsNewest`, `LiveMovesForward`, `WatchersFollowLive` |
| `Places`: map | 3 lists of stops, 3 requests | `RoadIsCurrent` |
| `Places`: calls | 2 calls, any operations and bodies | `AnswersAreTrue` |
| `Requests`: breaker | 3 calls, threshold 2, 2 probes, reset 4, call timeout 2 ticks | `HalfOpenAccounts`, `OpenAfterTimeoutsWaits`, `HalfOpenEnds` |
| `Requests`: intake | 2 posts, 2 keys with 1 lock, or none | `KeyNamesOneOrder`, `CreatedOrdersAreAnnounced`, `WaitersEnd` |
| `Requests`: console | 2 drivers, 1 delivery, 1 reassignment, 2 clicks, 2 refreshes and 2 builds at a time | `AutoRouteOnce`, `ListsCatchUp` |
| `Requests`: demo | 2 polls | `DemoIsHonest` |
| `ConsoleRouteFlips` | 2 drivers, 2 deliveries, 1 click, no failures, fair | *violated*: `ChoiceStays` |
| `ErrorsUnlogged` | as `Requests` | *violated*: `ErrorsAreLogged` |

`SagaSafety`, `Places` and `Requests` check the type invariants of all modules in them.

**The five violations** are disagreements between the code and its own words:

* `DriverOverbooked`. A PATCH that found the driver empty saves an empty
  `reservedOrderIds` over a list that a reservation has extended since. The
  reservation stays ACTIVE but is not counted, and the driver is reserved again
  (`docs/phase-3/concurrency.md:8`). The same race sets a driver OFFLINE that
  has just been reserved. `NoPhantomLoad` holds all the same: the save can
  erase load, never invent it.
* `SagaReopened`. The customer's POST cancel and the handler of `dispatch.started`
  both load the order while it is PENDING_DISPATCH. The cancel saves CANCELLED, and
  the handler then saves DISPATCHING over it (`docs/domain/bounded-contexts.md:40`:
  "an order cannot transition from a terminal state back into an active state").
  `OnlyStaleSavesReopen`, which holds, says that there is no other way to this.
* `SagaStuckOrder`. `dispatch.failed` is handled before `dispatch.started`; it
  changes nothing, and the order then stays DISPATCHING
  (`docs/phase-3/event-catalog.md:13`).
* `ConsoleRouteFlips`. The plan of one driver arrives after another was selected:
  `buildDriverRoute` selects its own driver again (`App.tsx:382`), and the map
  shows a driver nobody has asked for last (`docs/frontend/OPS_CONSOLE.md:121`).
* `ErrorsUnlogged`. The interceptors decide in `finalize()`, before the exception
  filter has set the status, so a POST that fails counts as a 201 and may be
  sampled away (`.env.example:86`); with a sample rate of 1 it is logged with
  the wrong status.

**What the models show beside that**, with no run of its own:

* A customer's cancel of a pending order drops its domain event: dispatch goes on,
  reserves a driver, and the order service refuses `dispatch.assigned` up to a
  dead letter. Nothing releases the driver.
* The guard against late packets compares with the hash; when that has expired, a
  packet delivered late replaces a newer position in the GEO set, which
  `redis-live-location.store.ts:30` says it cannot, and is broadcast as current.
* "Dispatch excludes positions older than `DISPATCH_LOCATION_MAX_AGE_SECONDS`"
  (`docs/phase-4/real-time-tracking.md:58`) is so by the time of receipt only
  (`redis-live-location.store.ts:94`). `recordedAt` comes from the device and has no
  bound in the past (`update-driver-location.use-case.ts:31`). A sample that was
  held back for an hour and then accepted, because the hash had expired or was of an
  older sample still, is 0 seconds old, and its driver is ranked as the freshest.
  `RankedAreLive` does not say otherwise: it is about drivers nothing was received of.
* The distance a candidate is ranked by is that of the GEOSEARCH, and its age that of
  the HGETALL after it. A driver that reports in between is ranked by its old place
  and its new age.
* Broadcasts of two accepted samples may be in either order, and updates over HTTP
  are broadcast to nobody. The console also stores what HTTP answers bring, which
  may put an older position back.
* A delivery that meets a PROCESSING row cannot know whether its owner is alive and
  runs the operation too, possibly after PROCESSED was stored. The inbox is no
  guarantee that an event takes effect once (`docs/phase-3/reliability-flow.md:20`
  may be read so); this is why `Handled` in EventBus may leave the event on the
  bus, and why the handlers have to be idempotent.
* The inbox is read outside the try that deletes its row (`inbox.service.ts:16`,
  `:29`), and whatever throws makes a retry copy or a dead letter
  (`rmq-reliability.service.ts:30`). So when the database cannot be read, a duplicate
  of an event that was handled long ago may end in the dead-letter queue: a dead
  letter is not always an event that was not handled, and who replays one relies on
  the inbox or on handlers that are idempotent.
* The breaker closes on the success of a call admitted before it opened, so OPEN may
  be left early; `OpenAfterTimeoutsWaits` says for how long.
* A dispatch whose process died before `schedule` never gets a timeout, because the
  redelivered event finds the dispatch and returns; `SearchEnds` holds because the
  driver service answers, and only up to a dead letter.
* A 503 of the gateway is no refusal. `POST drivers` has no idempotency key, so
  repeating it makes a second driver, and the console takes a fresh key for each
  order it posts, so repeating there makes a second order. A PATCH that timed out
  may commit after a later one.
* The optimization controller of the gateway has no `forward`: a 4xx of the
  dispatch service becomes a 500. So do bodies that pass the pipes and are refused
  by the domain, such as a name or a label of blanks.
* After the routing service has timed out, or while it has not answered for new
  stops, the map keeps the ETA and distance of the previous road beside the direct
  line ("RouteFast ETA/direct segments remain the fallback", `OPS_CONSOLE.md:121`).
  `RoadIsCurrent` speaks of the line always and of the ETA beside a line by road.
* For one render after the stops have changed the map has the new stops and the line
  of the old ones, until its effect runs (`LiveMap.tsx:176`, `:249`). `ShowRoute` is the
  render and the effect together.
* Rounding may make `haversineKm` NaN for two places that are exactly antipodal
  (`route-planner.service.ts:192`). No distance is then below infinity, and an order
  that fits is rejected. `RoutePlanner` has whole distances, and
  `OnlyImpossibleRejected` does not cover this.
* A driver that is selected before the list of drivers has it leaves its key in
  `autoRouteKeyRef`, and no route is planned until something else changes. The plan
  of the previous driver stays on the map until the next is answered.
* A change of language while the demo runs puts its steps back to pending, also those
  that are done; `DemoIsHonest` is about what is claimed, not about what is missing.

**Bounds.** `MaxInFlight` (2) bounds the events on the bus when the environment
adds one; two is what a race between two orders, or between an order's release
and its repeated request, takes. `MaxCancels` (1) bounds concurrent cancel
requests that have read ASSIGNED. `MaxRetries` is 0 or 1 where the code has 3:
a first failure, a retry and giving up are all there is to tell apart, and
reordering does not depend on retries in a set. `Requests`, `Workers`,
`Publishers`, `Consumers`, `Calls`, `ConsoleCalls`, `Refreshes`, `Builds` and
`Fetches` are the replicas, deliveries or requests at one time; two are a race,
and a third fetch is one more than an aborted and an open one. `Capacity` 1
makes the second reservation the one too many. The saga runs with a single order
because services keep orders apart by key everywhere but on the driver rows, and
that competition is what the driver runs, and the proofs for any number of
orders, are about. In `SagaSafety` two use cases of the order run at a time, and
`CONSTRAINT NothingOverwritten` ends a behaviour where one has saved over what
another had changed: that step itself is still checked, after it
`OrderFollowsDispatch` promises nothing of the only order there is, and nothing
that a stale save does reaches the other two services, which do not read the order.
What is cut off is `OnlyStaleSavesReopen` of an order after its first stale save;
`DispatchSagaProofs` has no such bound and proves it there too. Drivers do not meet in the tracking service; two times are a
newer sample and a late one, and `PlacesProofs` is about any number.
`MaxReports` and `MaxTicks` (1 each) are what happens during one search; the
entries and ages it starts from are arbitrary, and driver 3 is always free.
`Radius` 1 leaves three kinds of places: here, near and away. `MaxClicks` (2) and
`MaxReassignments` (1) bound what the operator and the services do to the
console; a second click is what a late answer is applied after. `MaxDemoPolls` is
2 for 24: once more, and the last. `failures` saturates at `MaxRetries + 1` and `sinceOpen` at `ResetTimeout`: beyond it nothing changes.

**Symmetry** is used in safety runs only: over orders in those of the driver service,
and over `Workers` in `SagaSafety`. No configuration tells them apart.

**Deadlock.** The passing configurations set `CHECK_DEADLOCK FALSE`: all work may
be done, all events dead-lettered, all requests answered, or a route planned, and
the system rightly stops. That nothing stops too early is what the liveness
properties say.

**Fairness.** RabbitMQ keeps delivering what is not acknowledged and no consumer
dies at every attempt: strong fairness of the handling of an event by type and
order. A transaction that has begun goes on: weak fairness; a waiting row lock
is granted in the end, because PostgreSQL queues the waiters: strong fairness of
`LockForRelease`. The timer of a live worker fires, and a cancel request goes
on: weak fairness. Outbox workers keep polling and the broker confirms in the
end: strong fairness per event; and consumers do not for ever die in the middle
of an event, though they may as often as they like before. In `MCRequests`, calls
through the breaker return, by their timeout at the latest, and its clock goes
on; a transaction of order creation gets its lock, does its statements and
commits if it can, and its reply is sent (weak fairness): no waiter is left to the
hope that its transaction fails. The console refreshes for ever, and now and then a refresh gets all
its lists (strong fairness), which it then applies; its route requests end (weak
fairness). `ReliableSpec` of the console, for the violation, even has every route
request succeed. Nobody is obliged to create, cancel, click or fail anything.
Every liveness property about events is "or an event was dead-lettered", since
after `MaxRetries` the code gives up for good.

## 4. What is proved

Every invariant and every action property that a passing run checks, and both
refinements, are theorems: they hold for all values of the constants that the
assumptions named in the modules allow. Each is proved from an inductive
invariant; where the property alone is not inductive, this says what is missing.

**Drivers.** `DriverServiceProofs` is about any orders, drivers, capacities,
candidate lists, retries and availability requests of `DriverServiceEnv`.

* `DriverInvariance`: the inductive invariant `TypeOK /\ DriverInv`.
* `CapacityIsRespected` and `LoadIsReserved`: `CapacityRespected` and
  `NoPhantomLoad`; `ReservationLifecycle`: `ReservationsOnlyMoveForward`.
* `WaitingEnds`: row locks do not deadlock. A release waits for one transaction, and
  that one waits for nobody. No run has this property; what it is good for in
  the end, `ReleaseCompletes`, is a liveness property and left to TLC.
* `LedgerAgreement` and `LedgerImplemented`: `ReservationCounted` and
  `ImplementsLedger`, if there are no availability requests. `CommitReserve` takes
  a place, `CommitRelease` gives it back, and every other step stutters. The
  query looks at the load in the driver row and the ledger at the reservation
  table, so the refinement rests on `LedgerAgreement`.

Capacity and load alone are not inductive: `CommitReserve` writes without
looking at capacity again. `DriverInv` adds why it may. Row locks are exclusive
(`RowLocksExclusive`), and `OwnsItsRow` says that a transaction that is about
to write holds the lock of its row and that what its query saw (room in the
driver, or the ACTIVE reservation to release) is still true. It survives the
steps of others because they need the same lock; and the availability save,
which waits for the lock, cannot run in between. `DriverServiceLemmas` has a lemma
per group of actions, none of which depends on who sends the requests.

**Saga.** `DispatchSagaProofs` uses the same lemmas with the dispatch service as the
sender, for any orders, drivers, candidate lists, workers, retries and cancels:
where the run has one order, any number compete for the drivers.

* `SagaTypes`; `SagaInvariance`: the invariant is `SagaTypeOK /\ DriverInv /\ SagaInv`.
* `AssignmentIsReserved` (`DispatchMatchesReservation`), `DispatchLifecycle`
  (`DispatchOnlyMovesForward`), `SagaCapacity`, `SagaReservationLifecycle`,
  `SagaImplementsLedger` and `SagaWaitingEnds`.
* `OrderIsNeverAhead`: whatever use cases overlap, neither an order nor what one of
  them is going to write of it is ahead of its dispatch.
* `OrderFollows` (`OrderFollowsDispatch`) and `CancelledStays`
  (`OnlyStaleSavesReopen`), for any number of workers and use cases that overlap, with
  no hypothesis on who works when.

That a dispatch agrees with its reservation is not inductive, because dispatch
believes events and an event may come at any time. `SagaInv` therefore says of
each event that is on the bus, in a transaction or in a use case what it implies
(`TrueEvents`): a `driver.reserved` names the driver of the reservation row, a
`driver.release_requested` exists only when the search or the assignment is over, a
`dispatch.cancelled` only when the dispatch is CANCELLED. Nobody takes an event
back, so all of these have to be facts that stay true; this is what makes
repetition and reordering harmless.

Of the order nothing comparable holds outright, because use cases save without a
lock or a version: `SagaReopened` shows one way to lose it. What is true is that only
a save from a row that was read before another save does harm, and the history
variables say when that has happened. `OrderInv` is the argument: an order that no
such save has changed agrees with its dispatch (`RowsSettled`), and a worker that is
not overtaken is about to save what the aggregate makes of the row as it still is
(`WorkFresh`). Use cases that overlap are thus covered until one of them has changed
the row the other has read and that one has changed it again.

**Messaging.** `ReliabilityProofs` proves `LinkImplemented` (`ImplementsLink`) and
`DeadLettersWereRetried` (`DeadWasRetried`) for any events, workers, deliveries and
retries. What a worker believes is not what is so: another may have published the
row, or erased it. `LinkInv` says that what RabbitMQ has confirmed is applied,
dead, or still held by a copy or a delivery (`ConfirmedIsOwed`), that the inbox says
PROCESSED only after the operation (`ProcessedIsApplied`), and that each copy has
failed as often as it was tried (`TriesHaveFailed`), be it in the operation or because
the inbox could not be read. A copy may be retried and dead-lettered after its event
was let go; that its operation does not run then rests on the PROCESSED row, which
nobody is left to erase. Every step is then shown to
change one event at most (`OnlyAbout`), or to let go of settled events. The last
takes a set: an outbox worker that dies may have been the last to know of several
events, which the run with its one event does not show. `EventLink` lets `Forget`
take several for this reason.

`BusImplemented` is the step from there to the saga: `Reliability` implements
`EventBus`. The mapping `Sent` puts on the abstract bus every copy there has been
of a committed event, so each step is a `Publish`, a `Handled`, a `Rejected` or a
stutter: a handler only sees copies of what was committed, a failure only adds a
copy with one try more, and only a copy with no retry left is a dead letter. It
needs that no event has failed before its commit (`NotYetFailed`) and, of
`LinkInv`, `TriesHaveFailed`. Since no copy ever leaves `Sent`, the theorem says that
the bus leaves no behaviour out, which is what the safety theorems of the saga rest
on. It does not say when a copy is gone; that an event is settled at all is
`EveryEventSettles`, which TLC checks.

**Requests.** `RequestsProofs` has the four components of `MCRequests`, and
`RequestsCompose`: a behaviour of the whole is one of each.

* Breaker: `SlotsAreSafe` (`HalfOpenAccounts`) and `OpenHolds`
  (`OpenAfterTimeoutsWaits`), for any number of calls and any limits. The argument is
  about time: a call in flight is not older than `CallTimeout`, and one that started
  before the breaker opened is older than `sinceOpen`; so by the reset none of them
  is left, and every call in flight in HALF_OPEN is a probe. It rests on
  `CallTimeout < ResetTimeout` (`BreakerAssumption`), which the defaults satisfy:
  1500 ms against 10000 ms.
* Order creation: `OneOrderPerKey` (`KeyNamesOneOrder`) and `OrdersAreAnnounced`
  (`CreatedOrdersAreAnnounced`), for any number of posts, keys and locks. The answers
  alone are not inductive. `IntakeInv` says that two transactions with one lock are
  never past it together (`LocksExclude`), so that what one has not found is still
  not there when it commits (`SavingIsFirst`), so that stored keys differ
  (`StoredKeysDiffer`); drafts and answers name stored orders with the key of their
  request; and rows of orders and events go together (`EventsFollowOrders`). That
  keys may share a lock makes no difference, that each has one does:
  `IntakeAssumption` has `LockOf` a function of the key.
* Console: `EffectAsksOnce` (`AutoRouteOnce`), for any orders, drivers and overlapping
  requests. The property is about what makes the effect ask; that it does not ask for
  any other reason needs to be known of the state it leaves. `KeyIsCurrent` says that
  what is shown either gives it nothing to ask for or is what
  `autoRouteKeyRef` holds.
* Demo: `DemoStaysHonest` (`DemoIsHonest`), for any number of polls. `DemoInv` adds
  that the demo runs just when it is at a step.
* `RequestsTypes`: the types of all four.

**Candidate search.** `CandidateSearchProofs` proves `RankingIsLive`
(`RankedAreLive`), `NearbyAreFound` (`NobodyIsMissed`) and `NearerFirst`
(`NearerIsTriedFirst`) for any drivers, capacities, limits and weights, and
`RankingIsDetermined`. None is inductive, since they speak of the end of a search
and the drivers go on moving meanwhile. `SearchInv` relates the hits still to be
read to those read already: the list that is left is sorted and no nearer than what
was kept (`LeftIsSorted`, `FoundIsNearer`), what was kept is listed, with room
and fresh when read (`FoundIsListed`, `ListedHaveRoom`), who was silent for too long at
the GEOSEARCH and has not reported since is still so (`LapsedIsOld`) and not among
them (`FoundIsLive`), and a driver that stayed
near and fresh is found, still to be read, or shut out by `Limit` or COUNT others
(`NobodyIsSkipped`). `NearerFirst` needs no particular weights: every part of the
score grows with nearness, freshness and free places, the products over the
common denominator keep this (`WeightedParts`), and rounding never turns the order
of two numbers around (`RoundedFractions`). It may make two equal, and then the
distance decides, as the comparison in the code does next.

**Route planner.** `RoutePlannerProofs` proves `AcceptedAreServed`
(`RouteServesAccepted`), `VehicleHasRoom` (`VehicleNeverOverloaded`),
`OnlyTooLargeRejected` (`OnlyImpossibleRejected`) and `NoInsertionIsShorter`
(`InsertionIsShortest`), for any orders, distances and capacity. It has three layers.

* What the recursive functions and the library's sum compute. A set of numbers
  with 0 that has with each number the next is `Nat` (`CountingUp`, from the
  well-foundedness of finite sets under inclusion); with this, `LoadsAreTotals`
  and `SumOfOneMore` say what one more stop or one more order adds.
* What a route is: `Serves` says that the stops of just these orders are paired.
  An insertion makes such a route of one order more (`ServesInserted`), on such a route
  the running load is the sum of the demands on board (`LoadIsSum`), so that the
  code's feasibility check means that nothing is overloaded (`FeasibleIffItFits`),
  and a pair that fits an empty vehicle fits at the end (`FitsAtTheEnd`).
* `RouteInv`: the route serves the accepted orders and is feasible. That the vehicle
  is never overloaded is not inductive alone, because the code checks a running
  load, and this is only worth something on a route of pairs.

**Places.** `PlacesProofs` has the other three components of `MCPlaces` and the whole.

* Tracking: `HistoryKeepsSamples` (`HistoryIsComplete`), `LatestFollowsHistory`
  (`LatestIsNewest`), `LiveIsWhereIndexed` (`TypeOK` and `LiveIsIndexed`) and
  `LivePositionsAdvance` (`LiveMovesForward`), for any drivers, times and number of
  overlapping updates. An update may find a job that is done and add none, so
  `TrackingInv` has to say that such a job has left its row; the query looks at the
  row only when the hash is gone, so it has to say that the row follows the history
  all the time (`LatestRow`); and the guard reads the hash while the property is
  about the GEO entry, so it has to say that they agree while the hash lasts.
* Websocket: `WatchersAreNotMisled` (`WatchersFollowLive`), and that the service with
  its websocket still implements the service (`GatewayTracks`), so that everything
  proved of `Tracking` holds of the two together (`GatewayForgetsNothing`). The
  broadcast is two awaits after the guard; `WatchInv` says what is still true by
  then: the sample is one that Redis accepted, and the hash has not gone behind it
  since, unless it has expired. `TimesAssumption` and `SendersAssumption` are what
  it needs.
* Map: `RoadFollowsStops` (`RoadIsCurrent`), for any stops and number of requests.
  `MapInv` says that the only request that is still open is about the stops shown,
  which the cleanup of the effect sees to.
* Calls: `AnswersHold` (`AnswersAreTrue`), for any number of calls. `CallInv` says that
  a service answers a call once and changes nothing after it (`AnsweredOnce`), that
  its answers are true and stay so (`RepliesAreTrue`), that the gateway tells no more
  than it was answered, but for calls it refused itself and never passed on
  (`ToldIsAnswered`, `ScreenedIsNotSent`), and that of the cancels of a dispatch only
  the one that found it ASSIGNED has changed it (`CancelledOnce`). The last holds
  across the gap between the read and the transaction, since the transaction reads
  again.
* `PlacesTypes`, `PlacesSearches` and `PlacesPlans` bring the theorems about the
  components to the composition that TLC runs.

**Only model-checked** are the liveness properties: `ReleaseCompletes`,
`LateReservationIsReleased`, `CompensationCompletes`, `SearchEnds`, `EveryEventSettles`,
`HalfOpenEnds`, `WaitersEnd` and `ListsCatchUp`. Fairness is about ENABLED, which the
prover does not reason about. So the instances of these runs are all that is known,
and likewise of the five violations, which need no more. That an event leaves the
bus just when its inbox row says so (`Settled`) is argued in the comment of EventBus
and not proved. The theorems say nothing about values outside the assumptions: there are a `CallTimeout`
below `ResetTimeout`, whole distances and demands, and driver ids that are numbers,
so that they can be compared.

## 5. Not modelled

* The estimate of the pick-up time and its SLA class, the arithmetic of an ETA, the
  totals of a route and the savings it claims: they are computed from what is
  modelled, and nothing decides on them.
* Two samples of one driver with the same millisecond are one sample in `Tracking`;
  in the code the second may replace the live position, while the history keeps
  the first.
* Of the console: `i18n.ts` (words), the markup of the components, forms and
  theme, the optimization lab and the decision panel. Each of the last two is a
  request whose answer is displayed.
* Metrics registries, tracing and health probes: nothing in the program reads them
  back. Of the access logs, those of the gateway and of the order service are
  modelled, where a documented promise is about them.
* Module wiring, configuration, DTO decorators beyond what they accept or refuse,
  migrations, load-test and operations scripts.

## 6. Plan

1. Proofs: a mapping to `EventBus` under which settled copies leave the bus. Whether
   a handled event is settled or comes once more is decided in EventBus when the
   handler commits, in the code later; so this takes a prophecy.
2. A variant of `OrderService` with a version column, in which `overwritten` stays
   empty, so that `CancelledIsTerminal` and `OrderFollowsDispatch` hold of every order:
   what the repair of `SagaReopened` has to achieve.
3. `OrderService` and `OrderIntake` in one run, so that an order that is posted
   twice is also dispatched once.
4. A second order in the saga, when the driver rows are abstracted to the ledger
   that `ImplementsLedger` shows them to be.
