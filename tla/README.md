# Verification of the Notification Service and the Task Scheduler

TLA+ models of the two Go services of this repository, of their composition and
of the middlewares in front of them, the TLC runs that check them on small
instances, and TLAPS proofs of their central properties for every value of the
constants. Paths below are relative to the repository root.

    tlc -workers 2 -config Replicas.cfg MCNotificationSystem
    tlapm NotificationSystemProofs.tla

## 1. Inventory

### Components

| Component | State | Operations | Modelled in |
|---|---|---|---|
| Notification pipeline (`internal/service/system.go`) | buffered `NotificationChannel`, workers, `ShuttingDown`, context | `CreateNotification`, `Worker`/`Process`, `RetryScheduler`, `ScheduleNotification`, `Shutdown` | `NotificationSystem` |
| Notification and dead-letter repositories (`internal/repository/postgres`) | tables `notifications`, `dlq_notifications` | `Save`, `Update`, `Get`, `GetReadyJobs`, `GetTotalCount` | `NotificationSystem` |
| Notification handlers (`internal/handler/notification_handler.go`) | none of their own | `Create`, `DispatchCallback`, `GetByID` | `NotificationSystem` |
| Notification process (`cmd/notification-service`) | process life cycle | start, signal, shutdown | `NotificationSystem` |
| Task Scheduler core (`internal/scheduler/service`) | `taskChannel`, `tickLoop`, workers | `Start`, `tickLoop`, `worker`, `executeCallback`, `handleFailure`, `Stop` | `TaskScheduler` |
| Task repositories (`internal/scheduler/repository`) | tables `tasks`, `dlq_tasks`, Redis entries | `Save`, `Get`, `Update`, `ClaimReadyTasks`, `RecoverTasks`, DLQ `Save` | `TaskScheduler` |
| Task handlers (`internal/scheduler/handler`) | none of their own | `CreateTask`, `GetTask`, `UpdateTask` | `TaskScheduler` |
| Task Scheduler process (`cmd/task-scheduler`) | process life cycle | table creation, start, stop | `TaskScheduler` |
| Scheduled delivery: `ScheduleNotification`, `POST /tasks`, the callback | two HTTP exchanges between the services | post, refuse, call back, answer, time out | `ScheduledDelivery` |
| API key check of the Task Scheduler (`internal/scheduler/middleware`) | none | compare the key | `ScheduledDelivery` (`PostTask`, `PostRefused`) |
| Rate limiter (`internal/ratelimit`) | per-user windows, in memory | `GetOrCreate`, `Allow` | `RateLimiter` |
| Auth0 middleware (`internal/middleware/auth.go`) | token cache (`sync.Map`) | load, delete, ask Auth0, store | `AuthCache` |
| Router (`internal/router`) | none | the order of the middlewares | `Gateway` |
| Templates (`template_repository.go`, `template_handler.go`) | table `templates` | `Save`, `Get`, `GetAll` | `Templates` |
| Configuration, database connection, migrations, web console | none | | not modelled |

### Modules

    NotificationSystem --- DeliveryContract       one service, and what it promises
    TaskScheduler                                 the other service
    ScheduledDelivery = NotificationSystem + TaskScheduler
    Gateway = AuthCache + RateLimiter (over RequestClock);  RateLimiter --- Quota
    Templates                                     tenants in shared tables

`ScheduledDelivery` EXTENDS `NotificationSystem` and INSTANCEs `TaskScheduler`;
`Gateway` EXTENDS its two parts. `DeliveryContract` and `Quota` are abstract
specifications that `NotificationSystem` and `RateLimiter` implement. Proofs are
in modules of their own (section 9), `MC*` modules give constants to TLC.

### How they interact

* A client's `Create` inserts a row and sends a **copy** of it on the channel of
  its replica; workers receive copies, call the provider and write **the whole
  row** back from their copy.
* The `RetryScheduler` of every replica claims PENDING rows that are due (one
  `UPDATE ... RETURNING` over a `FOR UPDATE SKIP LOCKED` select) and sends copies
  of them on its own replica's channel. Replicas share nothing but the table.
* A `Create` with `execute_at` inserts a SCHEDULED row and delegates to the Task
  Scheduler over HTTP. At the due time that service posts to `DispatchCallback`,
  which makes the row PENDING and tries to enqueue it.
* The Task Scheduler is one process: `tickLoop` claims due tasks into a channel,
  workers call back and record the outcome. Reads of a task prefer Redis; updates
  delete the Redis entry after the commit.
* A request of a client passes the Auth0 middleware, which sets `user_id`, and, if
  it is a POST, the rate limiter under that user. The callback route passes
  neither; it compares a bearer token with `SCHEDULER_API_KEY` instead.
* The senders resolve the template of a notification again at every attempt, for
  the user they find in the copy they carry.

### What is hard

* Two enqueuers for one row: the row is PENDING and due *before* `Create` sends
  its copy, so the `RetryScheduler` can claim the same notification.
* Stale copies: a slow worker's `Update` overwrites whatever the row became.
* Nothing ever looks for PROCESSING rows again, so losing the only copy of one
  (crash, shutdown, panic, failed statement) loses the notification.
* Checks and their effects in separate statements: the threshold, the status
  check of the callback, the free capacity of `taskChannel`, the cached status.
* Shutdown orders: `select` may prefer `ctx.Done`; neither service waits for its
  polling goroutine before closing the channel it sends on.
* Rescheduling a task that is queued or being executed.
* A callback that times out while its handler goes on; a delegation that times out
  while its task is stored; a crash of either service between two of these steps.
* Load, delete and store of the token cache by requests with one token; the stamp
  `time.Now()` that the limiter takes before it waits for the mutex.
* Two statements where one fails (DLQ status and archive entry), and errors that
  are only logged.

`PROJECT.json` lists these hazards at their lines with the properties they
motivated. `ProcessingIsCarried`, `DeadLettersArchived` and `QueuedIsHeld` excuse
what a named failure lost (`dropped`, `lost`): crashes, shutdowns and failed
statements do lose work in this code, and the properties show that nothing else
does. The hazards say so in their notes, and the ones that no property covers say
why.

## 2. NotificationSystem

Every database statement, channel operation and provider call is one step; code
between two of them belongs to the first. `next_retry_at` is reduced to `due`,
the one comparison the code makes (`next_retry_at <= NOW()`); contents,
recipients, templates and users are abstracted away. Ids are numbered in the
order of creation, which is the `ORDER BY created_at` of `GetReadyJobs`.

| Variable | Code |
|---|---|
| `rows`, `dlq` | tables `notifications` (status, retry_count, due) and `dlq_notifications` (ids) |
| `tasks`, `posts` | ids the Task Scheduler has accepted a task for, and posts on their way to it (external to this module) |
| `phase` | `up`, `stopping` (context cancelled), `draining` (`ShuttingDown` set), `closed` (channel closed), `down` |
| `chan`, `work`, `poll`, `req` | channel, `Process` with its program counter and copy, `RetryScheduler` with the jobs it claimed, handlers in flight |
| `delivered` | history: how often the provider accepted each notification |
| `dropped` | history: ids of which a copy or a write was lost to a crash, shutdown, panic or failed statement since their last claim |

| Actions | Code |
|---|---|
| `CreateCheck`, `CreateReject`, `CreateSave`, `CreatePush`, `CreateAbandon` | `CreateNotification`: flag and threshold; early returns; INSERT; the `select` on the channel or the context |
| `DelegatePost`, `DelegateOk`, `DelegateFail`, `DelegateUndo` | `ScheduleNotification`, and `Create`'s clean-up when it fails (a time-out may leave the task behind) |
| `TaskStored`, `TaskRefused` | the Task Scheduler, perhaps after the client has given up or crashed |
| `DispatchRead`, `DispatchUpdate`, `DispatchPush` | `DispatchCallback`: read and status check; `Update`; `select` with `default` |
| `WorkerTake`, `WorkerExit`, `ProcessStart`, `ProcessSend`, `ProcessPanic`, `ProcessSent`, `ProcessRetry`, `ProcessDead`, `ProcessArchive` | `Worker` and `Process`, with the deferred `recover` |
| `PollClaim`, `PollClaimLost`, `PollNext`, `PollPush`, `PollExit` | `RetryScheduler` and `GetReadyJobs` |
| `Signal`, `BeginShutdown`, `CloseChannel`, `Exit`, `Crash`, `Restart` | `main.go` and `Shutdown` |
| `BackoffElapses` | the clock passing `next_retry_at` |

`Faults` says what the environment may do: `db` (a statement fails, before or
after its effect where that matters), `provider` (an accepted message is reported
as failed), `scheduler` (delegation fails), `panic` (a sender panics), `stop`,
`crash`.

### Properties

* `TypeOK`: types, the capacity of the channel, and who holds a copy when.
* `ProcessingIsCarried`: a PROCESSING row is carried by a live goroutine, or a
  named failure lost it.
* `CopiesBound`, `DeliveryBound`: the double enqueueing makes at most two copies
  per hand-over, and copies never multiply through retries, replicas, crashes or
  restarts; the provider therefore accepts at most `2 * (MaxRetryCount + 1)`
  deliveries of an immediate notification.
* `SentWasDelivered`, `DeadLettersArchived`, `RetryBudget`: what the final
  statuses and the retry counter promise in spite of stale whole-row writes.
* `DeliveredWasTriggered`: a scheduled notification is never sent before the Task
  Scheduler has its task.
* `ThresholdSlack`: the table exceeds the threshold by less than the number of
  handlers that can run together. The bound is reached: two handlers that count
  99 rows together both insert.
* `Settles`: every PENDING or PROCESSING notification ends, and stays, SENT or DLQ.
* `KeepsContract`: under every fault, what clients see are steps of
  `DeliveryContract`: rows appear one by one and stay, only stored notifications are
  delivered or archived, within the limit. Stale whole-row writes, retries and
  restarts are invisible.
* `ImplementsContract`: the table, the provider and `dlq_notifications` as a client
  sees them implement `DeliveryContract`: what is accepted is delivered, a bounded
  number of times, or becomes a dead letter, and one of the two happens.

## 3. TaskScheduler

One process over table, archive and optional Redis cache. A transaction, a Redis
command, a channel operation and a callback are one step each. `execute_at` is
reduced to `due`. Of a cached task only its status is kept, the one field the
service reads back. `Update` runs its callback on the **current** row under
`FOR UPDATE`, unlike the notification repository.

| Variable | Code |
|---|---|
| `tasks`, `archive`, `cache` | tables `tasks` and `dlq_tasks`, Redis entries (they survive the process) |
| `phase` | `up`, `stopping`, `closed` (`Stop` closed `taskChannel`), `down` |
| `chan`, `tick`, `work`, `http` | `taskChannel`, `tickLoop` with the capacity it read and the tasks it claimed, workers, handlers between two steps |
| `accepted`, `calls`, `moves`, `lost` | history: ids answered 201; callbacks and reschedulings since the start; ids of which a copy or a write was lost since the table was created |

| Actions | Code |
|---|---|
| `CreateTask`, `GetTask`, `GetTaskFill`, `UpdateTask`, `UpdateTaskDel`, `CacheExpires` | the handlers, with Redis reads, fills and deletes as steps of their own |
| `TickRead`, `TickClaim`, `TickClaimLost`, `TickPush`, `TickExit` | `tickLoop` and `ClaimReadyTasks` |
| `Take`, `WorkerExit`, `Start`, `ExecuteCallback`, `Complete`, `HandleFailure`, `WorkerDel`, `FetchCached`, `FetchRow`, `FetchFill`, `Archive` | `worker`, `executeCallback`, `handleFailure` |
| `Signal`, `Stop`, `Exit`, `Panic`, `Crash`, `Restart` | `main.go`, `Start`, `Stop`; `Restart` drops the table as `main.go` does |
| `TimePasses` | the clock passing `execute_at` |

`MaxMoves` bounds how often clients reschedule one task; with 0 they only edit
title and description.

### Properties

* `TypeOK`: types, channel capacity, and who holds a task when.
* `ClaimedTasksFit`: the capacity `tickLoop` read is still there when it sends,
  so its `default` branch ("bypassed") is dead code.
* `QueuedIsHeld`: every QUEUED or PROCESSING task is held by the running process,
  or a named failure lost it.
* `CallbackBound`: `MaxRetries + 1` callbacks, and as many again per rescheduling.
* `FailedIsArchived`: a FAILED task is in `dlq_tasks` or about to be (without Redis).
* `ExclusiveExecution`, `NeverEarly`: no two workers execute one task, and none
  before its time (without rescheduling).
* `Finishes`: every task ends, and stays, COMPLETED or FAILED.

## 4. ScheduledDelivery

The two services over the two HTTP exchanges that connect them. The names of
`NotificationSystem` are used as they are; the Task Scheduler is the instance `T`
(its table is `table`, its channel `queue`, its workers `exec`). They share
`tasks`, the ids the scheduler has accepted, and `conn`, which tells for each
worker of the scheduler which handler serves its callback.

| Actions | Code |
|---|---|
| `ClientCreates`, `HandlerAlone`, `PoolAlone`, `ClockAlone`, `TasksAlone` | steps of one service that the other does not see |
| `ReplicaLifecycle`, `SchedulerLifecycle` | start and end of a process; its connections end with it |
| `PostTask`, `PostRefused` | `ScheduleNotification`'s POST meets `APIKeyAuth` and `CreateTask`; or is lost or refused |
| `CallbackArrives` | `executeCallback` meets `DispatchCallback`, which finds the row SCHEDULED |
| `CallbackRefused` | 401, 400, 404, or no answer because the replica is or went down |
| `CallbackAnswered` | the last step of the handler gives the worker 2xx or not |
| `CallbackTimedOut` | `client.Do` gives up after 10 s, the handler goes on |

`CallbackHasKey` says whether the callback carries `SCHEDULER_API_KEY`. The code
does not add it, so FALSE is the two programs as they are (runs `delivery` and
`claim_callback`). With TRUE the key check lets the callback pass and the rest of
`DispatchCallback` meets the rest of `executeCallback`; `callbacks` uses it so that
these steps occur. Every property below holds for both values, and the theorems
assume neither. Redis and rescheduling are left out here (`Cached = FALSE`,
`MaxMoves = 0`, no handler of `T` but `CreateTask`), and so are failing statements
of the Task Scheduler (`TaskFaults`): they are those of `TaskScheduler` alone.

Properties: `DeliveryType` (types, and a connection belongs to the handler of this
very callback), `CompletedWasTriggered`, `ScheduledIsOwned` (no query of the
notification service looks for SCHEDULED rows, so each must be in somebody's hands:
its `Create` handler is still delegating it, its task is live in the scheduler, or
the failure of its task is in `dlq_tasks` or about to be), `ScheduledEnds` (what is
stored for later ends as SENT, as DLQ or as an entry of `dlq_tasks`, and stays so),
`ImplementsServices` (the composition refines each service, so what is proved of
one holds of both together). `ScheduledIsOwned` and `ScheduledEnds` do not say that
the notification is delivered: as the programs are, the entry of `dlq_tasks` is the
end of everything the scheduler has accepted (section 8).

## 5. Gateway: AuthCache and RateLimiter

One process: each replica has its own token cache and its own windows, and both
are empty after a restart, so a user of *n* replicas has *n* quotas. The clock of
`RequestClock` is what `time.Now()` reads; every duration is in its unit.

| Variable | Code |
|---|---|
| `tokenCache`, `auth`, `ended` | `expiresAt` per token; where each request stands; when Auth0 ended the session (external) |
| `windows`, `heap`, `limit` | map of windows, every window allocated (a request keeps a pointer), calls of `Allow` in progress |
| `admitted` | history: instants at which each user was let through |
| `route` | the kind of request, which decides whether it is limited |

| Actions | Code |
|---|---|
| `Arrive` (`Load`), `Authenticate` (`Delete`, `Vouch`, `Store`), `Unauthorized` (`Refuse`) | `Auth0Middleware`; nothing locks the sequence |
| `RateLimit` (`Lookup`, `Create`, `Stamp`), `LimitVerdict` (`Allow`) | `GetOrCreate` under its read lock, then its write lock; `time.Now()`; `FixedWindow.Allow` under the mutex |
| `Read` | a GET passes without the limiter |
| `Logout`, `Tick` | the end of a session at Auth0; the clock |

`Timeout` covers the time from the request to Auth0 to the `Store` of its answer:
the 5 s of the HTTP client plus the time the goroutine needs to get to `Store`.
`MaxLag` bounds the wait for a window's mutex.

Properties: `GatewayType`; `RevocationTakesEffect` (a token is refused from `TTL +
Timeout` after the end of its session on); `AdmissionBound` (the burst at a window
boundary: with a bounded wait for the mutex, `WindowsPerSpan * MaxTokens` in one
`Duration` is the worst); `LongRunRate` (bursts do not accumulate);
`ImplementsQuota` (one quota per user, although first requests race and stamps are
old).

## 6. Templates

Several users, their templates and the global ones in one table, and the
notifications that refer to them by name. The pipeline is reduced to what carries
a user or a name: the check at creation, the row, the copies (a bag), the look-up
at every attempt, the archive. `Upper` is `strings.ToUpper`: `Save` applies it,
`Create` does not. A body is told apart by author and version; its placeholders
are not modelled.

Properties: `TenantType`; `AcceptedResolves` (what resolved at creation resolves at
every attempt); `NoForeignBody`; `ArchiveKeepsOwner` (the archive shows a user
nothing the table would not); `ListedIsResolved` (`GetAll`'s DISTINCT ON agrees
with `Get`); `SaveIsLocal`.

## 7. Runs

Deadlock is checked unless said otherwise: clients, clocks and polling loops can
always move. `Gateway.cfg` switches the check off because the clock stops at
`MaxTime`, `Templates.cfg` because saves and ids are bounded.

| Run | Instance | Shows |
|---|---|---|
| `replicas` | 2 replicas, 1 worker and 1 handler each, 1 notification, all faults of the pipeline | `TypeOK`, `ProcessingIsCarried`, `CopiesBound`, `DeliveryBound`, `SentWasDelivered`, `DeadLettersArchived`, `RetryBudget`, `KeepsContract` |
| `healthy` | 1 replica, 2 handlers, threshold 1, provider faults only | `ThresholdSlack`, `Settles`, `ImplementsContract` |
| `scheduled` | 1 replica, 2 handlers, 1 notification with `execute_at`, database, delegation, stop and crash faults | `DeliveredWasTriggered`, `CopiesBound` for racing callbacks |
| `execution` | 2 tasks, 2 workers, channel of 1, no Redis, no rescheduling, database, stop and crash faults | `ClaimedTasksFit`, `QueuedIsHeld`, `ExclusiveExecution`, `FailedIsArchived`, `NeverEarly` |
| `caching` | 1 task, 2 workers, Redis with failing commands, 1 rescheduling | `TypeOK`, `QueuedIsHeld`, `CallbackBound`, `Finishes` |
| `callbacks` | both services, 1 notification, 2 handlers, 2 retries, crashes of both, database and delegation faults, slow handlers | `DeliveryType`, `CompletedWasTriggered` |
| `delivery` | both services as they are and running, 2 notifications, 2 handlers, delegation faults, slow handlers | `ScheduledIsOwned`, `ScheduledEnds`, `ImplementsServices` |
| `gateway` | 2 requests of 1 user with 1 token, `Duration` 2, `TTL` 2, `MaxTime` 6 | `GatewayType`, `AdmissionBound`, `LongRunRate`, `RevocationTakesEffect`, `ImplementsQuota` |
| `templates` | 2 users, 3 names (one seeded, one typed in lower case), 2 notifications, 2 saves | the properties of section 6 |
| `claim_double_delivery` | 1 replica, 1 worker, 1 notification, no fault | a notification is delivered twice |
| `claim_recovery` | 1 task, crash | an accepted task is gone after a restart |
| `claim_callback` | both services as they are, no fault | a stored task never releases its notification |

### Bounds

`MaxRetryCount`/`MaxRetries` is 1 (3 in the code): one retry and one exhaustion
are the two cases of the comparison; in `callbacks` it is 2, so that a callback can
time out, be refused and be refused again. Channels hold 1 copy (256 and 10), so
that full channels and blocked senders occur. `ClaimLimit` is 1 (50), so that it
cuts off. `MaxTotal` is 1 or 2 (100). Two replicas, or two handlers, or two workers
are enough for every race listed above, each of which is between two actors. With
`MaxTokens = 1`, `Duration = 2` and `MaxLag = 2` a stamp can be a whole window old,
which is the third burst of `AdmissionBound`; `MaxTime = 6` leaves room for three
windows, and for a verdict that is stored, expires and is refilled after the
session ended. Two saves let each user have a template of the same name. The
proofs of section 9 remove these bounds for the properties they cover. Counters
without a bound in a guard (`delivered`, `calls`, `admitted`) are bounded by the
properties that speak about them or by the clock; `moves` is bounded by `MaxMoves`,
`saves` by `MaxSaves`, the clock by `MaxTime`. Symmetry is used over replicas,
workers, handlers, requests, tasks and users in runs without liveness.

### Fairness

`Settles` and `ImplementsContract` assume weak fairness of every goroutine (Go's
scheduler runs runnable goroutines), of the handlers in flight, and of the clock
(`BackoffElapses`). `healthy` injects no shutdown, crash, panic or database error,
since each of them can lose a PROCESSING row for good (`dropped`). The provider may
fail for ever: the retry counter bounds it. Nothing is assumed of clients.

`Finishes` assumes weak fairness of `tickLoop`, of each worker, of handlers in
flight and of the clock. The channel is full at times, which makes `tickLoop`
skip ticks; no strong fairness is needed because a worker always empties it.

`FairDelivery` assumes the same of both services, and weak fairness of `PostTask`
(a post that is not refused arrives in the end: the network and the 10 s timeouts)
and of the end of a callback. `delivery` injects no crash, shutdown or database
error: a replica that ends between the INSERT and the post leaves a SCHEDULED row
that nobody delegates. `CallbackArrives` is strongly fair: the handlers in
flight are bounded by `Request` in the model only, while net/http gives every
connection a goroutine, so a callback is not starved by other requests.

## 8. Findings

Shown by a run:

* **Double delivery** (`claim_double_delivery`). `CreateNotification` inserts a
  PENDING, due row and then enqueues a copy; a `RetryScheduler` tick in between
  enqueues another. The main README says that SKIP LOCKED prevents double-delivery.
  `CopiesBound` shows that two is the worst case per hand-over.
* **Recovery finds nothing** (`claim_recovery`). `cmd/task-scheduler/main.go` drops
  the table at every start, before `RecoverTasks`.
* **The callback is refused** (`claim_callback`). `executeCallback` sets no
  `Authorization` header and `DispatchCallback` answers 401 without one, so a
  notification with `execute_at` stays SCHEDULED. Both parts are modelled as they
  are; `CallbackHasKey` is the header.

Limits of properties that hold, met while choosing their constants:

* `ExclusiveExecution` and `NeverEarly` need `MaxMoves = 0`: `UpdateTask`
  (`task_handler.go:100`) sets a QUEUED or PROCESSING task back to PENDING, the next
  tick claims it again, and a task moved to a later time is executed at once.
* `FailedIsArchived` needs `Cached = FALSE`: `handleFailure` re-reads the task
  through the cache (`worker.go:99`), and a `GetTask` that read the row before the
  write of FAILED and fills the cache after it (`postgres.go:98`) makes it see the
  old status: the task is never archived, although the end-to-end test of the
  scheduler, which runs with Redis, expects the entry. TLC shows the order with
  `Cached = TRUE` in `Execution.cfg`, without any fault.
* `Stop` (`scheduler.go:68`) closes `taskChannel` while `tickLoop` may still send:
  action `Panic`. `QueuedIsHeld` counts what it loses as `lost`.
* `ScheduledIsOwned` says that the task of a SCHEDULED row is live or recorded in
  `dlq_tasks`, never that something triggers the row again: nothing does. It needs
  replicas that stay up, because the crash of one that is delegating can leave a row
  without a task, and, like `FailedIsArchived`, a scheduler without Redis.
* A template saved under a lower-case name is stored in upper case and not found by
  a `Create` that uses the name as typed (`TenantType` says what names are stored).

## 9. Proofs

All theorems hold for any number of replicas, workers, handlers, ids and tasks,
any capacities and limits, and any set of faults that the module names. They rest
on the named assumptions of the modules: the sets that are counted are finite, ids
are positive numbers, capacities and limits are positive (`ConstantsAssumption`,
`SchedulerAssumption`, `DeliveryAssumption`), durations are natural numbers and a
window and a verdict last (`LimiterAssumption`, `AuthAssumption`).

| Theorem | Module | Inductive argument |
|---|---|---|
| `TypeCorrect` (`TypeOK`) | `NotificationSystemProofs` | `TypeOK` is inductive; its parts about who holds a copy at which program counter are what the other proofs need |
| `ProcessingCarried` (`ProcessingIsCarried`) | `NotificationSystemProofs` | inductive with `TypeOK`; per action, a copy leaves a place only for another place, after the row left PROCESSING, or into `dropped` |
| `RetryBudgetHolds` (`RetryBudget`) | `NotificationBudgetProofs` | `BudgetInv` adds the budget of every copy in channel, poller, worker and handler, by program counter: rows are overwritten from copies, so the bound on rows is inductive only together with the bound on copies |
| `SentDelivered` (`SentWasDelivered`) | `NotificationBudgetProofs` | adds that a worker at `sent` carries a delivered notification |
| `DeadLettersKept` (`DeadLettersArchived`) | `NotificationBudgetProofs` | with `BudgetInv`: only `ProcessDead` writes a DLQ row with a positive count, and it leaves the worker at `archive` |
| `ThresholdHolds` (`ThresholdSlack`) | `NotificationAdmissionProofs` | `ThresholdInv`: stored rows plus handlers past their check stay within the bound; `StoredInv`: every copy is of a stored row, so an `Update` never adds one |
| `DeliveredTriggered` (`DeliveredWasTriggered`) | `NotificationAdmissionProofs` | `TriggerInv`: every copy on its way to a worker and every PENDING row belongs to a notification with a task |
| `CopiesBounded` (`CopiesBound`) | `NotificationAdmissionProofs` | `CopiesInv`: a copy is at a *place* (an index of a channel, a job of a poller, a worker, a handler about to enqueue; the PENDING row is a place too, and a callback that read SCHEDULED stands for two). After the release no step adds a place without an old place of its own that it came from, having made at least as many attempts (`Fits`, an injection from the new places to the old), so their number stays at most two per hand-over. Before it, nothing but callbacks has hold of the notification (`Asleep`, `LaterInv`), and each pays for its two places when it writes the row. Rests on `StoredInv` and `BudgetInv` |
| `DeliveriesBounded` (`DeliveryBound`) | `NotificationAdmissionProofs` | the second half of `CopiesInv`: a *ticket* is a place with one of the attempts its copy has left; tickets and deliveries together never grow, because a delivery moves the worker on to an attempt less |
| `ContractKept` (`KeepsContract`) | `NotificationAdmissionProofs` | a refinement: by `StoredInv` only the INSERT of `CreateSave` adds a row (`Accept`), an attempt that reached the provider is of a stored row and, by `DeliveriesBounded` after the step, within the limit (`Deliver`), an INSERT into the archive is `Bury`, all else a stutter. No assumption on the faults |
| `TypeCorrect` (`TypeOK`) | `TaskSchedulerProofs` | inductive |
| `ClaimedTasksAlwaysFit` (`ClaimedTasksFit`) | `TaskSchedulerProofs` | `FitInv` adds that at `claim` the free capacity is at least the one that was read: only `tickLoop` sends |
| `QueuedTasksHeld` (`QueuedIsHeld`) | `TaskSchedulerProofs` | inductive with `FitInv`, without which `TickPush` could bypass a claimed task |
| `ExecutionExclusiveUnlessMoved`; `ExecutionExclusive` (`ExclusiveExecution`) for `MaxMoves = 0` | `TaskSchedulerProofs` | `OnceInv`: a task that no client has rescheduled is at most once in channel, claimed jobs and workers taken together, is QUEUED or PROCESSING while it is there, and nothing is there while the process is down. Hence a claim, which needs PENDING, never adds a second hold; a rescheduling does, which is why the first theorem speaks of `moves` |
| `TasksNeverEarly` (`NeverEarly`) for `MaxMoves = 0` | `TaskSchedulerProofs` | `OnceInv` also says that a task that is held is due: the claim looked, and only a rescheduling takes it back |
| `FailedTasksArchived` (`FailedIsArchived`) for `~Cached` | `TaskSchedulerProofs` | inductive with `TypeOK`: from `fail` to `archive` the worker re-reads the row, and nobody changes FAILED to anything but PENDING meanwhile. With a cache the re-read may see an older status (section 8) |
| `CallbacksBounded` (`CallbackBound`) | `TaskSchedulerProofs` | `BudgetInv`, a sum that no step increases: callbacks made, places that hold the task, a claimable row, and retries left in the row, within `(moves + 1) * (MaxRetries + 1)`; a rescheduling may make a second holder and pays for it with the next `MaxRetries + 1` |
| `RevocationInTime` (`RevocationTakesEffect`) | `GatewayProofs` | `AuthInv`: an entry of a token whose session ended expires within `Timeout + TTL` of that end, since a request at `store` asked before it. A deleted or refilled entry obeys the same bound, so the order of deletes and stores does not matter |
| `GatewayTyped` (`GatewayType`) | `LimiterProofs` | `AuthInv` and `LimitInv` |
| `QuotaImplemented` (`ImplementsQuota`) | `LimiterProofs` | `LimitInv`: one window per user and one user per window, and a call past `Lookup` or `Create` holds exactly that window; so `NewWindow` maps to `Open`, `Allow` to `Grant`, `Renew` or a stutter, everything else to a stutter |
| `RateHolds` (`LongRunRate`) | `LimiterProofs` | `RateInv`: admissions plus remaining tokens are at most `MaxTokens` for every `Duration` up to the start of the window; a stale stamp only makes the new start earlier |
| `BurstsBounded` (`AdmissionBound`) | `LimiterProofs` | `SpanInv`: seen from any admission, what was let through since fits into one burst per `Duration` between that admission and the start of the user's window, which may have begun `MaxLag` before it let the request through (`FreshInv`: no stamp is older). An admission `WindowsPerSpan` bursts later therefore finds a window that starts a `Duration` later; `SpanElapsed` is the arithmetic |
| `ServicesImplemented` (`ImplementsServices`) | `DeliveryProofs` | every step of the composition is a step of each service or leaves it alone; with it `DeliveredWasTriggered`, and whatever else is proved of a service, holds of the composition (`TriggeredTogether`) |
| `CompletedTriggered` (`CompletedWasTriggered`) | `DeliveryProofs` | `CallbackInv`: a handler that is about to send has released its row; a connected worker waits at its callback for a handler of the same notification, which serves no other worker; what a worker takes for done is released. Released rows stay released (`RowFlow` of `NotificationAdmissionProofs`: no write makes a row SCHEDULED again) |
| `DeliveryTypeCorrect` (`DeliveryType`) | `DeliveryProofs` | the type invariant of the Task Scheduler inside the composition, split into its rows and holders (`TaskShape`), which the connections depend on, and the rest (`SchedulerRest`) |
| `ScheduledOwned` (`ScheduledIsOwned`) without database errors, stops and crashes of the notification service and without failing statements of the Task Scheduler, for both values of `CallbackHasKey` | `DeliveryProofs` | `OwnedInv` on top of `CallbackInv`: a SCHEDULED row is being delegated or its id is accepted (`DelegatedOrAccepted`: a handler leaves `delegate`, `wait` and `undo` only with the scheduler's answer or after it wrote DLQ), an accepted id has a task, since tasks are never deleted (`AcceptedInTable`), and a worker that wrote FAILED records it (`FailuresRecorded`); a COMPLETED task is excluded by `CallbackInv`. Lost and late posts, time-outs, panics and provider failures are allowed |
| `TenantsTyped`, `AcceptedAlwaysResolves`, `BodiesNeverForeign`, `ArchiveNeverWidens` (`TenantType`, `AcceptedResolves`, `NoForeignBody`, `ArchiveKeepsOwner`) | `TemplatesProofs` | `TenantInv`: templates are never removed and written by their owner; a copy carries the name and user of its row, the archive the user of its row; what was checked resolves. From `TenantAssumption` only |
| `ListingIsResolution` (`ListedIsResolved`) | `TemplatesProofs` | `ListIsGet`: DISTINCT ON keeps the user's own row before the global one, as the look-up does; true of every table, reachable or not |
| `SavesAreLocal` (`SaveIsLocal`) | `TemplatesProofs` | an action property: `Put` writes the row of one owner, and no user's look-up reads another's |

Each invariant in the table was first checked by TLC on an instance of its run (or
a larger one: two task workers for `OwnedInv`, `MaxTokens = 2` for `SpanInv`), then
proved. `FailedIsArchived`, `ExclusiveExecution`, `NeverEarly` and
`ScheduledIsOwned` are proved under the constants that section 8 says they need; of
those constants nothing else is assumed.

Only model-checked: the liveness properties `Settles`, `Finishes`, `ScheduledEnds`
and the part `Served` of `ImplementsContract`, which are outside the prover's reach;
the rest of `ImplementsContract` is `ContractKept`.

## 10. Not modelled

* Configuration, database connection, migrations and the web console: parsing,
  input and output at start-up or in the browser, without state of their own. Their
  values are CONSTANTS.
* `InMemoryIdempotencyRepository`, which nothing calls.
* `generateID` of the task handlers (one-second resolution, used only when a
  client sends no id), and the ids of archive entries.
* Placeholders of template bodies, e-mail and SMS formats, logging, static files and
  `/health`.
* The limiter's key by client address, which no request reaches behind the auth
  middleware, and requests with a malformed header, which touch no state.
* Redis, rescheduling and failing statements of the Task Scheduler inside
  `ScheduledDelivery`: they are in `TaskScheduler`.

## 11. Plan

Done: `NotificationSystem` and `TaskScheduler` with their proofs; the composition
`ScheduledDelivery` with both refinements; `Gateway` with `RateLimiter` and
`AuthCache`; `Templates`; the abstract specifications `DeliveryContract` and
`Quota`.

Proved: every invariant and action property of the passing runs, and the
refinements of both services by the composition, of `Quota` by the limiter and of
the safety part of `DeliveryContract` by the Notification Service.

Next: what follows from `ServicesImplemented` for the composition beyond
`TriggeredTogether` (budgets, callbacks per task), and the safety arguments behind
`Settles`: which step a notification that is not settled can always take.
