------------------------- MODULE NotificationSystem -------------------------
(***************************************************************************)
(* The Notification Service: the replicas of cmd/notification-service over *)
(* one PostgreSQL database.  Each replica runs HTTP handlers, a buffered   *)
(* channel of notification copies, a pool of workers and one RetryScheduler*)
(* that claims PENDING rows.  A Go channel carries COPIES of the row, so a *)
(* worker writes back what it carries, never what the row holds by then.   *)
(*                                                                         *)
(* Every database statement, channel operation and provider call is one    *)
(* atomic step; everything between two of them is merged into the first.   *)
(* Time is abstracted to the one comparison the code makes: row.due says   *)
(* next_retry_at <= NOW().                                                 *)
(***************************************************************************)
EXTENDS Naturals, Sequences, FiniteSets

CONSTANTS
  Server,         \* replicas of the service
  Worker,         \* worker goroutines of one replica (WORKER_COUNT)
  Request,        \* HTTP handlers one replica can have in flight together
  Id,             \* notification ids, numbered in the order of creation
  MaxRetryCount,  \* 3 in cmd/notification-service/main.go
  QueueSize,      \* capacity of NotificationChannel, 256 in main.go
  ClaimLimit,     \* LIMIT of GetReadyJobs, 50
  MaxTotal,       \* system threshold of CreateNotification, 100
  Modes,          \* which kinds of Create the clients make: "now", "later"
  Faults          \* which failures the environment may inject

ASSUME ConstantsAssumption ==
  /\ Id \subseteq Nat \ {0}
  /\ IsFiniteSet(Id)
  /\ IsFiniteSet(Server)
  /\ IsFiniteSet(Request)
  /\ MaxRetryCount \in Nat
  /\ QueueSize \in Nat \ {0}
  /\ ClaimLimit \in Nat \ {0}
  /\ MaxTotal \in Nat \ {0}
  /\ Modes \subseteq {"now", "later"}
  /\ Faults \subseteq {"db", "provider", "scheduler", "panic", "stop", "crash"}

VARIABLES
  rows,       \* table notifications
  dlq,        \* ids in table dlq_notifications
  tasks,      \* ids the Task Scheduler has stored a task for (external)
  posts,      \* ids whose POST /tasks is on its way to the Task Scheduler
  phase,      \* life cycle of each replica's process
  chan,       \* NotificationChannel of each replica
  work,       \* the workers of each replica, with the copy they process
  poll,       \* RetryScheduler of each replica, with the jobs it claimed
  req,        \* HTTP handlers in flight
  delivered,  \* history: how often the provider accepted each notification
  dropped     \* history: ids of which a copy or a write was lost after the
              \* last claim

vars == <<rows, dlq, tasks, posts, phase, chan, work, poll, req, delivered, dropped>>

-----------------------------------------------------------------------------
(* State                                                                   *)

Status == {"PENDING", "PROCESSING", "SENT", "DLQ", "SCHEDULED"}

\* A row; "NONE" stands for an id that was never inserted.
Row == [status : Status \cup {"NONE"}, retry : Nat, due : BOOLEAN]

\* What a goroutine carries of a notification; NoCopy when it carries none.
Copy == [id : Id, retry : Nat]
NoCopy == [id |-> 0, retry |-> 0]

\* "up": serving.  "stopping": the signal context is cancelled.  "draining":
\* ShuttingDown is set.  "closed": the channel is closed.  "down": no process.
Phase == {"up", "stopping", "draining", "closed", "down"}

\* Program counters of Worker/Process: the step the worker takes next.
WorkerPc == {"select", "start", "send", "sent", "retry", "dead", "archive",
             "exited"}
Busy == {"start", "send", "sent", "retry", "dead"}
PollPc == {"wait", "loop", "push", "exited"}
ReqPc == {"idle", "checked", "push", "delegate", "wait", "undo", "update",
          "trypush"}

IdleWorker == [pc |-> "select", n |-> NoCopy]
IdlePoller == [pc |-> "wait", jobs |-> {}, job |-> NoCopy]
IdleRequest == [pc |-> "idle", mode |-> "now", n |-> NoCopy]

Init ==
  /\ rows = [id \in Id |-> [status |-> "NONE", retry |-> 0, due |-> FALSE]]
  /\ dlq = {}
  /\ tasks = {}
  /\ posts = {}
  /\ phase = [s \in Server |-> "up"]
  /\ chan = [s \in Server |-> <<>>]
  /\ work = [s \in Server |-> [w \in Worker |-> IdleWorker]]
  /\ poll = [s \in Server |-> IdlePoller]
  /\ req = [s \in Server |-> [r \in Request |-> IdleRequest]]
  /\ delivered = [id \in Id |-> 0]
  /\ dropped = {}

-----------------------------------------------------------------------------
(* The repositories and the channel                                        *)

\* Rows in table notifications, what GetTotalCount counts.
Stored == {id \in Id : rows[id].status # "NONE"}

\* NotificationRepository.Update: the WHOLE row is written from the copy.
WriteRow(n, status, due) ==
  rows' = [rows EXCEPT ![n.id] =
             [status |-> status, retry |-> n.retry, due |-> due]]

\* An Update that returns an error left the row as it was; Process only logs.
UpdateFails(n) ==
  /\ "db" \in Faults
  /\ dropped' = dropped \cup {n.id}
  /\ UNCHANGED rows

\* Mutant of Ready: the poller also picks up SCHEDULED rows.
ReadyAnyStatus(id) == rows[id].status \in {"PENDING", "SCHEDULED"} /\ rows[id].due

\* WHERE status = 'PENDING' AND next_retry_at <= NOW()
Ready(id) == rows[id].status = "PENDING" /\ rows[id].due

\* ORDER BY created_at ASC LIMIT 50: the oldest ready rows, up to the limit.
Claimable(S) ==
  LET ready == {id \in Id : Ready(id)}
  IN  /\ S \subseteq ready
      /\ Cardinality(S) <= ClaimLimit
      /\ S # ready => Cardinality(S) = ClaimLimit
      /\ \A x \in S, y \in ready \ S : x < y

\* Mutant of ClaimRows: the ready rows are selected but not marked.
ReadRowsOnly(S) == UNCHANGED rows

\* SET status = 'PROCESSING' ... RETURNING: claim and copy in one statement.
ClaimRows(S) ==
  rows' = [id \in Id |->
             IF id \in S THEN [rows[id] EXCEPT !.status = "PROCESSING"]
                         ELSE rows[id]]
CopyOf(id) == [id |-> id, retry |-> rows[id].retry]

\* Mutants of Exhausted: off by one in either direction.
ExhaustedEarly(n) == n.retry >= MaxRetryCount
ExhaustedLate(n) == n.retry > MaxRetryCount + 1

\* n.RetryCount > n.MaxRetryCount, after the increment
Exhausted(n) == n.retry > MaxRetryCount

\* Mutant of HasRoom: the capacity of the channel is ignored.
HasRoomAlways(s) == phase[s] # "closed"

\* A send on the buffered channel can proceed.
HasRoom(s) == phase[s] # "closed" /\ Len(chan[s]) < QueueSize

\* Mutant of Enqueue: a select with a default branch that drops the copy.
EnqueueOrDrop(s, n) ==
  chan' = IF HasRoom(s) THEN [chan EXCEPT ![s] = Append(@, n)] ELSE chan

Enqueue(s, n) == HasRoom(s) /\ chan' = [chan EXCEPT ![s] = Append(@, n)]

CtxDone(s) == phase[s] # "up"
ShuttingDown(s) == phase[s] \in {"draining", "closed"}

-----------------------------------------------------------------------------
(* NotificationHandler.Create and NotificationSystem.CreateNotification    *)

SetReq(s, r, pc, mode, n) ==
  req' = [req EXCEPT ![s][r] = [pc |-> pc, mode |-> mode, n |-> n]]
EndReq(s, r) == req' = [req EXCEPT ![s][r] = IdleRequest]

\* Mutant of UnderThreshold: totalCount > 100 is refused.
UpToThreshold == Cardinality(Stored) <= MaxTotal

\* totalCount >= 100 is refused
UnderThreshold == Cardinality(Stored) < MaxTotal

\* The flag and the threshold are checked; an early return changes nothing.
CreateCheck(s, r) ==
  /\ req[s][r].pc = "idle"
  /\ phase[s] \in {"up", "stopping"}
  /\ ~ShuttingDown(s)
  /\ UnderThreshold
  /\ \E mode \in Modes : SetReq(s, r, "checked", mode, NoCopy)
  /\ UNCHANGED <<rows, dlq, tasks, posts, phase, chan, work, poll, delivered, dropped>>

\* The template is missing, or a query or the INSERT fails: 400, no row.
CreateReject(s, r) ==
  /\ req[s][r].pc = "checked"
  /\ EndReq(s, r)
  /\ UNCHANGED <<rows, dlq, tasks, posts, phase, chan, work, poll, delivered, dropped>>

\* The INSERT: PENDING and due at once, or SCHEDULED for a future execute_at.
CreateSave(s, r) ==
  /\ req[s][r].pc = "checked"
  /\ \E id \in Id \ Stored :
       LET n == [id |-> id, retry |-> 0]
           later == req[s][r].mode = "later"
       IN  /\ \A x \in Id \ Stored : id <= x
           /\ WriteRow(n, IF later THEN "SCHEDULED" ELSE "PENDING", ~later)
           /\ SetReq(s, r, IF later THEN "delegate" ELSE "push",
                     req[s][r].mode, n)
  /\ UNCHANGED <<dlq, tasks, posts, phase, chan, work, poll, delivered, dropped>>

\* select: enqueue the copy and answer 202 ...
CreatePush(s, r) ==
  /\ req[s][r].pc = "push"
  /\ Enqueue(s, req[s][r].n)
  /\ EndReq(s, r)
  /\ UNCHANGED <<rows, dlq, tasks, posts, phase, work, poll, delivered, dropped>>

\* ... or give up once the context is done.  A send on the closed channel
\* panics instead: gin.Recovery answers 500, to the same effect.  An INSERT
\* that was committed but reported as failed also leaves a row behind.
CreateAbandon(s, r) ==
  /\ \/ req[s][r].pc = "push" /\ CtxDone(s)
     \/ req[s][r].pc \in {"push", "delegate"} /\ "db" \in Faults
  /\ EndReq(s, r)
  /\ UNCHANGED <<rows, dlq, tasks, posts, phase, chan, work, poll, delivered, dropped>>

\* ScheduleNotification posts the task ...
DelegatePost(s, r) ==
  /\ req[s][r].pc = "delegate"
  /\ posts' = posts \cup {req[s][r].n.id}
  /\ SetReq(s, r, "wait", req[s][r].mode, req[s][r].n)
  /\ UNCHANGED <<rows, dlq, tasks, phase, chan, work, poll, delivered, dropped>>

\* ... which the scheduler stores, if need be after the client has given up
\* on its answer or has crashed ...
TaskStored(id) ==
  /\ id \in posts
  /\ posts' = posts \ {id}
  /\ tasks' = tasks \cup {id}
  /\ UNCHANGED <<rows, dlq, phase, chan, work, poll, req, delivered, dropped>>

\* ... or never does: it is down, refuses the request or fails to store it.
TaskRefused(id) ==
  /\ "scheduler" \in Faults
  /\ id \in posts
  /\ posts' = posts \ {id}
  /\ UNCHANGED <<rows, dlq, tasks, phase, chan, work, poll, req, delivered, dropped>>

\* 200 or 201: the scheduler has stored the task, and the client gets 202.
DelegateOk(s, r) ==
  /\ req[s][r].pc = "wait"
  /\ req[s][r].n.id \in tasks
  /\ EndReq(s, r)
  /\ UNCHANGED <<rows, dlq, tasks, posts, phase, chan, work, poll, delivered, dropped>>

\* It fails: refused, or the answer does not arrive within 10 s, in which
\* case the task may exist already or come to exist later.
DelegateFail(s, r) ==
  /\ "scheduler" \in Faults
  /\ req[s][r].pc = "wait"
  /\ SetReq(s, r, "undo", req[s][r].mode, req[s][r].n)
  /\ UNCHANGED <<rows, dlq, tasks, posts, phase, chan, work, poll, delivered, dropped>>

\* Mutant of DelegateUndo: the row is left as it is.
DelegateUndoForgets(s, r) ==
  /\ req[s][r].pc = "undo"
  /\ EndReq(s, r)
  /\ UNCHANGED <<rows, dlq, tasks, posts, phase, chan, work, poll, delivered, dropped>>

\* The clean-up after a failed delegation marks the row DLQ from the copy
\* made at creation; its error is ignored.
DelegateUndo(s, r) ==
  /\ req[s][r].pc = "undo"
  /\ \/ WriteRow(req[s][r].n, "DLQ", FALSE) /\ UNCHANGED dropped
     \/ UpdateFails(req[s][r].n)
  /\ EndReq(s, r)
  /\ UNCHANGED <<dlq, tasks, posts, phase, chan, work, poll, delivered>>

-----------------------------------------------------------------------------
(* NotificationHandler.DispatchCallback, for a caller that presents the key *)

\* Mutant of DispatchRead: the status is not checked.
DispatchReadUnchecked(s, r, id) ==
  /\ req[s][r].pc = "idle"
  /\ phase[s] # "down"
  /\ id \in tasks
  /\ SetReq(s, r, "update", "later", CopyOf(id))
  /\ UNCHANGED <<rows, dlq, tasks, posts, phase, chan, work, poll, delivered, dropped>>

\* Get and the status check; any status but SCHEDULED is answered 400.
DispatchRead(s, r, id) ==
  /\ req[s][r].pc = "idle"
  /\ phase[s] # "down"
  /\ id \in tasks
  /\ rows[id].status = "SCHEDULED"
  /\ SetReq(s, r, "update", "later", CopyOf(id))
  /\ UNCHANGED <<rows, dlq, tasks, posts, phase, chan, work, poll, delivered, dropped>>

\* Update to PENDING, due now; an error answers 500 with or without effect.
DispatchUpdate(s, r) ==
  /\ req[s][r].pc = "update"
  /\ \/ /\ WriteRow(req[s][r].n, "PENDING", TRUE)
        /\ SetReq(s, r, "trypush", "later", req[s][r].n)
     \/ /\ "db" \in Faults
        /\ WriteRow(req[s][r].n, "PENDING", TRUE) \/ UNCHANGED rows
        /\ EndReq(s, r)
  /\ UNCHANGED <<dlq, tasks, posts, phase, chan, work, poll, delivered, dropped>>

\* select with default: 200 when the channel has room, else 503 "deferred to
\* poller".  On the closed channel the send panics and gin answers 500.
DispatchPush(s, r) ==
  /\ req[s][r].pc = "trypush"
  /\ \/ Enqueue(s, req[s][r].n)
     \/ ~HasRoom(s) /\ UNCHANGED chan
  /\ EndReq(s, r)
  /\ UNCHANGED <<rows, dlq, tasks, posts, phase, work, poll, delivered, dropped>>
-----------------------------------------------------------------------------
(* Worker, Process and the senders                                         *)

SetWork(s, w, pc, n) == work' = [work EXCEPT ![s][w] = [pc |-> pc, n |-> n]]

WorkerTake(s, w) ==
  /\ work[s][w].pc = "select"
  /\ chan[s] # <<>>
  /\ chan' = [chan EXCEPT ![s] = Tail(@)]
  /\ SetWork(s, w, "start", Head(chan[s]))
  /\ UNCHANGED <<rows, dlq, tasks, posts, phase, poll, req, delivered, dropped>>

\* select takes either ready case, so a worker may leave a channel that still
\* holds copies.
WorkerExit(s, w) ==
  /\ work[s][w].pc = "select"
  /\ phase[s] \in {"stopping", "draining"}
  /\ SetWork(s, w, "exited", NoCopy)
  /\ UNCHANGED <<rows, dlq, tasks, posts, phase, chan, poll, req, delivered, dropped>>

\* Update to PROCESSING; the job runs even if the update fails.
ProcessStart(s, w) ==
  /\ work[s][w].pc = "start"
  /\ \/ WriteRow(work[s][w].n, "PROCESSING", TRUE) /\ UNCHANGED dropped
     \/ UpdateFails(work[s][w].n)
  /\ SetWork(s, w, "send", work[s][w].n)
  /\ UNCHANGED <<dlq, tasks, posts, phase, chan, poll, req, delivered>>

\* Mutant of AfterFailure: the error of the job is ignored.
IgnoreFailure(n) == [pc |-> "sent", n |-> n]

\* Where Process goes when the job returned an error.
AfterFailure(n) ==
  LET m == [n EXCEPT !.retry = @ + 1]
  IN  [pc |-> IF Exhausted(m) THEN "dead" ELSE "retry", n |-> m]

Deliver(id) == delivered' = [delivered EXCEPT ![id] = @ + 1]

\* Job: the provider accepts; or it refuses; or it accepts and the answer is
\* lost or late, which the sender reports as a failure.
ProcessSend(s, w) ==
  LET n == work[s][w].n
      fail == work' = [work EXCEPT ![s][w] = AfterFailure(n)]
  IN  /\ work[s][w].pc = "send"
      /\ \/ Deliver(n.id) /\ SetWork(s, w, "sent", n)
         \/ UNCHANGED delivered /\ fail
         \/ "provider" \in Faults /\ Deliver(n.id) /\ fail
      /\ UNCHANGED <<rows, dlq, tasks, posts, phase, chan, poll, req, dropped>>

\* The sender panics: the worker recovers, forgets the copy and goes on.
ProcessPanic(s, w) ==
  /\ "panic" \in Faults
  /\ work[s][w].pc = "send"
  /\ dropped' = dropped \cup {work[s][w].n.id}
  /\ SetWork(s, w, "select", NoCopy)
  /\ UNCHANGED <<rows, dlq, tasks, posts, phase, chan, poll, req, delivered>>

ProcessSent(s, w) ==
  /\ work[s][w].pc = "sent"
  /\ \/ WriteRow(work[s][w].n, "SENT", TRUE) /\ UNCHANGED dropped
     \/ UpdateFails(work[s][w].n)
  /\ SetWork(s, w, "select", NoCopy)
  /\ UNCHANGED <<dlq, tasks, posts, phase, chan, poll, req, delivered>>

\* Mutant of ProcessRetry: the status is not set back to PENDING.
ProcessRetryKeepsStatus(s, w) ==
  /\ work[s][w].pc = "retry"
  /\ WriteRow(work[s][w].n, "PROCESSING", FALSE)
  /\ SetWork(s, w, "select", NoCopy)
  /\ UNCHANGED <<dlq, tasks, posts, phase, chan, poll, req, delivered, dropped>>

\* Back to PENDING with the incremented count, due after the back-off.
ProcessRetry(s, w) ==
  /\ work[s][w].pc = "retry"
  /\ \/ WriteRow(work[s][w].n, "PENDING", FALSE) /\ UNCHANGED dropped
     \/ UpdateFails(work[s][w].n)
  /\ SetWork(s, w, "select", NoCopy)
  /\ UNCHANGED <<dlq, tasks, posts, phase, chan, poll, req, delivered>>

\* Mutant of ProcessDead: returns before the archive is written.
ProcessDeadOnly(s, w) ==
  /\ work[s][w].pc = "dead"
  /\ WriteRow(work[s][w].n, "DLQ", TRUE)
  /\ SetWork(s, w, "select", NoCopy)
  /\ UNCHANGED <<dlq, tasks, posts, phase, chan, poll, req, delivered, dropped>>

\* Mutant of ProcessDead: the row is moved to the archive, not marked.
ProcessDeadMoves(s, w) ==
  /\ work[s][w].pc = "dead"
  /\ rows' = [rows EXCEPT ![work[s][w].n.id] = [status |-> "NONE", retry |-> 0, due |-> FALSE]]
  /\ SetWork(s, w, "archive", work[s][w].n)
  /\ UNCHANGED <<dlq, tasks, posts, phase, chan, poll, req, delivered, dropped>>

\* Retries exhausted: the row becomes DLQ ...
ProcessDead(s, w) ==
  /\ work[s][w].pc = "dead"
  /\ \/ WriteRow(work[s][w].n, "DLQ", TRUE) /\ UNCHANGED dropped
     \/ UpdateFails(work[s][w].n)
  /\ SetWork(s, w, "archive", work[s][w].n)
  /\ UNCHANGED <<dlq, tasks, posts, phase, chan, poll, req, delivered>>

\* ... and is inserted into dlq_notifications; a second INSERT of the same id
\* hits the primary key and is only logged.
ProcessArchive(s, w) ==
  /\ work[s][w].pc = "archive"
  /\ \/ dlq' = dlq \cup {work[s][w].n.id} /\ UNCHANGED dropped
     \/ /\ "db" \in Faults
        /\ dropped' = dropped \cup {work[s][w].n.id}
        /\ UNCHANGED dlq
  /\ SetWork(s, w, "select", NoCopy)
  /\ UNCHANGED <<rows, tasks, posts, phase, chan, poll, req, delivered>>

-----------------------------------------------------------------------------
(* RetryScheduler                                                          *)

SetPoll(s, pc, jobs, job) ==
  poll' = [poll EXCEPT ![s] = [pc |-> pc, jobs |-> jobs, job |-> job]]

\* A tick: GetReadyJobs claims the oldest ready rows of the whole system.
PollClaim(s) ==
  /\ poll[s].pc = "wait"
  /\ phase[s] # "down"
  /\ \E S \in SUBSET Id :
       /\ Claimable(S)
       /\ ClaimRows(S)
       /\ SetPoll(s, IF S = {} THEN "wait" ELSE "loop",
                  {CopyOf(id) : id \in S}, NoCopy)
       /\ dropped' = dropped \ S
  /\ UNCHANGED <<dlq, tasks, posts, phase, chan, work, req, delivered>>

\* The UPDATE took effect but reading its result failed: the error is logged
\* and the claimed rows are forgotten.
PollClaimLost(s) ==
  /\ "db" \in Faults
  /\ poll[s].pc = "wait"
  /\ phase[s] # "down"
  /\ \E S \in SUBSET Id : Claimable(S) /\ ClaimRows(S) /\ dropped' = dropped \cup S
  /\ UNCHANGED <<dlq, tasks, posts, phase, chan, work, poll, req, delivered>>

\* The body of the for loop up to the select, for jobs in any order: RETURNING
\* promises none.
PollNext(s) ==
  /\ poll[s].pc = "loop"
  /\ ~ShuttingDown(s)
  /\ \E j \in poll[s].jobs : SetPoll(s, "push", poll[s].jobs, j)
  /\ UNCHANGED <<rows, dlq, tasks, posts, phase, chan, work, req, delivered, dropped>>

PollPush(s) ==
  /\ poll[s].pc = "push"
  /\ Enqueue(s, poll[s].job)
  /\ LET rest == poll[s].jobs \ {poll[s].job}
     IN  SetPoll(s, IF rest = {} THEN "wait" ELSE "loop", rest, NoCopy)
  /\ UNCHANGED <<rows, dlq, tasks, posts, phase, work, req, delivered, dropped>>

\* The returns: ctx.Done in either select, or ShuttingDown in the loop.
PollExit(s) ==
  /\ \/ poll[s].pc \in {"wait", "push"} /\ CtxDone(s) /\ phase[s] # "down"
     \/ poll[s].pc = "loop" /\ ShuttingDown(s)
  /\ dropped' = dropped \cup {j.id : j \in poll[s].jobs}
  /\ SetPoll(s, "exited", {}, NoCopy)
  /\ UNCHANGED <<rows, dlq, tasks, posts, phase, chan, work, req, delivered>>

-----------------------------------------------------------------------------
(* Life cycle of a replica: cmd/notification-service/main.go and Shutdown  *)

\* Everything in memory is gone with the process.
StopProcess(s) ==
  /\ phase' = [phase EXCEPT ![s] = "down"]
  /\ dropped' = dropped
       \cup {chan[s][i].id : i \in 1 .. Len(chan[s])}
       \cup {work[s][w].n.id : w \in {v \in Worker : work[s][v].n # NoCopy}}
       \cup {j.id : j \in poll[s].jobs}
  /\ chan' = [chan EXCEPT ![s] = <<>>]
  /\ work' = [work EXCEPT ![s] = [w \in Worker |-> IdleWorker]]
  /\ poll' = [poll EXCEPT ![s] = IdlePoller]
  /\ req' = [req EXCEPT ![s] = [r \in Request |-> IdleRequest]]
  /\ UNCHANGED <<rows, dlq, tasks, posts, delivered>>

\* SIGTERM, or a listener that fails: the context is cancelled.
Signal(s) ==
  /\ "stop" \in Faults
  /\ phase[s] = "up"
  /\ phase' = [phase EXCEPT ![s] = "stopping"]
  /\ UNCHANGED <<rows, dlq, tasks, posts, chan, work, poll, req, delivered, dropped>>

\* server.Shutdown returned, because the handlers ended or after 10 s, and
\* Shutdown sets the flag.
BeginShutdown(s) ==
  /\ phase[s] = "stopping"
  /\ phase' = [phase EXCEPT ![s] = "draining"]
  /\ UNCHANGED <<rows, dlq, tasks, posts, chan, work, poll, req, delivered, dropped>>

\* Wg.Wait() waits for the workers, not for the RetryScheduler.
CloseChannel(s) ==
  /\ phase[s] = "draining"
  /\ \A w \in Worker : work[s][w].pc = "exited"
  /\ phase' = [phase EXCEPT ![s] = "closed"]
  /\ UNCHANGED <<rows, dlq, tasks, posts, chan, work, poll, req, delivered, dropped>>

\* main returns, or the RetryScheduler's send on the closed channel panics.
Exit(s) == phase[s] = "closed" /\ StopProcess(s)

Crash(s) == "crash" \in Faults /\ phase[s] # "down" /\ StopProcess(s)

\* A new process: nothing is recovered from the table but what the
\* RetryScheduler will find.
Restart(s) ==
  /\ phase[s] = "down"
  /\ phase' = [phase EXCEPT ![s] = "up"]
  /\ UNCHANGED <<rows, dlq, tasks, posts, chan, work, poll, req, delivered, dropped>>

\* The clock passes next_retry_at.
BackoffElapses(id) ==
  /\ rows[id].status # "NONE"
  /\ ~rows[id].due
  /\ rows' = [rows EXCEPT ![id].due = TRUE]
  /\ UNCHANGED <<dlq, tasks, posts, phase, chan, work, poll, req, delivered, dropped>>

-----------------------------------------------------------------------------
(* Specification                                                           *)

Handler(s, r) ==
  \/ CreateCheck(s, r)  \/ CreateReject(s, r)   \/ CreateSave(s, r)
  \/ CreatePush(s, r)   \/ CreateAbandon(s, r)
  \/ DelegatePost(s, r) \/ DelegateOk(s, r)     \/ DelegateFail(s, r)
  \/ DelegateUndo(s, r) \/ \E id \in Id : DispatchRead(s, r, id)
  \/ DispatchUpdate(s, r) \/ DispatchPush(s, r)

Process(s, w) ==
  \/ ProcessStart(s, w) \/ ProcessSend(s, w) \/ ProcessPanic(s, w) \/ ProcessSent(s, w)
  \/ ProcessRetry(s, w) \/ ProcessDead(s, w) \/ ProcessArchive(s, w)

RetryScheduler(s) ==
  PollClaim(s) \/ PollClaimLost(s) \/ PollNext(s) \/ PollPush(s) \/ PollExit(s)

Lifecycle(s) ==
  \/ Signal(s) \/ BeginShutdown(s) \/ CloseChannel(s) \/ Exit(s)
  \/ Crash(s) \/ Restart(s)

\* What the clock and the Task Scheduler do.
Environment(id) == BackoffElapses(id) \/ TaskStored(id) \/ TaskRefused(id)

Next ==
  \/ \E s \in Server :
       \/ \E r \in Request : Handler(s, r)
       \/ \E w \in Worker : WorkerTake(s, w) \/ WorkerExit(s, w) \/ Process(s, w)
       \/ RetryScheduler(s)
       \/ Lifecycle(s)
  \/ \E id \in Id : Environment(id)

Spec == Init /\ [][Next]_vars

\* What a replica's goroutines do by themselves, as opposed to clients,
\* operators and faults.
HandlerStep(s, r) ==
  \/ CreateReject(s, r) \/ CreateSave(s, r) \/ CreatePush(s, r)
  \/ CreateAbandon(s, r) \/ DelegatePost(s, r) \/ DelegateOk(s, r)
  \/ DelegateFail(s, r) \/ DelegateUndo(s, r) \/ DispatchUpdate(s, r) \/ DispatchPush(s, r)

Fairness ==
  /\ \A s \in Server :
       /\ \A r \in Request : WF_vars(HandlerStep(s, r))
       /\ \A w \in Worker : WF_vars(WorkerTake(s, w) \/ Process(s, w))
       /\ WF_vars(RetryScheduler(s))
       /\ WF_vars(BeginShutdown(s) \/ CloseChannel(s) \/ Exit(s) \/ Restart(s))
       /\ \A w \in Worker : WF_vars(WorkerExit(s, w))
  /\ \A id \in Id : WF_vars(BackoffElapses(id)) /\ WF_vars(TaskStored(id))

FairSpec == Spec /\ Fairness

-----------------------------------------------------------------------------
(* Properties                                                              *)

StoreType ==
  /\ rows \in [Id -> Row]
  /\ dlq \subseteq Id
  /\ tasks \subseteq Id
  /\ posts \subseteq Id
  /\ delivered \in [Id -> Nat]
  /\ dropped \subseteq Id

ChanType ==
  /\ chan \in [Server -> Seq(Copy)]
  /\ \A s \in Server : Len(chan[s]) <= QueueSize

WorkType ==
  /\ work \in [Server -> [Worker -> [pc : WorkerPc, n : Copy \cup {NoCopy}]]]
  /\ \A s \in Server, w \in Worker :
       work[s][w].n = NoCopy <=> work[s][w].pc \in {"select", "exited"}

PollType ==
  /\ poll \in [Server -> [pc : PollPc, jobs : SUBSET Copy,
                          job : Copy \cup {NoCopy}]]
  /\ \A s \in Server :
       /\ poll[s].pc = "push" => poll[s].job \in poll[s].jobs
       /\ poll[s].pc \in {"wait", "exited"} => poll[s].jobs = {}

ReqType ==
  /\ req \in [Server -> [Request -> [pc : ReqPc, mode : {"now", "later"},
                                     n : Copy \cup {NoCopy}]]]
  /\ \A s \in Server, r \in Request :
       req[s][r].n = NoCopy <=> req[s][r].pc \in {"idle", "checked"}

\* Every variable has its type; the channel never holds more than its
\* capacity; a goroutine holds a copy exactly at the program points where the
\* code has one in hand.
TypeOK ==
  /\ StoreType
  /\ phase \in [Server -> Phase]
  /\ ChanType
  /\ WorkType
  /\ PollType
  /\ ReqType

\* A channel, worker or poller of a live process still answers for id.
InChan(s, id) == \E i \in 1 .. Len(chan[s]) : chan[s][i].id = id
InWork(s, id) == \E w \in Worker : work[s][w].pc \in Busy /\ work[s][w].n.id = id
InPoll(s, id) == \E j \in poll[s].jobs : j.id = id
Carried(id) == \E s \in Server : InChan(s, id) \/ InWork(s, id) \/ InPoll(s, id)

\* GetReadyJobs and Process mark a row PROCESSING and nothing ever looks for
\* such a row again, so somebody must hold a copy of it.  Whatever the
\* interleaving of handlers, workers and pollers, a PROCESSING row is carried
\* by a live process, unless a process ended, a shutdown cut the poller's loop
\* short, or a statement on that row failed.
ProcessingIsCarried ==
  \A id \in Id : rows[id].status = "PROCESSING" => Carried(id) \/ id \in dropped

\* Process writes SENT only from a copy its sender reported as accepted: a
\* row that reads SENT was delivered, whichever stale copies overwrote it.
SentWasDelivered ==
  \A id \in Id : rows[id].status = "SENT" => delivered[id] > 0

\* The two statements of the dead-letter branch are not one transaction.  A
\* row that Process moved to DLQ (the clean-up of a failed delegation, with
\* retry count 0, does not archive) is in dlq_notifications, or a worker is
\* about to put it there, or that INSERT failed or its process died.
DeadLettersArchived ==
  \A id \in Id :
    rows[id].status = "DLQ" /\ rows[id].retry > 0 =>
      \/ id \in dlq
      \/ \E s \in Server, w \in Worker :
           work[s][w].pc = "archive" /\ work[s][w].n.id = id
      \/ id \in dropped

\* RetryCount > MaxRetryCount is tested after the increment: a row that is
\* still to be tried has used at most MaxRetryCount retries, and a dead letter
\* exactly one more (or none, when the delegation failed).
RetryBudget ==
  \A id \in Id :
    /\ rows[id].status # "DLQ" => rows[id].retry <= MaxRetryCount
    /\ rows[id].status = "DLQ" => rows[id].retry \in {0, MaxRetryCount + 1}

\* How often one notification can be handed over for processing: once by
\* CreateNotification, or once by each callback that had read SCHEDULED
\* before the first of them wrote PENDING.
Triggers == IF "later" \in Modes THEN Cardinality(Server \X Request) ELSE 1

\* The places that hold a copy of id and will go on to enqueue or send it.
InFlight(id) ==
  UNION { {<<"chan", s, i>> : i \in {k \in 1 .. Len(chan[s]) : chan[s][k].id = id}}
          \cup {<<"work", s, w>> : w \in {v \in Worker :
                   work[s][v].pc \in Busy /\ work[s][v].n.id = id}}
          \cup {<<"poll", s, j>> : j \in {k \in poll[s].jobs : k.id = id}}
          \cup {<<"req", s, r>> : r \in {q \in Request :
                   req[s][q].pc \in {"push", "trypush"} /\ req[s][q].n.id = id}}
          : s \in Server }

\* Save (or the callback's Update) writes PENDING and due, and the same code
\* then enqueues a copy: the poller can claim the row a second time, so one
\* hand-over makes two copies.  It never makes more: copies do not multiply
\* through retries, claims of several replicas, crashes and restarts.
CopiesBound ==
  \A id \in Id :
    Cardinality(InFlight(id)) + (IF rows[id].status = "PENDING" THEN 1 ELSE 0)
      <= 2 * Triggers

\* Hence the provider receives a notification at most twice as often as the
\* retry policy of Process intends, also when its answers get lost.
DeliveryBound ==
  \A id \in Id : delivered[id] <= 2 * Triggers * (MaxRetryCount + 1)

\* A notification with execute_at is sent only after the Task Scheduler
\* accepted its task: neither the poller nor a failed delegation releases it.
DeliveredWasTriggered ==
  Modes = {"later"} => \A id \in Id : delivered[id] > 0 => id \in tasks

\* CreateNotification counts the rows and inserts later.  Every handler that
\* counted before the limit was reached may still insert, so the table can
\* exceed the threshold, but by less than the number of handlers in flight.
ThresholdSlack ==
  Cardinality(Stored) <= MaxTotal - 1 + Cardinality(Server \X Request)

\* In a process that neither stops nor crashes, on a database that works, an
\* accepted notification ends in SENT or DLQ and stays there, in spite of the
\* double enqueueing, of provider failures and of a channel that is full.
Settles ==
  \A id \in Id :
    rows[id].status \in {"PENDING", "PROCESSING"} ~>
      [](rows[id].status \in {"SENT", "DLQ"})

\* The table, the provider and dlq_notifications as the client sees them.
Contract == INSTANCE DeliveryContract WITH
  Limit <- 2 * Triggers * (MaxRetryCount + 1),
  known <- Stored,
  dead  <- dlq

\* Under any fault, a client sees nothing but steps of the contract: stale
\* whole-row writes never lose or add a row, what is delivered or archived was
\* stored, one id at a time, and no step delivers beyond the limit.
KeepsContract == Contract!Safety

\* With a process and a database that keep working the pipeline implements the
\* contract: what Create stored is delivered or archived, although rows are
\* overwritten by stale copies and copies are duplicated.
ImplementsContract == Contract!Spec

-----------------------------------------------------------------------------
(* Claims of the repository's text that the code does not keep             *)

\* README.md, section on SKIP LOCKED: claiming prevents "double-delivery".
\* Without any fault a notification is delivered at most once.
NoDoubleDelivery == \A id \in Id : delivered[id] <= 1
=============================================================================
