---------------------------- MODULE TaskScheduler ----------------------------
(***************************************************************************)
(* The Task Scheduler: one process of cmd/task-scheduler over a PostgreSQL *)
(* table and an optional Redis cache.  HTTP handlers create, read and      *)
(* reschedule tasks; tickLoop claims due tasks into a buffered channel;    *)
(* workers post the callbacks and record the outcome.                      *)
(*                                                                         *)
(* A database transaction, a Redis command, a channel operation and a      *)
(* callback are one atomic step each.  Time is abstracted to row.due, which*)
(* says execute_at <= now.  Of a cached task only the status is kept: it is*)
(* the only field the service itself reads back.                           *)
(***************************************************************************)
EXTENDS Naturals, Sequences, FiniteSets

CONSTANTS
  Task,           \* task ids
  NoTask,         \* "no task", not one of them
  Worker,         \* worker goroutines (WORKER_COUNT)
  Client,         \* HTTP handlers that can be in flight together
  MaxRetries,     \* max_retries of a task, 3 by default
  QueueCapacity,  \* capacity of taskChannel, 10 by default
  Cached,         \* TRUE when Redis is configured and reachable
  MaxMoves,       \* bound: how often the clients reschedule one task
  Faults          \* which failures the environment may inject

ASSUME SchedulerAssumption ==
  /\ IsFiniteSet(Task)
  /\ NoTask \notin Task
  /\ MaxRetries \in Nat \ {0}
  /\ QueueCapacity \in Nat \ {0}
  /\ Cached \in BOOLEAN
  /\ MaxMoves \in Nat
  /\ Faults \subseteq {"db", "redis", "stop", "crash"}

VARIABLES
  tasks,     \* table tasks
  archive,   \* ids in table dlq_tasks
  cache,     \* Redis: the status cached for each task
  phase,     \* life cycle of the process
  chan,      \* taskChannel
  tick,      \* tickLoop: the capacity it read and the tasks it claimed
  work,      \* the workers
  http,      \* handlers between two of their steps
  accepted,  \* history: ids answered 201
  calls,     \* history: callbacks posted since the process started
  moves,     \* history: reschedulings since the process started
  lost       \* history: ids of which a copy or a write was lost after the
             \* table was created

vars == <<tasks, archive, cache, phase, chan, tick, work, http,
          accepted, calls, moves, lost>>
history == <<accepted, calls, moves>>

-----------------------------------------------------------------------------
(* State                                                                   *)

TaskStatus == {"PENDING", "QUEUED", "PROCESSING", "COMPLETED", "FAILED"}

\* A row; "NONE" stands for an id that is not in the table or the cache.
Row == [status : TaskStatus \cup {"NONE"}, retry : Nat, due : BOOLEAN]
NoRow == [status |-> "NONE", retry |-> 0, due |-> FALSE]

\* "up": serving.  "stopping": the signal context is cancelled.  "closed":
\* Stop has closed taskChannel.  "down": no process.
Phase == {"up", "stopping", "closed", "down"}

\* Program counters: the step a goroutine takes next.  At "del" an Update has
\* committed and the cache entry is still to be deleted; "fill" is the write
\* back of Get.
WorkerPc == {"range", "start", "call", "done", "fail", "get", "fill",
             "archive", "del", "exited"}
TickPc == {"wait", "claim", "push", "exited"}
HttpPc == {"idle", "fill", "del"}

IdleTick == [pc |-> "wait", room |-> 0, jobs |-> {}]
IdleWorker == [pc |-> "range", id |-> NoTask, seen |-> "NONE", next |-> "range"]
IdleHttp == [pc |-> "idle", id |-> NoTask, seen |-> "NONE"]

Init ==
  /\ tasks = [t \in Task |-> NoRow]
  /\ archive = {}
  /\ cache = [t \in Task |-> "NONE"]
  /\ phase = "up"
  /\ chan = <<>>
  /\ tick = IdleTick
  /\ work = [w \in Worker |-> IdleWorker]
  /\ http = [c \in Client |-> IdleHttp]
  /\ accepted = {}
  /\ calls = [t \in Task |-> 0]
  /\ moves = [t \in Task |-> 0]
  /\ lost = {}

-----------------------------------------------------------------------------
(* The repository                                                          *)

\* Update: SELECT ... FOR UPDATE, the callback, UPDATE and COMMIT as one step.
\* It writes the CURRENT row back, changed in the fields the callback sets.
SetRow(t, row) == tasks' = [tasks EXCEPT ![t] = row]
SetStatus(t, status) == tasks' = [tasks EXCEPT ![t].status = status]

\* Redis DEL and SET; their errors are ignored.
CacheSet(t, status) ==
  \/ cache' = [cache EXCEPT ![t] = status]
  \/ "redis" \in Faults /\ UNCHANGED cache

\* A lookup misses: no entry, or an error, which Get treats alike.
CacheMiss(t) == cache[t] = "NONE" \/ "redis" \in Faults

\* Mutant of Due: execute_at is not compared.
PendingOnly(t) == tasks[t].status = "PENDING"

\* WHERE status = 'PENDING' AND execute_at <= now
Due(t) == tasks[t].status = "PENDING" /\ tasks[t].due

\* Mutant of Claimable: the LIMIT is one too high.
ClaimableOneMore(S, limit) ==
  LET ready == {t \in Task : Due(t)}
  IN  /\ S \subseteq ready
      /\ Cardinality(S) <= limit + 1
      /\ S # ready => Cardinality(S) = limit + 1

\* ORDER BY execute_at LIMIT: which of the due tasks come first is left open.
Claimable(S, limit) ==
  LET ready == {t \in Task : Due(t)}
  IN  /\ S \subseteq ready
      /\ Cardinality(S) <= limit
      /\ S # ready => Cardinality(S) = limit

\* Mutant of ClaimRows: the status stays PENDING.
ReadRowsOnly(S) == UNCHANGED tasks

\* SET status = 'QUEUED', for the claimed tasks.  The cache is not touched.
ClaimRows(S) ==
  tasks' = [t \in Task |-> IF t \in S THEN [tasks[t] EXCEPT !.status = "QUEUED"]
                                      ELSE tasks[t]]

\* RecoverTasks: QUEUED and PROCESSING back to PENDING.
Recovered ==
  [t \in Task |-> IF tasks[t].status \in {"QUEUED", "PROCESSING"}
                  THEN [tasks[t] EXCEPT !.status = "PENDING"]
                  ELSE tasks[t]]

-----------------------------------------------------------------------------
(* The HTTP handlers                                                       *)

Serving == phase # "down"
SetHttp(c, pc, t, seen) == http' = [http EXCEPT ![c] = [pc |-> pc, id |-> t, seen |-> seen]]
EndHttp(c) == http' = [http EXCEPT ![c] = IdleHttp]

\* CreateTask: one INSERT.  An error after the commit answers 500 instead of
\* 201.  An id that exists is answered by Get, like GetTask.
CreateTask(t) ==
  /\ Serving
  /\ tasks[t].status = "NONE"
  /\ \E due \in BOOLEAN : SetRow(t, [status |-> "PENDING", retry |-> 0, due |-> due])
  /\ \/ accepted' = accepted \cup {t}
     \/ "db" \in Faults /\ UNCHANGED accepted
  /\ UNCHANGED <<archive, cache, phase, chan, tick, work, http, calls, moves, lost>>

\* GetTask, cache miss: the row is read ...
GetTask(c, t) ==
  /\ Serving
  /\ Cached
  /\ http[c].pc = "idle"
  /\ CacheMiss(t)
  /\ tasks[t].status # "NONE"
  /\ SetHttp(c, "fill", t, tasks[t].status)
  /\ UNCHANGED <<tasks, archive, cache, phase, chan, tick, work, history, lost>>

\* ... and written to the cache, whatever happened to it since.
GetTaskFill(c) ==
  /\ http[c].pc = "fill"
  /\ CacheSet(http[c].id, http[c].seen)
  /\ EndHttp(c)
  /\ UNCHANGED <<tasks, archive, phase, chan, tick, work, history, lost>>

\* UpdateTask.  With execute_at the task starts over as PENDING, whatever it
\* was doing; without, only title and description change.  When the commit
\* reports an error the cache entry is not deleted.
UpdateTask(c, t) ==
  /\ Serving
  /\ http[c].pc = "idle"
  /\ tasks[t].status # "NONE"
  /\ \/ /\ moves[t] < MaxMoves
        /\ moves' = [moves EXCEPT ![t] = @ + 1]
        /\ \E due \in BOOLEAN :
             SetRow(t, [status |-> "PENDING", retry |-> 0, due |-> due])
     \/ UNCHANGED <<tasks, moves>>
  /\ \/ Cached /\ SetHttp(c, "del", t, "NONE")
     \/ (~Cached \/ "db" \in Faults) /\ UNCHANGED http
  /\ UNCHANGED <<archive, cache, phase, chan, tick, work, accepted, calls, lost>>

UpdateTaskDel(c) ==
  /\ http[c].pc = "del"
  /\ CacheSet(http[c].id, "NONE")
  /\ EndHttp(c)
  /\ UNCHANGED <<tasks, archive, phase, chan, tick, work, history, lost>>

\* The 10 minutes of cacheTTL are over.
CacheExpires(t) ==
  /\ cache[t] # "NONE"
  /\ cache' = [cache EXCEPT ![t] = "NONE"]
  /\ UNCHANGED <<tasks, archive, phase, chan, tick, work, http, history, lost>>

-----------------------------------------------------------------------------
(* tickLoop                                                                *)

SetTick(pc, room, jobs) == tick' = [pc |-> pc, room |-> room, jobs |-> jobs]

\* Mutant of TickRead: the last free slot of the channel is not used.
TickReadKeepsOne ==
  /\ Serving
  /\ tick.pc = "wait"
  /\ Len(chan) + 1 < QueueCapacity
  /\ SetTick("claim", QueueCapacity - Len(chan) - 1, {})
  /\ UNCHANGED <<tasks, archive, cache, phase, chan, work, http, history, lost>>

\* The back-pressure check: nothing is claimed into a full channel.
TickRead ==
  /\ Serving
  /\ tick.pc = "wait"
  /\ Len(chan) < QueueCapacity
  /\ SetTick("claim", QueueCapacity - Len(chan), {})
  /\ UNCHANGED <<tasks, archive, cache, phase, chan, work, http, history, lost>>

TickClaim ==
  /\ tick.pc = "claim"
  /\ \E S \in SUBSET Task :
       /\ Claimable(S, tick.room)
       /\ ClaimRows(S)
       /\ SetTick(IF S = {} THEN "wait" ELSE "push", 0, S)
  /\ UNCHANGED <<archive, cache, phase, chan, work, http, history, lost>>

\* The statement took effect but reading its result failed.
TickClaimLost ==
  /\ "db" \in Faults
  /\ tick.pc = "claim"
  /\ \E S \in SUBSET Task : Claimable(S, tick.room) /\ ClaimRows(S) /\ lost' = lost \cup S
  /\ SetTick("wait", 0, {})
  /\ UNCHANGED <<archive, cache, phase, chan, work, http, history>>

\* select with default: a task that finds the channel full is bypassed, and
\* stays QUEUED.
TickPush ==
  /\ tick.pc = "push"
  /\ phase # "closed"
  /\ \E t \in tick.jobs :
       /\ chan' = IF Len(chan) < QueueCapacity THEN Append(chan, t) ELSE chan
       /\ SetTick(IF tick.jobs = {t} THEN "wait" ELSE "push", 0, tick.jobs \ {t})
  /\ UNCHANGED <<tasks, archive, cache, phase, work, http, history, lost>>

TickExit ==
  /\ tick.pc = "wait"
  /\ phase \in {"stopping", "closed"}
  /\ SetTick("exited", 0, {})
  /\ UNCHANGED <<tasks, archive, cache, phase, chan, work, http, history, lost>>

-----------------------------------------------------------------------------
(* Worker, executeCallback and handleFailure                               *)

SetWork(w, pc, t, seen, next) ==
  work' = [work EXCEPT ![w] = [pc |-> pc, id |-> t, seen |-> seen, next |-> next]]

\* Mutant of EndWork: the worker keeps the task it has finished.
EndWorkKeepsTask(w) == work' = [work EXCEPT ![w] = [IdleWorker EXCEPT !.id = work[w].id]]

EndWork(w) == work' = [work EXCEPT ![w] = IdleWorker]

\* for t := range taskChannel
Take(w) ==
  /\ work[w].pc = "range"
  /\ chan # <<>>
  /\ chan' = Tail(chan)
  /\ SetWork(w, "start", Head(chan), "NONE", "range")
  /\ UNCHANGED <<tasks, archive, cache, phase, tick, http, history, lost>>

\* A closed channel is drained before the loop ends.
WorkerExit(w) ==
  /\ work[w].pc = "range"
  /\ chan = <<>>
  /\ phase = "closed"
  /\ work' = [work EXCEPT ![w] = [IdleWorker EXCEPT !.pc = "exited"]]
  /\ UNCHANGED <<tasks, archive, cache, phase, chan, tick, http, history, lost>>

\* After an Update that committed: delete the cache entry, then go on.
Committed(w, next) ==
  /\ IF Cached THEN SetWork(w, "del", work[w].id, "NONE", next)
     ELSE IF next = "range" THEN EndWork(w)
     ELSE SetWork(w, next, work[w].id, "NONE", "range")
  /\ UNCHANGED lost

\* An Update that returned an error, with or without effect on the row: the
\* worker logs it and drops the task.
UpdateFailed(w) ==
  /\ "db" \in Faults
  /\ lost' = lost \cup {work[w].id}
  /\ EndWork(w)

\* 1. Mark the task PROCESSING, without a look at its status.
Start(w) ==
  /\ work[w].pc = "start"
  /\ \/ SetStatus(work[w].id, "PROCESSING") /\ Committed(w, "call")
     \/ SetStatus(work[w].id, "PROCESSING") /\ UpdateFailed(w)
     \/ UNCHANGED tasks /\ UpdateFailed(w)
  /\ UNCHANGED <<archive, cache, phase, chan, tick, http, history>>

\* 2. Post the callback.  A timeout or a non-2xx answer is a failure, whether
\* or not the receiver acted on it.
ExecuteCallback(w) ==
  /\ work[w].pc = "call"
  /\ calls' = [calls EXCEPT ![work[w].id] = @ + 1]
  /\ \E pc \in {"done", "fail"} : SetWork(w, pc, work[w].id, "NONE", "range")
  /\ UNCHANGED <<tasks, archive, cache, phase, chan, tick, http, accepted, moves, lost>>

\* 3. Mark the task COMPLETED.
Complete(w) ==
  /\ work[w].pc = "done"
  /\ \/ SetStatus(work[w].id, "COMPLETED") /\ Committed(w, "range")
     \/ SetStatus(work[w].id, "COMPLETED") /\ UpdateFailed(w)
     \/ UNCHANGED tasks /\ UpdateFailed(w)
  /\ UNCHANGED <<archive, cache, phase, chan, tick, http, history>>

\* Mutant of Failed: the status is not set back to PENDING.
FailedKeepsStatus(row) == [row EXCEPT !.retry = @ + 1, !.due = FALSE]

\* Mutant of Failed: the retry is not counted.
FailedUncounted(row) == [status |-> "PENDING", retry |-> row.retry, due |-> FALSE]

\* handleFailure's change of the row: count the retry, then FAILED or PENDING
\* with a back-off.
Failed(row) ==
  IF row.retry + 1 > MaxRetries
  THEN [row EXCEPT !.status = "FAILED", !.retry = @ + 1]
  ELSE [status |-> "PENDING", retry |-> row.retry + 1, due |-> FALSE]

HandleFailure(w) ==
  /\ work[w].pc = "fail"
  /\ LET row == Failed(tasks[work[w].id])
     IN  \/ SetRow(work[w].id, row) /\ Committed(w, "get")
         \/ SetRow(work[w].id, row) /\ UpdateFailed(w)
         \/ UNCHANGED tasks /\ UpdateFailed(w)
  /\ UNCHANGED <<archive, cache, phase, chan, tick, http, history>>

WorkerDel(w) ==
  /\ work[w].pc = "del"
  /\ CacheSet(work[w].id, "NONE")
  /\ IF work[w].next = "range" THEN EndWork(w)
     ELSE SetWork(w, work[w].next, work[w].id, "NONE", "range")
  /\ UNCHANGED <<tasks, archive, phase, chan, tick, http, history, lost>>

\* The status that Get returned decides.
Inspect(w, seen) ==
  IF seen = "FAILED" THEN SetWork(w, "archive", work[w].id, seen, "range")
                     ELSE EndWork(w)

\* handleFailure fetches the task again: from the cache ...
FetchCached(w) ==
  /\ work[w].pc = "get"
  /\ Cached
  /\ cache[work[w].id] # "NONE"
  /\ Inspect(w, cache[work[w].id])
  /\ UNCHANGED <<tasks, archive, cache, phase, chan, tick, http, history, lost>>

\* ... or from the table, with the write back to come; or the query fails.
FetchRow(w) ==
  LET status == tasks[work[w].id].status
  IN  /\ work[w].pc = "get"
      /\ Cached => CacheMiss(work[w].id)
      /\ \/ /\ IF Cached THEN SetWork(w, "fill", work[w].id, status, "range")
                         ELSE Inspect(w, status)
            /\ UNCHANGED lost
         \/ UpdateFailed(w)
      /\ UNCHANGED <<tasks, archive, cache, phase, chan, tick, http, history>>

FetchFill(w) ==
  /\ work[w].pc = "fill"
  /\ CacheSet(work[w].id, work[w].seen)
  /\ Inspect(w, work[w].seen)
  /\ UNCHANGED <<tasks, archive, phase, chan, tick, http, history, lost>>

\* Mutant of Archive: the INSERT is forgotten.
ArchiveSkipped(w) ==
  /\ work[w].pc = "archive"
  /\ EndWork(w)
  /\ UNCHANGED <<tasks, archive, cache, phase, chan, tick, http, history, lost>>

\* DLQ Save: the entry id is the task id and the second; an entry that exists
\* already is a key conflict that is only logged.
Archive(w) ==
  /\ work[w].pc = "archive"
  /\ \/ archive' = archive \cup {work[w].id} /\ EndWork(w) /\ UNCHANGED lost
     \/ UNCHANGED archive /\ UpdateFailed(w)
  /\ UNCHANGED <<tasks, cache, phase, chan, tick, http, history>>

-----------------------------------------------------------------------------
(* Life cycle: cmd/task-scheduler/main.go, Start and Stop                  *)

\* Everything in memory is gone with the process; Redis is not.
StopProcess ==
  /\ phase' = "down"
  /\ lost' = lost \cup {chan[i] : i \in 1 .. Len(chan)} \cup tick.jobs
                  \cup {work[w].id : w \in {v \in Worker : work[v].id # NoTask}}
  /\ chan' = <<>>
  /\ tick' = IdleTick
  /\ work' = [w \in Worker |-> IdleWorker]
  /\ http' = [c \in Client |-> IdleHttp]
  /\ UNCHANGED <<tasks, archive, cache, history>>

Signal ==
  /\ "stop" \in Faults
  /\ phase = "up"
  /\ phase' = "stopping"
  /\ UNCHANGED <<tasks, archive, cache, chan, tick, work, http, history, lost>>

\* Stop closes the channel without waiting for tickLoop.
Stop ==
  /\ phase = "stopping"
  /\ phase' = "closed"
  /\ UNCHANGED <<tasks, archive, cache, chan, tick, work, http, history, lost>>

\* Wg.Wait and server.Shutdown returned.
Exit ==
  /\ phase = "closed"
  /\ \A w \in Worker : work[w].pc = "exited"
  /\ StopProcess

\* tickLoop sends on the closed channel.
Panic == phase = "closed" /\ tick.pc = "push" /\ StopProcess

Crash == "crash" \in Faults /\ Serving /\ StopProcess

\* main drops and recreates the table before Start recovers it; both
\* statements may fail, with a warning.
Restart ==
  /\ phase = "down"
  /\ phase' = "up"
  /\ \/ tasks' = [t \in Task |-> NoRow] /\ lost' = {}
     \/ "db" \in Faults /\ tasks' \in {Recovered, tasks} /\ UNCHANGED lost
  /\ calls' = [t \in Task |-> 0]
  /\ moves' = [t \in Task |-> 0]
  /\ UNCHANGED <<archive, cache, chan, tick, work, http, accepted>>

\* The clock passes execute_at.
TimePasses(t) ==
  /\ tasks[t].status # "NONE"
  /\ ~tasks[t].due
  /\ tasks' = [tasks EXCEPT ![t].due = TRUE]
  /\ UNCHANGED <<archive, cache, phase, chan, tick, work, http, history, lost>>

-----------------------------------------------------------------------------
(* Specification                                                           *)

Handler ==
  \/ \E t \in Task : CreateTask(t) \/ CacheExpires(t)
  \/ \E c \in Client : \/ \E t \in Task : GetTask(c, t) \/ UpdateTask(c, t)
                       \/ GetTaskFill(c) \/ UpdateTaskDel(c)

TickLoop == TickRead \/ TickClaim \/ TickClaimLost \/ TickPush \/ TickExit

WorkerStep(w) ==
  \/ Take(w) \/ WorkerExit(w) \/ Start(w) \/ ExecuteCallback(w) \/ Complete(w)
  \/ HandleFailure(w) \/ WorkerDel(w) \/ FetchCached(w) \/ FetchRow(w)
  \/ FetchFill(w) \/ Archive(w)

Lifecycle == Signal \/ Stop \/ Exit \/ Panic \/ Crash \/ Restart

Next ==
  \/ Handler
  \/ TickLoop
  \/ \E w \in Worker : WorkerStep(w)
  \/ Lifecycle
  \/ \E t \in Task : TimePasses(t)

Spec == Init /\ [][Next]_vars

Fairness ==
  /\ WF_vars(TickLoop)
  /\ \A w \in Worker : WF_vars(WorkerStep(w))
  /\ \A c \in Client : WF_vars(GetTaskFill(c) \/ UpdateTaskDel(c))
  /\ \A t \in Task : WF_vars(TimePasses(t))

FairSpec == Spec /\ Fairness

-----------------------------------------------------------------------------
(* Properties                                                              *)

StoreType ==
  /\ tasks \in [Task -> Row]
  /\ archive \subseteq Task
  /\ cache \in [Task -> TaskStatus \cup {"NONE"}]

ChanType == chan \in Seq(Task) /\ Len(chan) <= QueueCapacity

TickType ==
  /\ tick \in [pc : TickPc, room : 0 .. QueueCapacity, jobs : SUBSET Task]
  /\ tick.pc # "push" => tick.jobs = {}

WorkType ==
  /\ work \in [Worker -> [pc : WorkerPc, id : Task \cup {NoTask},
                          seen : TaskStatus \cup {"NONE"},
                          next : {"range", "call", "get"}]]
  /\ \A w \in Worker : work[w].id = NoTask <=> work[w].pc \in {"range", "exited"}

HttpType ==
  /\ http \in [Client -> [pc : HttpPc, id : Task \cup {NoTask},
                          seen : TaskStatus \cup {"NONE"}]]
  /\ \A c \in Client : http[c].id = NoTask <=> http[c].pc = "idle"

HistoryType ==
  /\ accepted \subseteq Task
  /\ calls \in [Task -> Nat]
  /\ moves \in [Task -> Nat]
  /\ lost \subseteq Task

\* Every variable has its type; the channel respects its capacity; a worker
\* or handler holds a task exactly at the program points where the code does.
TypeOK ==
  /\ StoreType
  /\ phase \in Phase
  /\ ChanType
  /\ TickType
  /\ WorkType
  /\ HttpType
  /\ HistoryType

\* tickLoop reads the free capacity, claims that many tasks and only then
\* sends them, while workers receive: there is still room for every task it
\* claimed, so the default branch that would bypass one is never taken.
ClaimedTasksFit ==
  tick.pc = "push" => Len(chan) + Cardinality(tick.jobs) <= QueueCapacity

\* The process is going to execute t.
InChan(t) == \E i \in 1 .. Len(chan) : chan[i] = t
InWork(t) ==
  \E w \in Worker :
    /\ work[w].id = t
    /\ \/ work[w].pc \in {"start", "call", "done", "fail"}
       \/ work[w].pc = "del" /\ work[w].next = "call"
Held(t) == InChan(t) \/ t \in tick.jobs \/ InWork(t)

\* Only a restart looks for QUEUED and PROCESSING tasks, so the running
\* process must hold every one of them, also when clients reschedule tasks
\* that are under way; unless a statement failed or the process ended.
QueuedIsHeld ==
  \A t \in Task : tasks[t].status \in {"QUEUED", "PROCESSING"} => Held(t) \/ t \in lost

\* A task gets MaxRetries + 1 callbacks, and as many again each time a client
\* reschedules it, although a rescheduled task may be executed by two workers.
CallbackBound ==
  \A t \in Task : calls[t] <= (moves[t] + 1) * (MaxRetries + 1)

\* A worker that is going to look at t and archive it if it reads FAILED.
Archiving(t) ==
  \E w \in Worker :
    /\ work[w].id = t
    /\ \/ work[w].pc \in {"get", "archive"}
       \/ work[w].pc = "fill" /\ work[w].seen = "FAILED"
       \/ work[w].pc = "del" /\ work[w].next = "get"

\* handleFailure writes FAILED and fetches the task again to find out whether
\* to archive it: every FAILED task is archived or about to be, unless a
\* statement failed or the process ended.  True of the scheduler without Redis
\* only: with it a GetTask that read the row before the write and fills the
\* cache after it makes handleFailure see the older status.
FailedIsArchived ==
  \A t \in Task :
    tasks[t].status = "FAILED" => t \in archive \/ Archiving(t) \/ t \in lost

\* From its dequeuing to its callback a task is in the worker's hands.
Executes(w) ==
  work[w].pc \in {"start", "call"} \/ (work[w].pc = "del" /\ work[w].next = "call")

\* Claiming with SKIP LOCKED is there to prevent duplicate execution: two
\* workers never execute one task at the same time.
ExclusiveExecution ==
  \A v, w \in Worker :
    v # w /\ Executes(v) /\ Executes(w) => work[v].id # work[w].id

\* A worker starts on a task only once its execute_at has passed.
NeverEarly ==
  [][\A w \in Worker : work[w].pc = "start" /\ work'[w].pc \in {"call", "del"} =>
       tasks[work[w].id].due]_vars

\* In a process that keeps running, on a database that works, every task ends
\* COMPLETED or FAILED, in spite of failing callbacks and a full channel.
Finishes ==
  \A t \in Task :
    tasks[t].status # "NONE" ~> [](tasks[t].status \in {"COMPLETED", "FAILED"})

-----------------------------------------------------------------------------
(* Claims of the repository's text that the code does not keep             *)

\* scheduler.go, Start: "Startup Recovery: Revert any tasks stuck in QUEUED
\* or PROCESSING back to PENDING".  A task that was accepted stays in the
\* table.
AcceptedIsStored == \A t \in accepted : tasks[t].status # "NONE"
=============================================================================
