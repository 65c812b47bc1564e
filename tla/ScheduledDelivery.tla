-------------------------- MODULE ScheduledDelivery --------------------------
(***************************************************************************)
(* Delivery at a future time, across the two services: Create stores a     *)
(* SCHEDULED row and posts a task, the Task Scheduler executes the task by *)
(* a callback, and DispatchCallback releases the row to the workers.       *)
(*                                                                         *)
(* The module composes NotificationSystem, whose names it uses as they are,*)
(* with an instance T of TaskScheduler.  The two share tasks, the ids the  *)
(* scheduler has accepted, and meet in two HTTP exchanges: POST /tasks and *)
(* the callback.  conn tells which handler serves the callback of a worker.*)
(* Task ids are notification ids; Redis and rescheduling play no part.     *)
(***************************************************************************)
EXTENDS NotificationSystem

CONSTANTS
  TaskWorker,      \* worker goroutines of the Task Scheduler
  MaxRetries,      \* max_retries of a task, 3 in ScheduleNotification
  QueueCapacity,   \* capacity of taskChannel
  TaskFaults,      \* failures of the Task Scheduler's process
  CallbackHasKey,  \* does the callback carry SCHEDULER_API_KEY?  executeCallback
                   \* does not add it: FALSE for the two programs as they are
  SlowHandlers     \* may an answer take longer than the worker's 10 s timeout?

ASSUME DeliveryAssumption ==
  /\ TaskFaults \subseteq {"stop", "crash"}
  /\ MaxRetries \in Nat \ {0}
  /\ QueueCapacity \in Nat \ {0}
  /\ CallbackHasKey \in BOOLEAN
  /\ SlowHandlers \in BOOLEAN

VARIABLES
  table,      \* table tasks of the Task Scheduler
  archive,    \* ids in its table dlq_tasks
  scheduler,  \* life cycle of its process
  queue,      \* taskChannel
  tick,       \* tickLoop
  exec,       \* its workers
  calls,      \* history: callbacks posted since it started
  lost,       \* history: tasks lost with a process
  conn        \* the handler, <<replica, request>>, that serves the callback of
              \* each worker

T == INSTANCE TaskScheduler WITH
  Task     <- Id,         NoTask <- 0,
  Worker   <- TaskWorker, Client <- {},
  Cached   <- FALSE,      MaxMoves <- 0,
  Faults   <- TaskFaults,
  tasks    <- table,      phase  <- scheduler,
  chan     <- queue,      work   <- exec,
  accepted <- tasks,
  cache    <- [id \in Id |-> "NONE"],
  moves    <- [id \in Id |-> 0],
  http     <- <<>>

\* What the Task Scheduler alone changes; tasks is shared.
taskVars == <<table, archive, scheduler, queue, tick, exec, calls, lost>>
allVars == <<vars, taskVars, conn>>

Idle == <<>>       \* no callback is being served
Cut == <<"cut">>   \* the replica that served it is gone

DeliveryInit ==
  /\ Init
  /\ T!Init
  /\ conn = [w \in TaskWorker |-> Idle]

-----------------------------------------------------------------------------
(* The services by themselves                                              *)

Serves(s, r) == \E w \in TaskWorker : conn[w] = <<s, r>>

\* A client calls Create.
ClientCreates(s, r) == CreateCheck(s, r) /\ UNCHANGED <<taskVars, conn>>

\* A handler takes a step; one that serves a callback does not answer yet.
HandlerAlone(s, r) ==
  /\ HandlerStep(s, r)
  /\ Serves(s, r) => req'[s][r].pc # "idle"
  /\ UNCHANGED <<taskVars, conn>>

PoolAlone(s) ==
  /\ \/ \E w \in Worker : WorkerTake(s, w) \/ Process(s, w)
     \/ RetryScheduler(s)
  /\ UNCHANGED <<taskVars, conn>>

\* The life cycle of a replica; its connections end with its process.
ReplicaLifecycle(s) ==
  /\ Lifecycle(s) \/ \E w \in Worker : WorkerExit(s, w)
  /\ conn' = [w \in TaskWorker |->
                IF phase'[s] = "down" /\ conn[w] # Idle /\ conn[w][1] = s
                THEN Cut ELSE conn[w]]
  /\ UNCHANGED taskVars

\* Everything of the Task Scheduler but its handler and its callback.
TasksAlone ==
  /\ \/ T!TickLoop
     \/ \E w \in TaskWorker :
          T!WorkerStep(w) /\ exec[w].pc # "call"
     \/ \E id \in Id : T!TimePasses(id)
  /\ UNCHANGED <<vars, conn>>

SchedulerLifecycle ==
  /\ T!Lifecycle
  /\ conn' = IF scheduler' = "down" THEN [w \in TaskWorker |-> Idle] ELSE conn
  /\ UNCHANGED vars

ClockAlone == (\E id \in Id : BackoffElapses(id)) /\ UNCHANGED <<taskVars, conn>>

-----------------------------------------------------------------------------
(* POST /tasks                                                             *)

\* Mutant of PostTask: the scheduler answers before it has stored the task.
PostTaskUnsaved(id) ==
  /\ T!Serving
  /\ TaskStored(id)
  /\ UNCHANGED <<taskVars, conn>>

\* APIKeyAuth lets the request pass, ScheduleNotification having added the
\* key, and CreateTask stores the task.
PostTask(id) ==
  /\ TaskStored(id)
  /\ T!CreateTask(id)
  /\ UNCHANGED conn

\* The request is lost, there is no process to accept it, or APIKeyAuth has
\* another key and answers 401.
PostRefused(id) ==
  /\ TaskRefused(id)
  /\ UNCHANGED <<taskVars, conn>>

-----------------------------------------------------------------------------
(* The callback: executeCallback meets DispatchCallback                    *)

SetConn(w, c) == conn' = [conn EXCEPT ![w] = c]

\* The worker goes on with the outcome of its callback.
CallbackEnds(w, pc) ==
  /\ T!ExecuteCallback(w)
  /\ exec'[w].pc = pc
  /\ SetConn(w, Idle)

Calling(w) == exec[w].pc = "call" /\ conn[w] = Idle

\* A callback that passes the key check and finds its row SCHEDULED.
CallbackArrives(w) ==
  /\ Calling(w)
  /\ CallbackHasKey
  /\ \E s \in Server, r \in Request :
       DispatchRead(s, r, exec[w].id) /\ SetConn(w, <<s, r>>)
  /\ UNCHANGED taskVars

\* 401 without the key, 400 for a row that is not SCHEDULED, 404 when Get
\* fails, or no answer from a replica that is down or went down.
CallbackRefused(w) ==
  /\ \/ Calling(w) /\ ~CallbackHasKey
     \/ Calling(w) /\ rows[exec[w].id].status # "SCHEDULED"
     \/ Calling(w) /\ "db" \in Faults
     \/ Calling(w) /\ \E s \in Server : phase[s] = "down"
     \/ conn[w] = Cut
  /\ CallbackEnds(w, "fail")
  /\ UNCHANGED vars

\* Mutant of Answer: the worker takes every answer for a success.
AnswerAlwaysOk(w, s) == "done"

\* 2xx is what DispatchCallback answers when it has enqueued the copy.
Answer(w, s) == IF Len(chan'[s]) > Len(chan[s]) THEN "done" ELSE "fail"

\* The last step of the handler answers the worker.
CallbackAnswered(w) ==
  /\ \E s \in Server, r \in Request :
       /\ conn[w] = <<s, r>>
       /\ HandlerStep(s, r)
       /\ req'[s][r].pc = "idle"
       /\ T!ExecuteCallback(w)
       /\ exec'[w].pc = Answer(w, s)
  /\ SetConn(w, Idle)

\* Mutant of CallbackTimedOut: the client keeps the connection it gave up on.
CallbackTimedOutKeepsConn(w) ==
  /\ SlowHandlers
  /\ conn[w] \notin {Idle, Cut}
  /\ T!ExecuteCallback(w)
  /\ exec'[w].pc = "fail"
  /\ UNCHANGED <<vars, conn>>

\* client.Do gives up after 10 s; the handler, unaware of it, goes on.
CallbackTimedOut(w) ==
  /\ SlowHandlers
  /\ conn[w] \notin {Idle, Cut}
  /\ CallbackEnds(w, "fail")
  /\ UNCHANGED vars

-----------------------------------------------------------------------------
(* Specification                                                           *)

Post(id) == PostTask(id) \/ PostRefused(id)

Callback(w) ==
  \/ CallbackArrives(w) \/ CallbackRefused(w)
  \/ CallbackAnswered(w) \/ CallbackTimedOut(w)

DeliveryNext ==
  \/ \E s \in Server :
       \/ \E r \in Request : ClientCreates(s, r) \/ HandlerAlone(s, r)
       \/ PoolAlone(s)
       \/ ReplicaLifecycle(s)
  \/ TasksAlone
  \/ SchedulerLifecycle
  \/ ClockAlone
  \/ \E id \in Id : Post(id)
  \/ \E w \in TaskWorker : Callback(w)

DeliverySpec == DeliveryInit /\ [][DeliveryNext]_allVars

Step(A) == A /\ UNCHANGED <<taskVars, conn>>
TaskStep(A) == A /\ UNCHANGED <<vars, conn>>

\* The goroutines of both services, their clocks and the network make progress.
\* net/http gives every connection a goroutine of its own, so a callback is
\* not kept waiting for ever by the bound that Request puts on the handlers.
DeliveryFairness ==
  /\ \A s \in Server :
       /\ \A r \in Request : WF_allVars(HandlerAlone(s, r))
       /\ \A w \in Worker : WF_allVars(Step(WorkerTake(s, w) \/ Process(s, w)))
       /\ WF_allVars(Step(RetryScheduler(s)))
  /\ \A id \in Id :
       /\ WF_allVars(Step(BackoffElapses(id)))
       /\ WF_allVars(PostTask(id))
       /\ WF_allVars(TaskStep(T!TimePasses(id)))
  /\ WF_allVars(TaskStep(T!TickLoop))
  /\ \A w \in TaskWorker :
       /\ WF_allVars(TaskStep(T!WorkerStep(w) /\ exec[w].pc # "call"))
       /\ WF_allVars(CallbackRefused(w) \/ CallbackAnswered(w))
       /\ SF_allVars(CallbackArrives(w))

FairDelivery == DeliverySpec /\ DeliveryFairness

-----------------------------------------------------------------------------
(* Properties                                                              *)

\* The type invariants of both services; and a worker has a connection only
\* while it executes a callback, to a handler that serves this very callback.
DeliveryType ==
  /\ TypeOK
  /\ T!TypeOK
  /\ conn \in [TaskWorker -> {Idle, Cut} \cup (Server \X Request)]
  /\ \A w \in TaskWorker : conn[w] # Idle => exec[w].pc = "call"
  /\ \A w \in TaskWorker, s \in Server, r \in Request :
       conn[w] = <<s, r>> =>
         req[s][r].pc \in {"update", "trypush"} /\ req[s][r].n.id = exec[w].id

\* A Create handler has yet to post the task of id, to learn what became of its
\* post or to clean up after a failed one.
Delegating(id) ==
  \E s \in Server, r \in Request :
    req[s][r].pc \in {"delegate", "wait", "undo"} /\ req[s][r].n.id = id

\* DispatchCallback answers 2xx only after its Update: when the scheduler
\* records a task as COMPLETED its notification is not SCHEDULED any more,
\* although callbacks time out, posts arrive late and both services crash.
CompletedWasTriggered ==
  \A id \in Id : table[id].status = "COMPLETED" => rows[id].status # "SCHEDULED"

\* No query of the notification service looks for SCHEDULED rows, so such a row
\* must be in somebody's hands: of the Create handler that delegates it, of the
\* scheduler, which has still to execute its task, or of the operator, who finds
\* the task that FAILED in dlq_tasks.  Posts may be refused, lost or stored after
\* ScheduleNotification gave up, and callbacks be refused, answered 503 or time
\* out; it takes services and databases that keep running, and a scheduler that
\* does not read stale tasks from Redis.
ScheduledIsOwned ==
  \A id \in Id : rows[id].status = "SCHEDULED" =>
    \/ Delegating(id)
    \/ table[id].status \in {"PENDING", "QUEUED", "PROCESSING"}
    \/ table[id].status = "FAILED" /\ (id \in archive \/ T!Archiving(id))

\* What Create stored for later comes to an end, and not without a trace: it is
\* delivered, it is a dead letter, as it is after a failed delegation, or its
\* task is recorded in dlq_tasks.  Without the key the last is the end of all
\* that the scheduler has accepted, and the row stays SCHEDULED.
ScheduledEnds ==
  \A id \in Id :
    rows[id].status = "SCHEDULED" ~>
      [](rows[id].status \in {"SENT", "DLQ"} \/ id \in archive)

\* Together the services do nothing that either specification excludes, so
\* what is proved of NotificationSystem and of TaskScheduler holds here.
ImplementsServices == Spec /\ T!Spec

-----------------------------------------------------------------------------
(* Claims of the repository's text that the code does not keep             *)

\* README.md on the webhook callback: "When the target time is reached, the
\* Task Scheduler triggers POST .../dispatch with internal API Key
\* authorization, prompting the engine to execute immediate delivery".  A
\* stored task gets its notification out of SCHEDULED.
ScheduledIsTriggered ==
  \A id \in Id : table[id].status # "NONE" ~> rows[id].status # "SCHEDULED"
=============================================================================
