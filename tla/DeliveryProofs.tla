---------------------------- MODULE DeliveryProofs ----------------------------
(***************************************************************************)
(* The composition of the two services, for any number of replicas, workers*)
(* and notifications and any set of faults: it implements the specification*)
(* of each service, so that what is proved of either holds of both together*)
(* and a task is COMPLETED only after its notification was released.  Both *)
(* keep their types; and, while both keep running, a SCHEDULED row is in   *)
(* the hands of one of them or recorded in dlq_tasks.                      *)
(***************************************************************************)
EXTENDS ScheduledDelivery, NotificationAdmissionProofs, SequenceTheorems

-----------------------------------------------------------------------------
(* The composition implements both services                                *)

\* No step of a handler, the pool, the life cycle or the clock of the
\* notification service touches what the Task Scheduler has accepted.
LEMMA TasksKept ==
  ASSUME NEW s \in Server,
         \/ \E r \in Request : CreateCheck(s, r) \/ HandlerStep(s, r)
         \/ \E r \in Request, id \in Id : DispatchRead(s, r, id)
         \/ \E w \in Worker : WorkerTake(s, w) \/ WorkerExit(s, w) \/ Process(s, w)
         \/ RetryScheduler(s)
         \/ Lifecycle(s)
  PROVE  UNCHANGED tasks
<1>1. ASSUME NEW r \in Request, CreateCheck(s, r) \/ HandlerStep(s, r) PROVE UNCHANGED tasks
  BY <1>1 DEF CreateCheck, HandlerStep, CreateReject, CreateSave, CreatePush, CreateAbandon,
              DelegatePost, DelegateOk, DelegateFail, DelegateUndo, DispatchUpdate, DispatchPush
<1>2. ASSUME NEW r \in Request, NEW id \in Id, DispatchRead(s, r, id) PROVE UNCHANGED tasks
  BY <1>2 DEF DispatchRead
<1>3. ASSUME NEW w \in Worker, WorkerTake(s, w) \/ WorkerExit(s, w) \/ Process(s, w)
      PROVE  UNCHANGED tasks
  BY <1>3 DEF WorkerTake, WorkerExit, Process, ProcessStart, ProcessSend, ProcessPanic,
              ProcessSent, ProcessRetry, ProcessDead, ProcessArchive
<1>4. CASE RetryScheduler(s)
  BY <1>4 DEF RetryScheduler, PollClaim, PollClaimLost, PollNext, PollPush, PollExit
<1>5. CASE Lifecycle(s)
  BY <1>5 DEF Lifecycle, Signal, BeginShutdown, CloseChannel, Exit, Crash, Restart, StopProcess
<1> QED BY <1>1, <1>2, <1>3, <1>4, <1>5

\* Every step of the composition is one of the notification service, or leaves
\* it alone.
LEMMA ServiceStep ==
  ASSUME TypeOK, [DeliveryNext]_allVars
  PROVE  [Next]_vars
<1>1. ASSUME NEW s \in Server, NEW r \in Request, ClientCreates(s, r) \/ HandlerAlone(s, r)
      PROVE  Next
  BY <1>1 DEF ClientCreates, HandlerAlone, HandlerStep, Handler, Next
<1>2. ASSUME NEW s \in Server, PoolAlone(s) \/ ReplicaLifecycle(s) PROVE Next
  BY <1>2 DEF PoolAlone, ReplicaLifecycle, Next
<1>3. CASE TasksAlone \/ SchedulerLifecycle
  BY <1>3 DEF TasksAlone, SchedulerLifecycle
<1>4. CASE ClockAlone
  BY <1>4 DEF ClockAlone, Environment, Next
<1>5. ASSUME NEW id \in Id, Post(id) PROVE Next
  BY <1>5 DEF Post, PostTask, PostRefused, Environment, Next
<1>6. ASSUME NEW w \in TaskWorker, CallbackArrives(w) PROVE [Next]_vars
  <2>1. PICK s \in Server, r \in Request : DispatchRead(s, r, exec[w].id)
    BY <1>6 DEF CallbackArrives
  <2>2. exec[w].id \in Id
    BY <2>1 DEF DispatchRead, TypeOK, StoreType
  <2> QED BY <2>1, <2>2 DEF Handler, Next
<1>7. ASSUME NEW w \in TaskWorker, CallbackAnswered(w) PROVE Next
  BY <1>7 DEF CallbackAnswered, HandlerStep, Handler, Next
<1>8. ASSUME NEW w \in TaskWorker, CallbackRefused(w) \/ CallbackTimedOut(w) PROVE UNCHANGED vars
  BY <1>8 DEF CallbackRefused, CallbackTimedOut
<1>9. CASE UNCHANGED allVars
  BY <1>9 DEF allVars
<1> QED BY <1>1, <1>2, <1>3, <1>4, <1>5, <1>6, <1>7, <1>8, <1>9 DEF DeliveryNext, Callback

\* Every step of the composition is one of the Task Scheduler, or leaves it
\* alone.
LEMMA SchedulerStep ==
  ASSUME TypeOK, [DeliveryNext]_allVars
  PROVE  T!Next \/ UNCHANGED T!vars
<1>0. UNCHANGED <<taskVars, tasks>> => UNCHANGED T!vars
  BY DEF taskVars, T!vars
<1>1. ASSUME NEW s \in Server, NEW r \in Request, ClientCreates(s, r) \/ HandlerAlone(s, r)
      PROVE  UNCHANGED T!vars
  BY <1>0, <1>1, TasksKept DEF ClientCreates, HandlerAlone
<1>2. ASSUME NEW s \in Server, PoolAlone(s) \/ ReplicaLifecycle(s) PROVE UNCHANGED T!vars
  BY <1>0, <1>2, TasksKept DEF PoolAlone, ReplicaLifecycle
<1>3. CASE TasksAlone \/ SchedulerLifecycle
  BY <1>3 DEF TasksAlone, SchedulerLifecycle, T!Next
<1>4. CASE ClockAlone
  BY <1>0, <1>4 DEF ClockAlone, BackoffElapses
<1>5. ASSUME NEW id \in Id, PostTask(id) PROVE T!Next
  BY <1>5 DEF PostTask, T!Handler, T!Next
<1>6. ASSUME NEW id \in Id, PostRefused(id) PROVE UNCHANGED T!vars
  BY <1>0, <1>6 DEF PostRefused, TaskRefused
<1>7. ASSUME NEW w \in TaskWorker, CallbackArrives(w) PROVE UNCHANGED T!vars
  BY <1>0, <1>7 DEF CallbackArrives, DispatchRead
<1>8. ASSUME NEW w \in TaskWorker,
             CallbackAnswered(w) \/ CallbackRefused(w) \/ CallbackTimedOut(w)
      PROVE  T!Next
  <2>1. T!ExecuteCallback(w)
    BY <1>8 DEF CallbackAnswered, CallbackRefused, CallbackTimedOut, CallbackEnds
  <2> QED BY <2>1 DEF T!WorkerStep, T!Next
<1>9. CASE UNCHANGED allVars
  BY <1>0, <1>9 DEF allVars, vars
<1> QED BY <1>1, <1>2, <1>3, <1>4, <1>5, <1>6, <1>7, <1>8, <1>9
  DEF DeliveryNext, Callback, Post

\* The composition keeps the types of the notification service.
LEMMA DeliveryTyped == DeliverySpec => []TypeOK
<1>1. DeliveryInit => TypeOK
  BY InitType DEF DeliveryInit
<1>2. TypeOK /\ [DeliveryNext]_allVars => TypeOK'
  BY ServiceStep, NextType
<1> QED BY <1>1, <1>2, PTL DEF DeliverySpec

\* ScheduleNotification, CreateTask, executeCallback and DispatchCallback put
\* together do nothing that either service would not do by itself.
THEOREM ServicesImplemented == DeliverySpec => ImplementsServices
<1>1. DeliveryInit => Init /\ T!Init
  BY DEF DeliveryInit
<1>2. TypeOK /\ [DeliveryNext]_allVars => [Next]_vars
  BY ServiceStep
<1>3. TypeOK /\ [DeliveryNext]_allVars => [T!Next]_(T!vars)
  BY SchedulerStep
<1> QED BY <1>1, <1>2, <1>3, DeliveryTyped, PTL DEF DeliverySpec, ImplementsServices, Spec, T!Spec

\* DispatchCallback, the workers and the poller: what is proved of the
\* notification service holds of the composition, here that a scheduled
\* notification is sent only after the scheduler has accepted its task.
COROLLARY TriggeredTogether == DeliverySpec => []DeliveredWasTriggered
<1>1. DeliverySpec => Spec
  BY ServicesImplemented DEF ImplementsServices
<1> QED BY <1>1, DeliveredTriggered, PTL

-----------------------------------------------------------------------------
(* What the Task Scheduler's variables hold                                *)

ExecType == [pc : T!WorkerPc, id : Id \cup {0}, seen : T!TaskStatus \cup {"NONE"},
             next : {"range", "call", "get"}]

\* The part of the scheduler's types that the callback depends on.
TaskShape ==
  /\ table \in [Id -> T!Row]
  /\ queue \in Seq(Id)
  /\ tick.jobs \in SUBSET Id
  /\ exec \in [TaskWorker -> ExecType]
  /\ \A w \in TaskWorker : exec[w].pc \notin {"range", "exited"} => exec[w].id \in Id

\* SetWork: one worker moves on, the others stay.
LEMMA ExecMoves ==
  ASSUME TaskShape, NEW w \in TaskWorker, NEW x \in ExecType,
         x.pc \notin {"range", "exited"} => x.id \in Id,
         exec' = [exec EXCEPT ![w] = x]
  PROVE  /\ exec' \in [TaskWorker -> ExecType]
         /\ \A v \in TaskWorker : exec'[v].pc \notin {"range", "exited"} => exec'[v].id \in Id
         /\ exec'[w] = x
         /\ \A v \in TaskWorker : v # w => exec'[v] = exec[v]
  BY DEF TaskShape

\* A worker is idle after EndWork.
LEMMA IdleWorkerType ==
  T!IdleWorker \in ExecType /\ T!IdleWorker.pc = "range"
  BY DEF T!IdleWorker, ExecType, T!WorkerPc, T!TaskStatus

\* What a worker does to the row of its task and to itself, apart from the
\* callback; "done" is reached by the callback only.
LEMMA WorkerShape ==
  ASSUME TaskShape, NEW w \in TaskWorker, T!WorkerStep(w), exec[w].pc # "call"
  PROVE  /\ TaskShape'
         /\ exec'[w].pc # "done"
         /\ \A v \in TaskWorker : v # w => exec'[v] = exec[v]
         /\ \A id \in Id : table'[id].status = "COMPLETED" =>
              table[id].status = "COMPLETED" \/ (exec[w].pc = "done" /\ exec[w].id = id)
<1> USE DEF TaskShape
<1>0. Id \subseteq Nat \ {0}
  BY ConstantsAssumption
<1>1. ASSUME T!EndWork(w)
      PROVE  /\ exec' \in [TaskWorker -> ExecType]
             /\ \A v \in TaskWorker : exec'[v].pc \notin {"range", "exited"} => exec'[v].id \in Id
             /\ exec'[w].pc # "done"
             /\ \A v \in TaskWorker : v # w => exec'[v] = exec[v]
  BY <1>1, IdleWorkerType, ExecMoves DEF T!EndWork
<1>2. ASSUME NEW pc \in T!WorkerPc \ {"done"}, NEW id \in Id,
             NEW seen \in T!TaskStatus \cup {"NONE"}, NEW next \in {"range", "call", "get"},
             T!SetWork(w, pc, id, seen, next)
      PROVE  /\ exec' \in [TaskWorker -> ExecType]
             /\ \A v \in TaskWorker : exec'[v].pc \notin {"range", "exited"} => exec'[v].id \in Id
             /\ exec'[w].pc # "done"
             /\ \A v \in TaskWorker : v # w => exec'[v] = exec[v]
  <2> DEFINE x == [pc |-> pc, id |-> id, seen |-> seen, next |-> next]
  <2>1. x \in ExecType /\ x.pc = pc /\ x.id = id
    BY DEF ExecType
  <2>2. exec' = [exec EXCEPT ![w] = x]
    BY <1>2 DEF T!SetWork
  <2> HIDE DEF x
  <2> QED BY <2>1, <2>2, ExecMoves
<1>3. CASE T!Take(w)
  <2>1. Head(queue) \in Id /\ Tail(queue) \in Seq(Id)
    BY <1>3 DEF T!Take
  <2> QED BY <1>2, <1>3, <2>1 DEF T!Take, T!WorkerPc
<1>4. CASE T!WorkerExit(w)
  <2>1. [T!IdleWorker EXCEPT !.pc = "exited"] \in ExecType
        /\ [T!IdleWorker EXCEPT !.pc = "exited"].pc = "exited"
    BY DEF T!IdleWorker, ExecType, T!WorkerPc, T!TaskStatus
  <2> QED BY <1>4, <2>1, ExecMoves DEF T!WorkerExit
<1>5. ASSUME exec[w].pc \notin {"range", "exited"}, NEW status \in T!TaskStatus, T!SetStatus(exec[w].id, status)
      PROVE  /\ table' \in [Id -> T!Row]
             /\ \A id \in Id : table'[id].status = "COMPLETED" =>
                  table[id].status = "COMPLETED" \/ (status = "COMPLETED" /\ exec[w].id = id)
  BY <1>5 DEF T!SetStatus, T!Row
<1>6. ASSUME NEW next \in {"range", "call", "get"}, exec[w].pc \notin {"range", "exited"},
             T!Committed(w, next) \/ T!UpdateFailed(w)
      PROVE  /\ exec' \in [TaskWorker -> ExecType]
             /\ \A v \in TaskWorker : exec'[v].pc \notin {"range", "exited"} => exec'[v].id \in Id
             /\ exec'[w].pc # "done"
             /\ \A v \in TaskWorker : v # w => exec'[v] = exec[v]
  <2>1. exec[w].id \in Id
    BY <1>6
  <2> QED BY <1>1, <1>2, <1>6, <2>1 DEF T!Committed, T!UpdateFailed, T!WorkerPc
<1>7. CASE T!Start(w)
  <2>1. exec[w].pc \notin {"range", "exited"}
    BY <1>7 DEF T!Start
  <2>2. UNCHANGED <<queue, tick>>
    BY <1>7 DEF T!Start
  <2>3. UNCHANGED table \/ T!SetStatus(exec[w].id, "PROCESSING")
    BY <1>7 DEF T!Start
  <2>4. T!Committed(w, "call") \/ T!UpdateFailed(w)
    BY <1>7 DEF T!Start
  <2>5. table' \in [Id -> T!Row] /\ \A id \in Id : table'[id].status = "COMPLETED" => table[id].status = "COMPLETED"
    BY <1>5, <2>1, <2>3 DEF T!TaskStatus
  <2> QED BY <1>6, <2>1, <2>2, <2>4, <2>5
<1>8. CASE T!Complete(w)
  <2>1. exec[w].pc = "done"
    BY <1>8 DEF T!Complete
  <2>2. UNCHANGED <<queue, tick>>
    BY <1>8 DEF T!Complete
  <2>3. UNCHANGED table \/ T!SetStatus(exec[w].id, "COMPLETED")
    BY <1>8 DEF T!Complete
  <2>4. T!Committed(w, "range") \/ T!UpdateFailed(w)
    BY <1>8 DEF T!Complete
  <2>5. table' \in [Id -> T!Row] /\ \A id \in Id : table'[id].status = "COMPLETED" =>
          table[id].status = "COMPLETED" \/ exec[w].id = id
    BY <1>5, <2>1, <2>3 DEF T!TaskStatus
  <2> QED BY <1>6, <2>1, <2>2, <2>4, <2>5
<1>9. CASE T!HandleFailure(w)
  <2>1. exec[w].pc \notin {"range", "exited"} /\ exec[w].id \in Id
    BY <1>9 DEF T!HandleFailure
  <2>2. UNCHANGED <<queue, tick>>
    BY <1>9 DEF T!HandleFailure
  <2>3. UNCHANGED table \/ T!SetRow(exec[w].id, T!Failed(table[exec[w].id]))
    BY <1>9 DEF T!HandleFailure
  <2>4. T!Committed(w, "get") \/ T!UpdateFailed(w)
    BY <1>9 DEF T!HandleFailure
  <2>5. T!Failed(table[exec[w].id]) \in T!Row /\ T!Failed(table[exec[w].id]).status # "COMPLETED"
    <3>1. PICK row \in T!Row : row = table[exec[w].id]
      BY <2>1
    <3>2. row.retry \in Nat /\ row.due \in BOOLEAN /\ row.retry + 1 \in Nat
      BY DEF T!Row
    <3>3. CASE row.retry + 1 > MaxRetries
      <4>1. T!Failed(row) = [row EXCEPT !.status = "FAILED", !.retry = row.retry + 1]
        BY <3>3 DEF T!Failed
      <4>2. ASSUME NEW k \in Nat
            PROVE  /\ [row EXCEPT !.status = "FAILED", !.retry = k] \in T!Row
                   /\ [row EXCEPT !.status = "FAILED", !.retry = k].status = "FAILED"
        BY DEF T!Row, T!TaskStatus
      <4> QED BY <3>1, <3>2, <4>1, <4>2 DEF T!Row, T!TaskStatus
    <3>4. CASE ~(row.retry + 1 > MaxRetries)
      BY <3>1, <3>2, <3>4 DEF T!Failed, T!Row, T!TaskStatus
    <3> QED BY <3>3, <3>4
  <2>6. table' \in [Id -> T!Row] /\ \A id \in Id : table'[id].status = "COMPLETED" => table[id].status = "COMPLETED"
    BY <2>1, <2>3, <2>5 DEF T!SetRow
  <2> QED BY <1>6, <2>1, <2>2, <2>4, <2>6
<1>10. ASSUME NEW seen \in T!TaskStatus \cup {"NONE"}, exec[w].pc \notin {"range", "exited"}, T!Inspect(w, seen)
       PROVE  /\ exec' \in [TaskWorker -> ExecType]
              /\ \A v \in TaskWorker : exec'[v].pc \notin {"range", "exited"} => exec'[v].id \in Id
              /\ exec'[w].pc # "done"
              /\ \A v \in TaskWorker : v # w => exec'[v] = exec[v]
  <2>1. exec[w].id \in Id
    BY <1>10
  <2> QED BY <1>1, <1>2, <1>10, <2>1 DEF T!Inspect, T!WorkerPc
<1>11. CASE T!WorkerDel(w)
  <2>1. exec[w].id \in Id /\ exec[w].next \in {"range", "call", "get"}
    BY <1>11 DEF T!WorkerDel, ExecType
  <2>2. UNCHANGED <<queue, tick, table>>
    BY <1>11 DEF T!WorkerDel
  <2>3. T!EndWork(w) \/ T!SetWork(w, exec[w].next, exec[w].id, "NONE", "range")
    BY <1>11 DEF T!WorkerDel
  <2> QED BY <1>1, <1>2, <2>1, <2>2, <2>3 DEF T!WorkerPc
<1>12. CASE T!FetchCached(w) \/ T!FetchRow(w)
  <2>1. exec[w].pc \notin {"range", "exited"} /\ exec[w].id \in Id
    BY <1>12 DEF T!FetchCached, T!FetchRow
  <2>2. UNCHANGED <<queue, tick, table>>
    BY <1>12 DEF T!FetchCached, T!FetchRow
  <2>3. table[exec[w].id].status \in T!TaskStatus \cup {"NONE"}
    BY <2>1 DEF T!Row
  <2>4. T!Inspect(w, table[exec[w].id].status) \/ T!UpdateFailed(w)
    BY <1>12, <2>1 DEF T!FetchCached, T!FetchRow
  <2> QED BY <1>6, <1>10, <2>1, <2>2, <2>3, <2>4
<1>13. CASE T!FetchFill(w)
  <2>1. exec[w].pc \notin {"range", "exited"} /\ exec[w].seen \in T!TaskStatus \cup {"NONE"}
    BY <1>13 DEF T!FetchFill, ExecType
  <2> QED BY <1>10, <1>13, <2>1 DEF T!FetchFill
<1>14. CASE T!Archive(w)
  <2>1. T!EndWork(w) /\ UNCHANGED <<queue, tick, table>>
    BY <1>14 DEF T!Archive, T!UpdateFailed
  <2> QED BY <1>1, <2>1
<1>15. ~T!ExecuteCallback(w)
  BY DEF T!ExecuteCallback
<1> QED BY <1>3, <1>4, <1>7, <1>8, <1>9, <1>11, <1>12, <1>13, <1>14, <1>15 DEF T!WorkerStep

\* The tickLoop, the handler of POST /tasks and the clock leave the workers
\* alone and complete nothing.
LEMMA TickShape ==
  ASSUME TaskShape, T!TickLoop \/ \E id \in Id : T!TimePasses(id) \/ T!CreateTask(id)
  PROVE  /\ TaskShape'
         /\ UNCHANGED exec
         /\ \A id \in Id : table'[id].status = "COMPLETED" => table[id].status = "COMPLETED"
<1> USE DEF TaskShape
<1>1. ASSUME NEW pc, NEW room, NEW jobs \in SUBSET Id, T!SetTick(pc, room, jobs)
      PROVE  tick'.jobs \in SUBSET Id
  BY <1>1 DEF T!SetTick
<1>2. ASSUME NEW S \in SUBSET Id, T!ClaimRows(S)
      PROVE  /\ table' \in [Id -> T!Row]
             /\ \A id \in Id : table'[id].status = "COMPLETED" => table[id].status = "COMPLETED"
  BY <1>2 DEF T!ClaimRows, T!Row, T!TaskStatus
<1>3. CASE T!TickRead \/ T!TickExit
  BY <1>1, <1>3 DEF T!TickRead, T!TickExit
<1>4. CASE T!TickClaim \/ T!TickClaimLost
  BY <1>1, <1>2, <1>4 DEF T!TickClaim, T!TickClaimLost
<1>5. CASE T!TickPush
  <2>1. PICK t \in tick.jobs :
          /\ queue' = IF Len(queue) < QueueCapacity THEN Append(queue, t) ELSE queue
          /\ T!SetTick(IF tick.jobs = {t} THEN "wait" ELSE "push", 0, tick.jobs \ {t})
    BY <1>5 DEF T!TickPush
  <2>2. t \in Id /\ tick.jobs \ {t} \in SUBSET Id
    OBVIOUS
  <2>3. queue' \in Seq(Id)
    BY <2>1, <2>2
  <2>4. tick'.jobs \in SUBSET Id
    BY <1>1, <2>1, <2>2
  <2> QED BY <1>5, <2>3, <2>4 DEF T!TickPush
<1>6. ASSUME NEW id \in Id, T!TimePasses(id)
      PROVE  /\ TaskShape'
             /\ UNCHANGED exec
             /\ \A x \in Id : table'[x].status = "COMPLETED" => table[x].status = "COMPLETED"
  BY <1>6 DEF T!TimePasses, T!Row
<1>7. ASSUME NEW id \in Id, T!CreateTask(id)
      PROVE  /\ TaskShape'
             /\ UNCHANGED exec
             /\ \A x \in Id : table'[x].status = "COMPLETED" => table[x].status = "COMPLETED"
  <2>1. PICK row \in T!Row : row.status = "PENDING" /\ T!SetRow(id, row)
    BY <1>7 DEF T!CreateTask, T!Row, T!TaskStatus
  <2> QED BY <1>7, <2>1 DEF T!CreateTask, T!SetRow
<1> QED BY <1>3, <1>4, <1>5, <1>6, <1>7 DEF T!TickLoop

\* The process of the Task Scheduler ends, with all its workers, or leaves
\* them alone; a restart empties the table.
LEMMA LifecycleShape ==
  ASSUME TaskShape, T!Lifecycle
  PROVE  /\ TaskShape'
         /\ \/ UNCHANGED exec /\ scheduler' # "down"
            \/ scheduler' = "down" /\ \A w \in TaskWorker : exec'[w].pc = "range"
         /\ \A id \in Id : table'[id].status = "COMPLETED" => table[id].status = "COMPLETED"
<1> USE DEF TaskShape
<1>1. CASE T!Signal \/ T!Stop
  BY <1>1 DEF T!Signal, T!Stop
<1>2. CASE T!StopProcess
  BY <1>2, IdleWorkerType DEF T!StopProcess, T!IdleTick
<1>3. CASE T!Restart
  <2>1. table' = [id \in Id |-> T!NoRow]
    BY <1>3, DeliveryAssumption DEF T!Restart
  <2>2. T!NoRow \in T!Row /\ T!NoRow.status = "NONE"
    BY DEF T!NoRow, T!Row
  <2> QED BY <1>3, <2>1, <2>2 DEF T!Restart
<1> QED BY <1>1, <1>2, <1>3 DEF T!Lifecycle, T!Exit, T!Panic, T!Crash

\* executeCallback reports success or failure and writes nothing.
LEMMA CallbackShape ==
  ASSUME TaskShape, NEW w \in TaskWorker, T!ExecuteCallback(w)
  PROVE  /\ TaskShape' /\ UNCHANGED table
         /\ exec'[w].id = exec[w].id
         /\ \A v \in TaskWorker : v # w => exec'[v] = exec[v]
<1>1. exec[w].id \in Id
  BY DEF TaskShape, T!ExecuteCallback
<1>2. PICK pc \in {"done", "fail"} : T!SetWork(w, pc, exec[w].id, "NONE", "range")
  BY DEF T!ExecuteCallback
<1> DEFINE x(id) == [pc |-> pc, id |-> id, seen |-> "NONE", next |-> "range"]
<1>3. \A id \in Id : x(id) \in ExecType /\ x(id).id = id
  BY DEF ExecType, T!WorkerPc
<1>4. exec' = [exec EXCEPT ![w] = x(exec[w].id)]
  BY <1>2 DEF T!SetWork
<1> HIDE DEF x
<1>5. /\ exec' \in [TaskWorker -> ExecType]
      /\ \A v \in TaskWorker : exec'[v].pc \notin {"range", "exited"} => exec'[v].id \in Id
      /\ exec'[w] = x(exec[w].id)
      /\ \A v \in TaskWorker : v # w => exec'[v] = exec[v]
  BY <1>1, <1>3, <1>4, ExecMoves
<1> QED BY <1>1, <1>3, <1>5 DEF TaskShape, T!ExecuteCallback

-----------------------------------------------------------------------------
(* A handler that serves a callback                                        *)

Released(id) == rows[id].status \notin {"NONE", "SCHEDULED"}

\* Whoever writes the row of a notification, it never becomes SCHEDULED again.
LEMMA ReleasedStable ==
  ASSUME TypeOK, [Next]_vars, NEW id \in Id, Released(id)
  PROVE  Released(id)'
<1>1. CASE rows'[id].status = rows[id].status
  BY <1>1 DEF Released
<1>2. CASE rows'[id].status # rows[id].status
  <2>1. Next
    BY <1>2 DEF vars
  <2> QED BY <1>2, <2>1, RowFlow DEF Released
<1> QED BY <1>1, <1>2

\* A handler changes its own request only.
LEMMA OtherRequests ==
  ASSUME TypeOK, NEW s \in Server, NEW r \in Request, Handler(s, r),
         NEW t \in Server, NEW q \in Request, <<t, q>> # <<s, r>>
  PROVE  req'[t][q] = req[t][q]
<1>0. ReqType
  BY DEF TypeOK
<1>1. EndReq(s, r) => req'[t][q] = req[t][q]
  BY <1>0, EndReqEffect
<1>2. (\E pc, mode, n : SetReq(s, r, pc, mode, n)) => req'[t][q] = req[t][q]
  BY <1>0 DEF SetReq, ReqType
<1>3. EndReq(s, r) \/ \E pc, mode, n : SetReq(s, r, pc, mode, n)
  BY DEF Handler, CreateCheck, CreateReject, CreateSave, CreatePush, CreateAbandon,
     DelegatePost, DelegateOk, DelegateFail, DelegateUndo, DispatchRead, DispatchUpdate, DispatchPush
<1> QED BY <1>1, <1>2, <1>3

\* DispatchCallback goes from its Update, which releases the row, to its send,
\* or answers; before the send it has enqueued nothing.
LEMMA DispatchFlow ==
  ASSUME TypeOK, NEW s \in Server, NEW r \in Request, HandlerStep(s, r)
  PROVE  /\ req[s][r].pc \in {"update", "trypush"} =>
              \/ /\ req'[s][r].pc = "trypush" /\ req'[s][r].n = req[s][r].n
                 /\ Released(req[s][r].n.id)'
              \/ req'[s][r].pc = "idle" /\ (req[s][r].pc = "update" => UNCHANGED chan)
         /\ req[s][r].pc \notin {"update", "trypush"} => req'[s][r].pc \notin {"update", "trypush"}
<1>0. ReqType /\ StoreType
  BY DEF TypeOK
<1>1. CASE DispatchUpdate(s, r)
  <2>1. PICK n \in Copy : n = req[s][r].n
    BY <1>1, HoldsCopy DEF DispatchUpdate
  <2>2. CASE WriteRow(n, "PENDING", TRUE) /\ SetReq(s, r, "trypush", "later", n)
    <3>1. req'[s][r].pc = "trypush" /\ req'[s][r].n = n
      BY <1>0, <2>2, NoCopyIsNoCopy, SetReqEffect DEF ReqPc
    <3>2. rows'[n.id].status = "PENDING"
      BY <1>0, <2>2, WriteRowEffect DEF Status
    <3> QED BY <1>1, <2>1, <3>1, <3>2 DEF Released, DispatchUpdate
  <2>3. CASE EndReq(s, r) /\ UNCHANGED chan
    BY <1>0, <1>1, <2>3, EndReqEffect DEF DispatchUpdate
  <2> QED BY <1>1, <2>1, <2>2, <2>3 DEF DispatchUpdate
<1>2. CASE DispatchPush(s, r)
  BY <1>0, <1>2, EndReqEffect DEF DispatchPush
<1>3. CASE ~DispatchUpdate(s, r) /\ ~DispatchPush(s, r)
  <2>1. req[s][r].pc \notin {"update", "trypush"}
    BY <1>3 DEF HandlerStep, CreateReject, CreateSave, CreatePush, CreateAbandon,
       DelegatePost, DelegateOk, DelegateFail, DelegateUndo
  <2>2. CASE EndReq(s, r)
    BY <1>0, <2>1, <2>2, EndReqEffect
  <2>3. CASE CreateSave(s, r)
    BY <2>1, <2>3, CreateSaveEffect
  <2>4. CASE DelegatePost(s, r) \/ DelegateFail(s, r)
    <3>1. PICK n \in Copy : n = req[s][r].n
      BY <2>4, HoldsCopy DEF DelegatePost, DelegateFail
    <3>2. PICK pc \in {"wait", "undo"} : SetReq(s, r, pc, req[s][r].mode, n)
      BY <2>4, <3>1 DEF DelegatePost, DelegateFail
    <3>3. req[s][r].mode \in {"now", "later"}
      BY <1>0 DEF ReqType
    <3>4. req'[s][r].pc = pc
      BY <1>0, <3>2, <3>3, NoCopyIsNoCopy, SetReqEffect DEF ReqPc
    <3> QED BY <2>1, <3>4
  <2> QED BY <1>3, <2>2, <2>3, <2>4 DEF HandlerStep, CreateReject, CreatePush, CreateAbandon,
     DelegateOk, DelegateUndo
<1> QED BY <1>1, <1>2, <1>3

-----------------------------------------------------------------------------
(* A task is COMPLETED only after its notification was released            *)

\* A handler sends only after its Update.
SendsReleased ==
  \A s \in Server, r \in Request : req[s][r].pc = "trypush" => Released(req[s][r].n.id)

\* A worker that waits for an answer, and the handler that will give it.
Connected ==
  /\ conn \in [TaskWorker -> {Idle, Cut} \cup (Server \X Request)]
  /\ \A w \in TaskWorker : conn[w] # Idle => exec[w].pc = "call"
  /\ \A w \in TaskWorker, s \in Server, r \in Request :
       conn[w] = <<s, r>> =>
         req[s][r].pc \in {"update", "trypush"} /\ req[s][r].n.id = exec[w].id
  /\ \A v, w \in TaskWorker, s \in Server, r \in Request :
       conn[v] = <<s, r>> /\ conn[w] = <<s, r>> => v = w

\* What a worker takes for done, and what the table says is done, is released.
DoneReleased ==
  /\ \A w \in TaskWorker : exec[w].pc = "done" => Released(exec[w].id)
  /\ \A id \in Id : table[id].status = "COMPLETED" => Released(id)

\* The inductive strengthening of CompletedWasTriggered.
CallbackInv == TaskShape /\ SendsReleased /\ Connected /\ DoneReleased

\* The values of conn are told apart.
LEMMA ConnDistinct ==
  ASSUME NEW s, NEW r
  PROVE  <<s, r>> # Idle /\ <<s, r>> # Cut /\ Idle # Cut
<1>1. Len(<<s, r>>) = 2 /\ Len(Idle) = 0 /\ Len(Cut) = 1
  BY DEF Idle, Cut
<1> QED BY <1>1

\* A request changes by a step of its handler, or with its process.
LEMMA ReqStep ==
  ASSUME TypeOK, Next, NEW s \in Server, NEW r \in Request, req'[s][r] # req[s][r]
  PROVE  Handler(s, r) \/ Exit(s) \/ Crash(s)
<1>1. ASSUME NEW t \in Server, NEW q \in Request, Handler(t, q) PROVE Handler(s, r)
  BY <1>1, OtherRequests
<1>2. ASSUME NEW t \in Server, NEW w \in Worker, WorkerTake(t, w) \/ WorkerExit(t, w) \/ Process(t, w)
      PROVE  UNCHANGED req
  BY <1>2 DEF WorkerTake, WorkerExit, Process, ProcessPanic, ProcessStart, ProcessSend, ProcessSent,
     ProcessRetry, ProcessDead, ProcessArchive
<1>3. ASSUME NEW t \in Server, RetryScheduler(t) PROVE UNCHANGED req
  BY <1>3 DEF RetryScheduler, PollClaim, PollClaimLost, PollNext, PollPush, PollExit
<1>4. ASSUME NEW t \in Server, Lifecycle(t) PROVE Exit(s) \/ Crash(s)
  <2>1. CASE Exit(t) \/ Crash(t)
    <3>1. t # s => req'[s] = req[s]
      BY <2>1 DEF Exit, Crash, StopProcess, TypeOK, ReqType
    <3> QED BY <2>1, <3>1
  <2> QED BY <1>4, <2>1 DEF Lifecycle, Signal, BeginShutdown, CloseChannel, Restart
<1>5. ASSUME NEW x \in Id, Environment(x) PROVE UNCHANGED req
  BY <1>5 DEF Environment, BackoffElapses, TaskStored, TaskRefused
<1> QED BY <1>1, <1>2, <1>3, <1>4, <1>5 DEF Next

\* Whatever the step, the handlers that were about to send hold a released row.
LEMMA SendsStep ==
  ASSUME TypeOK, SendsReleased, [Next]_vars
  PROVE  SendsReleased'
<1> SUFFICES ASSUME NEW s \in Server, NEW r \in Request, req'[s][r].pc = "trypush"
             PROVE  rows'[req'[s][r].n.id].status \notin {"NONE", "SCHEDULED"}
  BY DEF SendsReleased, Released
<1>1. CASE req'[s][r] = req[s][r]
  <2>1. req[s][r].n \in Copy
    BY <1>1, HoldsCopy
  <2>2. PICK id \in Id : id = req[s][r].n.id
    BY <2>1 DEF Copy
  <2>3. Released(id)
    BY <1>1, <2>2 DEF SendsReleased
  <2>4. Released(id)'
    BY <2>3, ReleasedStable
  <2> QED BY <1>1, <2>2, <2>4 DEF Released
<1>2. CASE req'[s][r] # req[s][r]
  <2>1. Next
    BY <1>2 DEF vars
  <2>2. /\ req[s][r].pc = "update"
        /\ ~CreateCheck(s, r) /\ \A id \in Id : ~DispatchRead(s, r, id)
    <3>1. /\ <<req[s][r].pc, req'[s][r].pc>> \in {<<"delegate", "wait">>, <<"wait", "undo">>, <<"update", "trypush">>}
          /\ req'[s][r].n = req[s][r].n
      <4>1. ~CreateSave(s, r)
        BY CreateSaveEffect
      <4> QED BY <1>2, <2>1, <4>1, ReqFlow
    <3>2. req[s][r].pc = "update"
      BY <3>1
    <3> QED BY <3>2 DEF CreateCheck, DispatchRead
  <2>3. HandlerStep(s, r)
    <3>1. ~Exit(s) /\ ~Crash(s)
      BY <1>2, StopProcessEffect DEF Exit, Crash
    <3>2. Handler(s, r)
      BY <1>2, <2>1, <3>1, ReqStep
    <3> QED BY <2>2, <3>2 DEF Handler, HandlerStep
  <2> QED BY <2>2, <2>3, DispatchFlow DEF Released
<1> QED BY <1>1, <1>2

\* A step that keeps the connections, the workers that wait and the requests
\* of their handlers keeps Connected.
LEMMA ConnectedFrame ==
  ASSUME Connected, UNCHANGED conn,
         \A w \in TaskWorker : conn[w] # Idle => exec'[w] = exec[w],
         \A s \in Server, r \in Request : Serves(s, r) =>
           req'[s][r].pc \in {"update", "trypush"} /\ req'[s][r].n = req[s][r].n
  PROVE  Connected'
<1>1. ASSUME NEW w \in TaskWorker, conn[w] # Idle PROVE exec'[w].pc = "call"
  BY <1>1 DEF Connected
<1>2. ASSUME NEW w \in TaskWorker, NEW s \in Server, NEW r \in Request, conn[w] = <<s, r>>
      PROVE  req'[s][r].pc \in {"update", "trypush"} /\ req'[s][r].n.id = exec'[w].id
  <2>1. Serves(s, r) /\ conn[w] # Idle
    BY <1>2, ConnDistinct DEF Serves
  <2>2. exec'[w] = exec[w] /\ req'[s][r].pc \in {"update", "trypush"} /\ req'[s][r].n = req[s][r].n
    BY <2>1
  <2>3. req[s][r].n.id = exec[w].id
    BY <1>2 DEF Connected
  <2> QED BY <2>2, <2>3
<1> QED BY <1>1, <1>2 DEF Connected

\* A worker without a callback under way may go on, and one whose callback
\* ended may be disconnected.
LEMMA ConnectedEnds ==
  ASSUME Connected, NEW w \in TaskWorker, SetConn(w, Idle),
         \A v \in TaskWorker : v # w => exec'[v] = exec[v],
         \A v \in TaskWorker, s \in Server, r \in Request :
           v # w /\ conn[v] = <<s, r>> => req'[s][r] = req[s][r]
  PROVE  Connected'
<1>1. /\ conn' \in [TaskWorker -> {Idle, Cut} \cup (Server \X Request)]
      /\ conn'[w] = Idle /\ \A v \in TaskWorker : v # w => conn'[v] = conn[v]
  BY DEF Connected, SetConn
<1>2. ASSUME NEW v \in TaskWorker, conn'[v] # Idle PROVE exec'[v].pc = "call" /\ v # w
  BY <1>1, <1>2 DEF Connected
<1>3. ASSUME NEW v \in TaskWorker, NEW s \in Server, NEW r \in Request, conn'[v] = <<s, r>>
      PROVE  /\ v # w /\ conn[v] = <<s, r>>
             /\ req'[s][r].pc \in {"update", "trypush"} /\ req'[s][r].n.id = exec'[v].id
  <2>1. v # w
    BY <1>1, <1>3, ConnDistinct
  <2> QED BY <1>1, <1>3, <2>1 DEF Connected
<1> QED BY <1>1, <1>2, <1>3 DEF Connected

\* Released rows stay released, so only what is new is to be shown.
LEMMA DoneFrame ==
  ASSUME TypeOK, [Next]_vars, TaskShape, DoneReleased,
         \A w \in TaskWorker : exec'[w].pc = "done" =>
           exec'[w] = exec[w] \/ (exec'[w].id = exec[w].id /\ exec[w].id \in Id /\ Released(exec[w].id)),
         \A id \in Id : table'[id].status = "COMPLETED" => table[id].status = "COMPLETED" \/ Released(id)
  PROVE  DoneReleased'
<1>0. \A id \in Id : Released(id) => rows'[id].status \notin {"NONE", "SCHEDULED"}
  BY ReleasedStable DEF Released
<1>1. ASSUME NEW w \in TaskWorker, exec'[w].pc = "done"
      PROVE  rows'[exec'[w].id].status \notin {"NONE", "SCHEDULED"}
  <2>1. CASE exec'[w] = exec[w]
    BY <1>0, <1>1, <2>1 DEF DoneReleased, TaskShape
  <2>2. CASE exec'[w].id = exec[w].id /\ exec[w].id \in Id /\ Released(exec[w].id)
    BY <1>0, <2>2
  <2> QED BY <1>1, <2>1, <2>2
<1>2. ASSUME NEW id \in Id, table'[id].status = "COMPLETED"
      PROVE  rows'[id].status \notin {"NONE", "SCHEDULED"}
  BY <1>0, <1>2 DEF DoneReleased
<1> QED BY <1>1, <1>2 DEF DoneReleased, Released

\* Every step of the composition keeps the callbacks consistent.
LEMMA CallbackStep ==
  ASSUME TypeOK, CallbackInv, [DeliveryNext]_allVars
  PROVE  CallbackInv'
<1>0. TaskShape /\ SendsReleased /\ Connected /\ DoneReleased
  BY DEF CallbackInv
<1>00. [Next]_vars
  BY ServiceStep
<1>01. SendsReleased'
  BY <1>0, <1>00, SendsStep
<1>02. ASSUME UNCHANGED taskVars
       PROVE  TaskShape' /\ DoneReleased'
  <2>1. UNCHANGED <<table, queue, tick, exec>>
    BY <1>02 DEF taskVars
  <2>2. TaskShape'
    BY <1>0, <2>1 DEF TaskShape
  <2>3. DoneReleased'
    BY <1>0, <1>00, <2>1, DoneFrame
  <2> QED BY <2>2, <2>3
<1>03. ASSUME UNCHANGED <<taskVars, conn>>,
              \A s \in Server, r \in Request : Serves(s, r) =>
                req'[s][r].pc \in {"update", "trypush"} /\ req'[s][r].n = req[s][r].n
       PROVE  CallbackInv'
  <2>1. UNCHANGED exec
    BY <1>03 DEF taskVars
  <2>2. Connected'
    BY <1>0, <1>03, <2>1, ConnectedFrame
  <2> QED BY <1>01, <1>02, <1>03, <2>2 DEF CallbackInv
<1>04. ASSUME NEW s \in Server, NEW r \in Request, Serves(s, r)
       PROVE  req[s][r].pc \in {"update", "trypush"}
  BY <1>0, <1>04 DEF Serves, Connected
<1>1. ASSUME NEW s \in Server, NEW r \in Request, ClientCreates(s, r) PROVE CallbackInv'
  <2>1. Handler(s, r) /\ req[s][r].pc = "idle"
    BY <1>1 DEF ClientCreates, Handler, CreateCheck
  <2>2. ASSUME NEW t \in Server, NEW q \in Request, Serves(t, q) PROVE req'[t][q] = req[t][q]
    BY <1>04, <2>1, <2>2, OtherRequests
  <2> QED BY <1>03, <1>04, <1>1, <2>2 DEF ClientCreates
<1>2. ASSUME NEW s \in Server, NEW r \in Request, HandlerAlone(s, r) PROVE CallbackInv'
  <2>1. HandlerStep(s, r) /\ Handler(s, r)
    BY <1>2 DEF HandlerAlone, HandlerStep, Handler
  <2>2. ASSUME NEW t \in Server, NEW q \in Request, Serves(t, q)
        PROVE  req'[t][q].pc \in {"update", "trypush"} /\ req'[t][q].n = req[t][q].n
    <3>1. CASE <<t, q>> = <<s, r>>
      <4>1. t = s /\ q = r
        BY <3>1
      <4>2. req[s][r].pc \in {"update", "trypush"} /\ req'[s][r].pc # "idle"
        BY <1>04, <1>2, <2>2, <4>1 DEF HandlerAlone
      <4> QED BY <2>1, <4>1, <4>2, DispatchFlow
    <3>2. CASE <<t, q>> # <<s, r>>
      BY <1>04, <2>1, <2>2, <3>2, OtherRequests
    <3> QED BY <3>1, <3>2
  <2> QED BY <1>03, <1>2, <2>2 DEF HandlerAlone
<1>3. ASSUME UNCHANGED <<req, taskVars, conn>> PROVE CallbackInv'
  BY <1>03, <1>04, <1>3
<1>4. ASSUME NEW s \in Server, PoolAlone(s) PROVE CallbackInv'
  <2>1. UNCHANGED req
    BY <1>4 DEF PoolAlone, WorkerTake, Process, ProcessPanic, ProcessStart, ProcessSend, ProcessSent,
       ProcessRetry, ProcessDead, ProcessArchive, RetryScheduler, PollClaim, PollClaimLost, PollNext,
       PollPush, PollExit
  <2> QED BY <1>3, <1>4, <2>1 DEF PoolAlone
<1>5. CASE ClockAlone
  BY <1>3, <1>5 DEF ClockAlone, BackoffElapses
<1>6. ASSUME NEW id \in Id, PostRefused(id) PROVE CallbackInv'
  BY <1>3, <1>6 DEF PostRefused, TaskRefused
<1>7. ASSUME NEW s \in Server, ReplicaLifecycle(s) PROVE CallbackInv'
  <2>1. UNCHANGED taskVars
    BY <1>7 DEF ReplicaLifecycle
  <2>2. UNCHANGED exec
    BY <2>1 DEF taskVars
  <2>3. \A w \in TaskWorker : conn'[w] =
          IF phase'[s] = "down" /\ conn[w] # Idle /\ conn[w][1] = s THEN Cut ELSE conn[w]
    BY <1>7 DEF ReplicaLifecycle
  <2>4. conn' \in [TaskWorker -> {Idle, Cut} \cup (Server \X Request)]
    BY <1>0, <1>7 DEF ReplicaLifecycle, Connected
  <2>5. \/ UNCHANGED req
        \/ /\ phase'[s] = "down"
           /\ \A t \in Server : t # s => req'[t] = req[t]
    <3>1. ASSUME StopProcess(s)
          PROVE  phase'[s] = "down" /\ \A t \in Server : t # s => req'[t] = req[t]
      BY <3>1 DEF StopProcess, TypeOK, ReqType
    <3> QED BY <1>7, <3>1 DEF ReplicaLifecycle, WorkerExit, Lifecycle, Signal, BeginShutdown,
       CloseChannel, Restart, Exit, Crash
  <2>6. ASSUME NEW w \in TaskWorker, NEW t \in Server, NEW q \in Request, conn'[w] = <<t, q>>
        PROVE  conn[w] = <<t, q>> /\ req'[t][q] = req[t][q]
    <3>1. conn[w] = <<t, q>> /\ conn[w] # Idle /\ conn[w][1] = t
      BY <2>3, <2>6, ConnDistinct
    <3>2. ~(phase'[s] = "down" /\ t = s)
      BY <2>3, <2>6, <3>1, ConnDistinct
    <3> QED BY <2>5, <3>1, <3>2
  <2>7. ASSUME NEW w \in TaskWorker, conn'[w] # Idle PROVE exec'[w].pc = "call"
    BY <1>0, <2>2, <2>3, <2>7 DEF Connected
  <2>8. Connected'
    BY <1>0, <2>2, <2>4, <2>6, <2>7 DEF Connected
  <2> QED BY <1>01, <1>02, <2>1, <2>8 DEF CallbackInv
<1>8. ASSUME UNCHANGED <<req, conn>>, TaskShape',
             \A w \in TaskWorker : exec[w].pc = "call" => exec'[w] = exec[w],
             DoneReleased'
      PROVE  CallbackInv'
  <2>1. \A w \in TaskWorker : conn[w] # Idle => exec'[w] = exec[w]
    BY <1>0, <1>8 DEF Connected
  <2>2. Connected'
    BY <1>0, <1>04, <1>8, <2>1, ConnectedFrame
  <2> QED BY <1>01, <1>8, <2>2 DEF CallbackInv
<1>9. ASSUME UNCHANGED <<req, conn>>, T!TickLoop \/ \E id \in Id : T!TimePasses(id) \/ T!CreateTask(id)
      PROVE  CallbackInv'
  <2>1. /\ TaskShape' /\ UNCHANGED exec
        /\ \A id \in Id : table'[id].status = "COMPLETED" => table[id].status = "COMPLETED"
    BY <1>0, <1>9, TickShape
  <2>2. DoneReleased'
    BY <1>0, <1>00, <2>1, DoneFrame
  <2> QED BY <1>8, <1>9, <2>1, <2>2
<1>10. CASE TasksAlone
  <2>1. UNCHANGED <<req, conn>>
    BY <1>10 DEF TasksAlone, vars
  <2>2. ASSUME NEW w \in TaskWorker, T!WorkerStep(w), exec[w].pc # "call" PROVE CallbackInv'
    <3>1. /\ TaskShape' /\ exec'[w].pc # "done"
          /\ \A v \in TaskWorker : v # w => exec'[v] = exec[v]
          /\ \A id \in Id : table'[id].status = "COMPLETED" =>
               table[id].status = "COMPLETED" \/ (exec[w].pc = "done" /\ exec[w].id = id)
      BY <1>0, <2>2, WorkerShape
    <3>2. \A id \in Id : table'[id].status = "COMPLETED" => table[id].status = "COMPLETED" \/ Released(id)
      BY <1>0, <3>1 DEF DoneReleased
    <3>3. \A v \in TaskWorker : exec'[v].pc = "done" => exec'[v] = exec[v]
      BY <3>1
    <3>4. DoneReleased'
      BY <1>0, <1>00, <3>2, <3>3, DoneFrame
    <3>5. \A v \in TaskWorker : exec[v].pc = "call" => exec'[v] = exec[v]
      BY <2>2, <3>1
    <3> QED BY <1>8, <2>1, <3>1, <3>4, <3>5
  <2> QED BY <1>9, <1>10, <2>1, <2>2 DEF TasksAlone
<1>11. CASE SchedulerLifecycle
  <2>1. /\ TaskShape'
        /\ \/ UNCHANGED exec /\ scheduler' # "down"
           \/ scheduler' = "down" /\ \A w \in TaskWorker : exec'[w].pc = "range"
        /\ \A id \in Id : table'[id].status = "COMPLETED" => table[id].status = "COMPLETED"
    BY <1>0, <1>11, LifecycleShape DEF SchedulerLifecycle
  <2>2. DoneReleased'
    <3>1. \A w \in TaskWorker : exec'[w].pc = "done" => exec'[w] = exec[w]
      BY <2>1
    <3> QED BY <1>0, <1>00, <2>1, <3>1, DoneFrame
  <2>3. UNCHANGED req
    BY <1>11 DEF SchedulerLifecycle, vars
  <2>4. CASE UNCHANGED exec /\ scheduler' # "down"
    BY <1>8, <1>11, <2>1, <2>2, <2>3, <2>4 DEF SchedulerLifecycle
  <2>5. CASE scheduler' = "down"
    <3>1. conn' = [w \in TaskWorker |-> Idle]
      BY <1>11, <2>5 DEF SchedulerLifecycle
    <3>2. Connected'
      BY <3>1, ConnDistinct DEF Connected
    <3> QED BY <1>01, <2>1, <2>2, <3>2 DEF CallbackInv
  <2> QED BY <2>1, <2>4, <2>5
<1>12. ASSUME NEW id \in Id, PostTask(id) PROVE CallbackInv'
  BY <1>9, <1>12 DEF PostTask, TaskStored
<1>13. ASSUME NEW w \in TaskWorker, CallbackArrives(w) PROVE CallbackInv'
  <2>1. PICK s \in Server, r \in Request : DispatchRead(s, r, exec[w].id) /\ SetConn(w, <<s, r>>)
    BY <1>13 DEF CallbackArrives
  <2>2. exec[w].pc = "call" /\ conn[w] = Idle /\ UNCHANGED taskVars
    BY <1>13 DEF CallbackArrives, Calling
  <2>3. PICK id \in Id : id = exec[w].id
    BY <1>0, <2>2 DEF TaskShape
  <2>4. req'[s][r].pc = "update" /\ req'[s][r].n.id = id
    <3>1. StoreType /\ ReqType
      BY DEF TypeOK
    <3>2. PICK n \in Copy : n = CopyOf(id)
      BY <3>1, CopyOfType
    <3>3. req'[s][r].pc = "update" /\ req'[s][r].n = n
      BY <2>1, <2>3, <3>1, <3>2, NoCopyIsNoCopy, SetReqEffect DEF DispatchRead, ReqPc
    <3> QED BY <3>2, <3>3 DEF CopyOf
  <2>5. ASSUME NEW t \in Server, NEW q \in Request, Serves(t, q)
        PROVE  <<t, q>> # <<s, r>> /\ req'[t][q] = req[t][q]
    <3>1. Handler(s, r) /\ req[s][r].pc = "idle"
      BY <2>1, <2>3 DEF Handler, DispatchRead
    <3> QED BY <1>04, <2>5, <3>1, OtherRequests
  <2>6. /\ conn' \in [TaskWorker -> {Idle, Cut} \cup (Server \X Request)]
        /\ conn'[w] = <<s, r>> /\ \A v \in TaskWorker : v # w => conn'[v] = conn[v]
    BY <1>0, <2>1 DEF Connected, SetConn
  <2>7. UNCHANGED exec
    BY <2>2 DEF taskVars
  <2>8. \A v \in TaskWorker : conn'[v] # Idle => exec'[v].pc = "call"
    BY <1>0, <2>2, <2>6, <2>7 DEF Connected
  <2>9. ASSUME NEW v \in TaskWorker, NEW t \in Server, NEW q \in Request, conn'[v] = <<t, q>>
        PROVE  /\ req'[t][q].pc \in {"update", "trypush"} /\ req'[t][q].n.id = exec'[v].id
               /\ v = w <=> <<t, q>> = <<s, r>>
               /\ v # w => conn[v] = <<t, q>>
    <3>1. CASE v = w
      <4>1. t = s /\ q = r
        BY <2>6, <2>9, <3>1
      <4> QED BY <2>3, <2>4, <2>7, <3>1, <4>1
    <3>2. CASE v # w
      <4>1. conn[v] = <<t, q>> /\ Serves(t, q)
        BY <2>6, <2>9, <3>2 DEF Serves
      <4> QED BY <1>0, <2>5, <2>7, <3>2, <4>1 DEF Connected
    <3> QED BY <3>1, <3>2
  <2>10. Connected'
    BY <1>0, <2>6, <2>8, <2>9 DEF Connected
  <2> QED BY <1>01, <1>02, <2>2, <2>10 DEF CallbackInv
<1>14. ASSUME NEW w \in TaskWorker, T!ExecuteCallback(w), SetConn(w, Idle),
              exec'[w].pc = "done" => Released(exec[w].id),
              \A v \in TaskWorker, s \in Server, r \in Request :
                v # w /\ conn[v] = <<s, r>> => req'[s][r] = req[s][r]
       PROVE  CallbackInv'
  <2>1. /\ TaskShape' /\ UNCHANGED table
        /\ exec'[w].id = exec[w].id
        /\ \A v \in TaskWorker : v # w => exec'[v] = exec[v]
    BY <1>0, <1>14, CallbackShape
  <2>2. exec[w].id \in Id
    BY <1>0, <1>14 DEF T!ExecuteCallback, TaskShape
  <2>3. DoneReleased'
    BY <1>0, <1>00, <1>14, <2>1, <2>2, DoneFrame
  <2>4. Connected'
    BY <1>0, <1>14, <2>1, ConnectedEnds
  <2> QED BY <1>01, <2>1, <2>3, <2>4 DEF CallbackInv
<1>15. ASSUME NEW w \in TaskWorker, CallbackRefused(w) \/ CallbackTimedOut(w) PROVE CallbackInv'
  BY <1>14, <1>15 DEF CallbackRefused, CallbackTimedOut, CallbackEnds, vars
<1>16. ASSUME NEW w \in TaskWorker, CallbackAnswered(w) PROVE CallbackInv'
  <2>1. PICK s \in Server, r \in Request :
          /\ conn[w] = <<s, r>>
          /\ HandlerStep(s, r)
          /\ req'[s][r].pc = "idle"
          /\ T!ExecuteCallback(w)
          /\ exec'[w].pc = Answer(w, s)
    BY <1>16 DEF CallbackAnswered
  <2>2. req[s][r].pc \in {"update", "trypush"} /\ req[s][r].n.id = exec[w].id
    BY <1>0, <2>1 DEF Connected
  <2>3. exec'[w].pc = "done" => Released(exec[w].id)
    <3>1. CASE req[s][r].pc = "trypush"
      BY <1>0, <2>2, <3>1 DEF SendsReleased
    <3>2. CASE req[s][r].pc = "update"
      <4>1. UNCHANGED chan
        BY <2>1, <2>2, <3>2, DispatchFlow
      <4>2. Len(chan[s]) \in Nat
        BY DEF TypeOK, ChanType
      <4>3. Answer(w, s) = "fail"
        BY <4>1, <4>2 DEF Answer
      <4> QED BY <2>1, <4>3
    <3> QED BY <2>2, <3>1, <3>2
  <2>4. ASSUME NEW v \in TaskWorker, NEW t \in Server, NEW q \in Request, v # w, conn[v] = <<t, q>>
        PROVE  req'[t][q] = req[t][q]
    <3>1. <<t, q>> # <<s, r>>
      BY <1>0, <2>1, <2>4 DEF Connected
    <3>2. Handler(s, r)
      BY <2>1 DEF HandlerStep, Handler
    <3> QED BY <3>1, <3>2, OtherRequests
  <2>5. SetConn(w, Idle)
    BY <1>16 DEF CallbackAnswered
  <2> QED BY <1>14, <2>1, <2>3, <2>4, <2>5
<1>17. CASE UNCHANGED allVars
  BY <1>3, <1>17 DEF allVars, vars
<1> QED BY <1>1, <1>2, <1>4, <1>5, <1>6, <1>7, <1>10, <1>11, <1>12, <1>13, <1>15, <1>16, <1>17
  DEF DeliveryNext, Callback, Post

\* Nobody calls yet.
LEMMA CallbackInitial == DeliveryInit => CallbackInv
<1> SUFFICES ASSUME DeliveryInit PROVE CallbackInv
  OBVIOUS
<1>1. Init /\ T!Init /\ conn = [w \in TaskWorker |-> Idle]
  BY DEF DeliveryInit
<1>2. TaskShape
  <2>1. T!NoRow \in T!Row
    BY DEF T!NoRow, T!Row
  <2>2. table = [id \in Id |-> T!NoRow] /\ queue = <<>> /\ tick = T!IdleTick
        /\ exec = [w \in TaskWorker |-> T!IdleWorker]
    BY <1>1 DEF T!Init
  <2> QED BY <2>1, <2>2, IdleWorkerType DEF TaskShape, T!IdleTick
<1>3. SendsReleased
  BY <1>1 DEF Init, SendsReleased, IdleRequest
<1>4. Connected
  BY <1>1, ConnDistinct DEF Connected
<1>5. DoneReleased
  BY <1>1, IdleWorkerType DEF T!Init, T!NoRow, DoneReleased
<1> QED BY <1>2, <1>3, <1>4, <1>5 DEF CallbackInv

\* executeCallback, DispatchCallback and the two tables: in spite of callbacks
\* that time out, posts that arrive late and crashes of either service, a task
\* is COMPLETED only when its notification is out of SCHEDULED.
THEOREM CompletedTriggered == DeliverySpec => []CompletedWasTriggered
<1>1. DeliveryInit => CallbackInv
  BY CallbackInitial
<1>2. TypeOK /\ CallbackInv /\ [DeliveryNext]_allVars => CallbackInv'
  BY CallbackStep
<1>3. CallbackInv => CompletedWasTriggered
  BY DEF CallbackInv, DoneReleased, Released, CompletedWasTriggered
<1> QED BY <1>1, <1>2, <1>3, DeliveryTyped, PTL DEF DeliverySpec

-----------------------------------------------------------------------------
(* Type correctness of the composition                                     *)

\* Without clients and a cache the handlers of the scheduler have no state.
LEMMA NoHandlers == T!HttpType
<1>1. <<>> \in [1 .. 0 -> [pc : T!HttpPc, id : Id \cup {0}, seen : T!TaskStatus \cup {"NONE"}]]
  BY LenProperties, EmptySeq
<1>2. 1 .. 0 = {}
  OBVIOUS
<1> QED BY <1>1, <1>2 DEF T!HttpType

\* The types of the scheduler contain what the callback depends on.
LEMMA SchedulerShape == T!TypeOK => TaskShape
  BY ConstantsAssumption DEF T!TypeOK, T!StoreType, T!ChanType, T!TickType, T!WorkType, TaskShape, ExecType

\* What has to be added to TaskShape.
SchedulerRest ==
  /\ archive \subseteq Id
  /\ scheduler \in T!Phase
  /\ Len(queue) <= QueueCapacity
  /\ T!TickType
  /\ \A w \in TaskWorker : exec[w].pc \in {"range", "exited"} => exec[w].id = 0
  /\ calls \in [Id -> Nat]
  /\ lost \subseteq Id

\* Together they are the types of the scheduler.
LEMMA SchedulerTypes == TypeOK => (T!TypeOK <=> TaskShape /\ SchedulerRest)
<1> SUFFICES ASSUME TypeOK PROVE T!TypeOK <=> TaskShape /\ SchedulerRest
  OBVIOUS
<1>0. 0 \notin Id
  BY ConstantsAssumption
<1>1. T!TypeOK => TaskShape /\ SchedulerRest
  BY SchedulerShape DEF T!TypeOK, T!StoreType, T!ChanType, T!WorkType, T!HistoryType, SchedulerRest
<1>2. ASSUME TaskShape, SchedulerRest PROVE T!TypeOK
  <2>1. T!StoreType
    BY <1>2 DEF TaskShape, SchedulerRest, T!StoreType
  <2>2. T!WorkType
    BY <1>0, <1>2 DEF TaskShape, SchedulerRest, T!WorkType, ExecType
  <2>3. T!HistoryType
    BY <1>2 DEF SchedulerRest, T!HistoryType, TypeOK, StoreType
  <2> QED BY <1>2, <2>1, <2>2, <2>3, NoHandlers DEF TaskShape, SchedulerRest, T!TypeOK, T!ChanType
<1> QED BY <1>1, <1>2

\* A worker that does not hold a task carries no id, what it loses are ids,
\* and it writes the archive, the calls and the lost tasks only.
LEMMA WorkerRest ==
  ASSUME TaskShape, SchedulerRest, NEW w \in TaskWorker, T!WorkerStep(w)
  PROVE  /\ archive' \subseteq Id
         /\ UNCHANGED <<scheduler, tick>>
         /\ Len(queue') <= QueueCapacity
         /\ exec'[w].pc \in {"range", "exited"} => exec'[w].id = 0
         /\ calls' \in [Id -> Nat]
         /\ lost' \subseteq Id
<1> USE DEF TaskShape, SchedulerRest
<1>1. ASSUME NEW pc, NEW id, NEW seen, NEW next, T!SetWork(w, pc, id, seen, next)
      PROVE  exec'[w].pc = pc
  BY <1>1 DEF T!SetWork
<1>2. ASSUME T!EndWork(w) PROVE exec'[w].id = 0
  BY <1>2 DEF T!EndWork, T!IdleWorker
<1>3. ASSUME exec[w].id \in Id, T!UpdateFailed(w)
      PROVE  exec'[w].id = 0 /\ lost' \subseteq Id
  BY <1>2, <1>3 DEF T!UpdateFailed
<1>4. ASSUME NEW next \in {"range", "call", "get"}, T!Committed(w, next)
      PROVE  /\ exec'[w].pc \in {"range", "exited"} => exec'[w].id = 0
             /\ UNCHANGED lost
  BY <1>1, <1>2, <1>4 DEF T!Committed
<1>5. ASSUME NEW seen, T!Inspect(w, seen)
      PROVE  exec'[w].pc \in {"range", "exited"} => exec'[w].id = 0
  BY <1>1, <1>2, <1>5 DEF T!Inspect
<1>6. CASE T!Take(w)
  <2>1. Len(queue') <= QueueCapacity
    BY <1>6, DeliveryAssumption DEF T!Take
  <2> QED BY <1>1, <1>6, <2>1 DEF T!Take, T!history
<1>7. CASE T!WorkerExit(w)
  BY <1>7 DEF T!WorkerExit, T!IdleWorker, T!history
<1>8. CASE T!Start(w) \/ T!Complete(w) \/ T!HandleFailure(w)
  <2>1. exec[w].id \in Id
    BY <1>8 DEF T!Start, T!Complete, T!HandleFailure
  <2>2. T!UpdateFailed(w) \/ \E next \in {"range", "call", "get"} : T!Committed(w, next)
    BY <1>8 DEF T!Start, T!Complete, T!HandleFailure
  <2>3. UNCHANGED <<archive, scheduler, tick, queue, calls>>
    BY <1>8 DEF T!Start, T!Complete, T!HandleFailure, T!history
  <2> QED BY <1>3, <1>4, <2>1, <2>2, <2>3
<1>9. CASE T!ExecuteCallback(w)
  <2>1. exec[w].id \in Id
    BY <1>9 DEF T!ExecuteCallback
  <2>2. calls' \in [Id -> Nat]
    BY <1>9, <2>1 DEF T!ExecuteCallback
  <2> QED BY <1>1, <1>9, <2>2 DEF T!ExecuteCallback
<1>10. CASE T!WorkerDel(w)
  <2>1. exec[w].next \in {"range", "call", "get"}
    BY DEF ExecType
  <2>2. exec'[w].pc \in {"range", "exited"} => exec'[w].id = 0
    BY <1>1, <1>2, <1>10, <2>1 DEF T!WorkerDel
  <2>3. UNCHANGED <<archive, scheduler, tick, queue, calls, lost>>
    BY <1>10 DEF T!WorkerDel, T!history
  <2> QED BY <2>2, <2>3
<1>11. CASE T!FetchCached(w) \/ T!FetchRow(w) \/ T!FetchFill(w)
  <2>1. exec[w].id \in Id
    BY <1>11 DEF T!FetchCached, T!FetchRow, T!FetchFill
  <2>2. T!UpdateFailed(w) \/ (UNCHANGED lost /\ \E seen : T!Inspect(w, seen))
    BY <1>11 DEF T!FetchCached, T!FetchRow, T!FetchFill
  <2>3. UNCHANGED <<archive, scheduler, tick, queue, calls>>
    BY <1>11 DEF T!FetchCached, T!FetchRow, T!FetchFill, T!history
  <2> QED BY <1>3, <1>5, <2>1, <2>2, <2>3
<1>12. CASE T!Archive(w)
  <2>1. exec[w].id \in Id
    BY <1>12 DEF T!Archive
  <2>2. T!UpdateFailed(w) \/ (UNCHANGED lost /\ T!EndWork(w))
    BY <1>12 DEF T!Archive
  <2>3. UNCHANGED <<scheduler, tick, queue, calls>> /\ archive' \subseteq archive \cup {exec[w].id}
    BY <1>12 DEF T!Archive, T!history
  <2> QED BY <1>2, <1>3, <2>1, <2>2, <2>3
<1> QED BY <1>6, <1>7, <1>8, <1>9, <1>10, <1>11, <1>12 DEF T!WorkerStep

\* The rest of the process of the scheduler.
LEMMA ProcessRest ==
  ASSUME TaskShape, SchedulerRest,
         T!TickLoop \/ T!Lifecycle \/ \E id \in Id : T!TimePasses(id) \/ T!CreateTask(id)
  PROVE  SchedulerRest'
<1> USE DEF TaskShape, SchedulerRest
<1>1. CASE T!TickRead \/ T!TickExit
  BY <1>1, DeliveryAssumption DEF T!TickRead, T!TickExit, T!SetTick, T!Serving, T!TickType, T!TickPc, T!history
<1>2. CASE T!TickClaim \/ T!TickClaimLost
  <2>1. T!TickClaim
    BY <1>2, DeliveryAssumption DEF T!TickClaimLost
  <2>2. T!TickType'
    BY <2>1, DeliveryAssumption DEF T!TickClaim, T!SetTick, T!TickType, T!TickPc
  <2> QED BY <2>1, <2>2 DEF T!TickClaim, T!history
<1>3. CASE T!TickPush
  <2>1. PICK t \in tick.jobs :
          /\ queue' = IF Len(queue) < QueueCapacity THEN Append(queue, t) ELSE queue
          /\ T!SetTick(IF tick.jobs = {t} THEN "wait" ELSE "push", 0, tick.jobs \ {t})
    BY <1>3 DEF T!TickPush
  <2>2. Len(queue') <= QueueCapacity
    BY <2>1, DeliveryAssumption DEF T!TickType
  <2>3. T!TickType'
    BY <2>1, DeliveryAssumption DEF T!TickType, T!SetTick, T!TickPc
  <2> QED BY <1>3, <2>2, <2>3 DEF T!TickPush, T!history
<1>4. CASE T!Lifecycle
  <2>1. CASE T!Signal \/ T!Stop
    BY <2>1 DEF T!Signal, T!Stop, T!Phase, T!TickType, T!history
  <2>2. CASE T!StopProcess
    <3>1. {queue[i] : i \in 1 .. Len(queue)} \subseteq Id
      BY ElementOfSeq
    <3>2. {exec[w].id : w \in {v \in TaskWorker : exec[v].id # 0}} \subseteq Id
      BY DEF ExecType
    <3>3. lost' \subseteq Id
      BY <2>2, <3>1, <3>2 DEF T!StopProcess
    <3>4. T!TickType'
      BY <2>2, DeliveryAssumption DEF T!StopProcess, T!TickType, T!IdleTick, T!TickPc
    <3>5. queue' = <<>> /\ exec' = [w \in TaskWorker |-> T!IdleWorker] /\ scheduler' = "down"
          /\ UNCHANGED <<archive, calls>>
      BY <2>2 DEF T!StopProcess, T!history
    <3>6. Len(queue') <= QueueCapacity
      BY <3>5, DeliveryAssumption
    <3>7. \A w \in TaskWorker : exec'[w].id = 0
      BY <3>5 DEF T!IdleWorker
    <3> QED BY <3>3, <3>4, <3>5, <3>6, <3>7 DEF T!Phase
  <2>3. CASE T!Restart
    BY <2>3, DeliveryAssumption DEF T!Restart, T!Phase, T!TickType
  <2> QED BY <1>4, <2>1, <2>2, <2>3 DEF T!Lifecycle, T!Exit, T!Panic, T!Crash
<1>5. ASSUME NEW id \in Id, T!TimePasses(id) \/ T!CreateTask(id) PROVE SchedulerRest'
  BY <1>5 DEF T!TimePasses, T!CreateTask, T!TickType, T!history
<1> QED BY <1>1, <1>2, <1>3, <1>4, <1>5 DEF T!TickLoop

\* The same of the state after a step.
LEMMA SchedulerTypesNext == TypeOK' => (T!TypeOK' <=> TaskShape' /\ SchedulerRest')
BY SchedulerTypes, PTL

\* Every step of the scheduler keeps its types, and so does every other step.
LEMMA SchedulerTyped ==
  TypeOK /\ TypeOK' /\ T!TypeOK /\ (T!Next \/ UNCHANGED T!vars) => T!TypeOK'
<1> SUFFICES ASSUME TypeOK, TypeOK', T!TypeOK, T!Next \/ UNCHANGED T!vars PROVE T!TypeOK'
  OBVIOUS
<1>0. TaskShape /\ SchedulerRest
  BY SchedulerTypes
<1>1. TaskShape' /\ SchedulerRest' => T!TypeOK'
  BY SchedulerTypesNext
<1>2. ASSUME NEW w \in TaskWorker, T!WorkerStep(w) PROVE TaskShape' /\ SchedulerRest'
  <2>1. TaskShape' /\ \A v \in TaskWorker : v # w => exec'[v] = exec[v]
    <3>1. CASE exec[w].pc # "call"
      BY <1>0, <1>2, <3>1, WorkerShape
    <3>2. CASE exec[w].pc = "call"
      <4>1. T!ExecuteCallback(w)
        BY <1>2, <3>2 DEF T!WorkerStep, T!Take, T!WorkerExit, T!Start, T!Complete, T!HandleFailure,
           T!WorkerDel, T!FetchCached, T!FetchRow, T!FetchFill, T!Archive
      <4> QED BY <1>0, <4>1, CallbackShape
    <3> QED BY <3>1, <3>2
  <2>2. SchedulerRest'
    BY <1>0, <1>2, <2>1, WorkerRest DEF SchedulerRest, T!TickType
  <2> QED BY <2>1, <2>2
<1>3. ASSUME T!TickLoop \/ T!Lifecycle \/ \E id \in Id : T!TimePasses(id) \/ T!CreateTask(id)
      PROVE  TaskShape' /\ SchedulerRest'
  <2>1. SchedulerRest'
    BY <1>0, <1>3, ProcessRest
  <2>2. TaskShape'
    <3>1. CASE T!Lifecycle
      BY <1>0, <3>1, LifecycleShape
    <3>2. CASE T!TickLoop \/ \E id \in Id : T!TimePasses(id) \/ T!CreateTask(id)
      BY <1>0, <3>2, TickShape
    <3> QED BY <1>3, <3>1, <3>2
  <2> QED BY <2>1, <2>2
<1>4. T!Next => \/ \E w \in TaskWorker : T!WorkerStep(w)
                \/ T!TickLoop \/ T!Lifecycle \/ \E id \in Id : T!TimePasses(id) \/ T!CreateTask(id)
  BY DEF T!Next, T!Handler, T!CacheExpires
<1>5. ASSUME UNCHANGED T!vars PROVE TaskShape' /\ SchedulerRest'
  BY <1>0, <1>5 DEF T!vars, TaskShape, SchedulerRest, T!TickType
<1>6. TaskShape' /\ SchedulerRest'
  BY <1>2, <1>3, <1>4, <1>5
<1> QED BY <1>1, <1>6

\* Both services and the connections between them keep their types.
THEOREM DeliveryTypeCorrect == DeliverySpec => []DeliveryType
<1>1. DeliveryInit => T!TypeOK /\ CallbackInv
  <2> SUFFICES ASSUME DeliveryInit PROVE T!TypeOK /\ CallbackInv
    OBVIOUS
  <2>1. TypeOK /\ CallbackInv
    BY InitType, CallbackInitial DEF DeliveryInit
  <2>2. SchedulerRest
    BY DeliveryAssumption DEF DeliveryInit, T!Init, SchedulerRest, T!Phase, T!TickType, T!IdleTick,
       T!TickPc, T!IdleWorker
  <2> QED BY <2>1, <2>2, SchedulerTypes DEF CallbackInv
<1>2. TypeOK /\ CallbackInv /\ [DeliveryNext]_allVars => CallbackInv'
  BY CallbackStep
<1>3. TypeOK /\ TypeOK' /\ T!TypeOK /\ [DeliveryNext]_allVars => T!TypeOK'
  BY SchedulerStep, SchedulerTyped
<1>4. TypeOK /\ T!TypeOK /\ CallbackInv => DeliveryType
  BY DEF CallbackInv, Connected, DeliveryType
<1> QED BY <1>1, <1>2, <1>3, <1>4, DeliveryTyped, PTL DEF DeliverySpec

-----------------------------------------------------------------------------
(* A SCHEDULED row is in somebody's hands                                  *)

\* A worker that will look at the row of id and record it when it is FAILED.
Recording(w, id) ==
  /\ exec[w].id = id
  /\ \/ exec[w].pc \in {"get", "archive"}
     \/ exec[w].pc = "fill" /\ exec[w].seen = "FAILED"
     \/ exec[w].pc = "del" /\ exec[w].next = "get"

\* The failed task of id is recorded, or its worker is about to record it.
Recorded(id) == id \in archive \/ \E w \in TaskWorker : Recording(w, id)

\* Neither service ends, ...
ServicesRun == (\A s \in Server : phase[s] = "up") /\ scheduler = "up"

\* ... what the scheduler has accepted is in its table, ...
AcceptedInTable == \A id \in tasks : table[id].status # "NONE"

\* ... what is stored for later is being delegated, or accepted, ...
DelegatedOrAccepted ==
  \A id \in Id : rows[id].status = "SCHEDULED" => Delegating(id) \/ id \in tasks

\* ... and no failure goes unrecorded.
FailuresRecorded == \A id \in Id : table[id].status = "FAILED" => Recorded(id)

\* The inductive strengthening of ScheduledIsOwned.
OwnedInv ==
  ServicesRun /\ AcceptedInTable /\ DelegatedOrAccepted /\ FailuresRecorded

\* The database and the processes of the notification service keep working.
Undisturbed == Faults \cap {"db", "stop", "crash"} = {}

\* No replica leaves "up".
LEMMA StaysUp ==
  ASSUME [Next]_vars, Undisturbed, ServicesRun
  PROVE  UNCHANGED phase
<1>1. ASSUME NEW s \in Server PROVE ~Lifecycle(s)
  BY DEF Lifecycle, Signal, BeginShutdown, CloseChannel, Exit, Crash, Restart, Undisturbed, ServicesRun
<1>2. ASSUME NEW s \in Server, NEW r \in Request, Handler(s, r) PROVE UNCHANGED phase
  BY <1>2 DEF Handler, CreateCheck, CreateReject, CreateSave, CreatePush, CreateAbandon,
     DelegatePost, DelegateOk, DelegateFail, DelegateUndo, DispatchRead, DispatchUpdate, DispatchPush
<1>3. ASSUME NEW s \in Server, NEW w \in Worker, WorkerTake(s, w) \/ WorkerExit(s, w) \/ Process(s, w)
      PROVE  UNCHANGED phase
  BY <1>3 DEF WorkerTake, WorkerExit, Process, ProcessPanic, ProcessStart, ProcessSend, ProcessSent,
     ProcessRetry, ProcessDead, ProcessArchive
<1>4. ASSUME NEW s \in Server, RetryScheduler(s) PROVE UNCHANGED phase
  BY <1>4 DEF RetryScheduler, PollClaim, PollClaimLost, PollNext, PollPush, PollExit
<1>5. ASSUME NEW x \in Id, Environment(x) PROVE UNCHANGED phase
  BY <1>5 DEF Environment, BackoffElapses, TaskStored, TaskRefused
<1> QED BY <1>1, <1>2, <1>3, <1>4, <1>5 DEF Next, vars

\* A handler that delegates goes on to the next step of the delegation, or has
\* the scheduler's answer, or has taken the row out of SCHEDULED.
LEMMA DelegationFlow ==
  ASSUME TypeOK, Undisturbed, NEW s \in Server, NEW r \in Request, Handler(s, r),
         req[s][r].pc \in {"delegate", "wait", "undo"}
  PROVE  \/ req'[s][r].pc \in {"wait", "undo"} /\ req'[s][r].n = req[s][r].n
         \/ req[s][r].n.id \in tasks
         \/ rows'[req[s][r].n.id].status = "DLQ"
<1>0. ReqType /\ StoreType
  BY DEF TypeOK
<1>1. PICK n \in Copy : n = req[s][r].n
  BY HoldsCopy
<1>2. DelegatePost(s, r) \/ DelegateOk(s, r) \/ DelegateFail(s, r) \/ DelegateUndo(s, r)
  BY DEF Handler, CreateCheck, CreateReject, CreateSave, CreatePush, CreateAbandon,
     DispatchRead, DispatchUpdate, DispatchPush, Undisturbed
<1>3. CASE DelegatePost(s, r) \/ DelegateFail(s, r)
  <2>1. PICK pc \in {"wait", "undo"} : SetReq(s, r, pc, req[s][r].mode, n)
    BY <1>1, <1>3 DEF DelegatePost, DelegateFail
  <2>2. req[s][r].mode \in {"now", "later"}
    BY <1>0 DEF ReqType
  <2>3. req'[s][r].pc = pc /\ req'[s][r].n = n
    BY <1>0, <2>1, <2>2, NoCopyIsNoCopy, SetReqEffect DEF ReqPc
  <2> QED BY <1>1, <2>3
<1>4. CASE DelegateOk(s, r)
  BY <1>4 DEF DelegateOk
<1>5. CASE DelegateUndo(s, r)
  <2>1. WriteRow(n, "DLQ", FALSE)
    BY <1>1, <1>5 DEF DelegateUndo, UpdateFails, Undisturbed
  <2> QED BY <1>0, <1>1, <2>1, WriteRowEffect DEF Status
<1> QED BY <1>2, <1>3, <1>4, <1>5

\* Only CreateSave makes a row SCHEDULED, with its handler about to delegate it.
LEMMA DelegationStep ==
  ASSUME TypeOK, [Next]_vars, Undisturbed, ServicesRun, DelegatedOrAccepted
  PROVE  DelegatedOrAccepted'
<1> SUFFICES ASSUME NEW id \in Id, rows'[id].status = "SCHEDULED", id \notin tasks'
             PROVE  \E s \in Server, r \in Request :
                      req'[s][r].pc \in {"delegate", "wait", "undo"} /\ req'[s][r].n.id = id
  BY DEF DelegatedOrAccepted, Delegating
<1>1. CASE rows'[id].status # rows[id].status
  <2>1. Next
    BY <1>1 DEF vars
  <2>2. PICK s \in Server, r \in Request : CreateSave(s, r)
    BY <1>1, <2>1, RowFlow
  <2>3. req'[s][r].pc = "delegate" /\ req'[s][r].n.id = id
    BY <1>1, <2>2, CreateSaveEffect
  <2> QED BY <2>3
<1>2. CASE rows'[id].status = rows[id].status
  <2>1. id \notin tasks
    BY TasksGrow DEF vars
  <2>2. PICK s \in Server, r \in Request :
          req[s][r].pc \in {"delegate", "wait", "undo"} /\ req[s][r].n.id = id
    BY <1>2, <2>1 DEF DelegatedOrAccepted, Delegating
  <2>3. CASE req'[s][r] = req[s][r]
    BY <2>2, <2>3
  <2>4. CASE req'[s][r] # req[s][r]
    <3>1. Next
      BY <2>4 DEF vars
    <3>2. ~Exit(s) /\ ~Crash(s)
      BY DEF Exit, Crash, Undisturbed, ServicesRun
    <3>3. Handler(s, r)
      BY <2>4, <3>1, <3>2, ReqStep
    <3> QED BY <2>1, <2>2, <3>3, DelegationFlow
  <2> QED BY <2>3, <2>4
<1> QED BY <1>1, <1>2

\* A worker of the scheduler that writes FAILED fetches the row again and records
\* it; one that is about to record a failure does so; and no row is deleted.
LEMMA WorkerRecords ==
  ASSUME TaskShape, NEW w \in TaskWorker, T!WorkerStep(w)
  PROVE  /\ UNCHANGED <<scheduler, tasks>>
         /\ \A id \in Id : table[id].status # "NONE" => table'[id].status # "NONE"
         /\ \A id \in Id :
              /\ table'[id].status = "FAILED"
              /\ table[id].status = "FAILED" => Recorded(id)
              => Recorded(id)'
<1> USE DEF TaskShape
<1>0. ~T!UpdateFailed(w)
  BY DeliveryAssumption DEF T!UpdateFailed
<1>1. ASSUME NEW pc, NEW id, NEW seen, NEW next, T!SetWork(w, pc, id, seen, next)
      PROVE  /\ exec'[w].pc = pc /\ exec'[w].id = id
             /\ \A v \in TaskWorker : v # w => exec'[v] = exec[v]
  BY <1>1 DEF T!SetWork
<1>2. ASSUME T!EndWork(w) PROVE \A v \in TaskWorker : v # w => exec'[v] = exec[v]
  BY <1>2 DEF T!EndWork
\* The other workers keep what they have to record, so only w is to be looked at.
<1>3. ASSUME archive \subseteq archive', \A v \in TaskWorker : v # w => exec'[v] = exec[v],
             NEW id \in Id, Recorded(id), Recording(w, id) => Recorded(id)'
      PROVE  Recorded(id)'
  <2>1. ASSUME NEW v \in TaskWorker, v # w, Recording(v, id) PROVE Recording(v, id)'
    BY <1>3, <2>1 DEF Recording
  <2> QED BY <1>3, <2>1 DEF Recorded
<1>4. ASSUME UNCHANGED <<table, archive, scheduler, tasks>>,
             \A v \in TaskWorker : v # w => exec'[v] = exec[v],
             \A id \in Id : Recording(w, id) /\ table[id].status = "FAILED" => Recorded(id)'
      PROVE  /\ UNCHANGED <<scheduler, tasks>>
             /\ \A id \in Id : table[id].status # "NONE" => table'[id].status # "NONE"
             /\ \A id \in Id :
                  /\ table'[id].status = "FAILED"
                  /\ table[id].status = "FAILED" => Recorded(id)
                  => Recorded(id)'
  BY <1>3, <1>4
<1>5. CASE T!Take(w) \/ T!WorkerExit(w) \/ T!ExecuteCallback(w)
  <2>1. \A v \in TaskWorker : v # w => exec'[v] = exec[v]
    BY <1>5 DEF T!Take, T!WorkerExit, T!ExecuteCallback, T!SetWork
  <2>2. UNCHANGED <<table, archive, scheduler, tasks>>
    BY <1>5 DEF T!Take, T!WorkerExit, T!ExecuteCallback, T!history
  <2>3. \A id \in Id : ~Recording(w, id)
    BY <1>5 DEF T!Take, T!WorkerExit, T!ExecuteCallback, Recording
  <2> QED BY <1>4, <2>1, <2>2, <2>3
<1>6. CASE T!Start(w) \/ T!Complete(w)
  <2>1. PICK status \in {"PROCESSING", "COMPLETED"}, next \in {"call", "range"} :
          T!SetStatus(exec[w].id, status) /\ T!Committed(w, next)
    BY <1>0, <1>6 DEF T!Start, T!Complete
  <2>2. exec[w].id \in Id /\ UNCHANGED <<archive, scheduler, tasks>>
    BY <1>6 DEF T!Start, T!Complete, T!history
  <2>3. \A v \in TaskWorker : v # w => exec'[v] = exec[v]
    BY <1>1, <1>2, <2>1 DEF T!Committed
  <2>4. /\ table'[exec[w].id].status = status
        /\ \A id \in Id : id # exec[w].id => table'[id] = table[id]
    BY <2>1, <2>2 DEF T!SetStatus, T!Row
  <2>5. ASSUME NEW id \in Id, table'[id].status = "FAILED",
               table[id].status = "FAILED" => Recorded(id)
        PROVE  Recorded(id)'
    <3>1. id # exec[w].id
      BY <2>4, <2>5
    <3>2. ~Recording(w, id)
      BY <3>1 DEF Recording
    <3>3. Recorded(id)
      BY <2>4, <2>5, <3>1
    <3> QED BY <1>3, <2>2, <2>3, <3>2, <3>3
  <2> QED BY <2>2, <2>4, <2>5
<1>7. CASE T!HandleFailure(w)
  <2>1. T!SetRow(exec[w].id, T!Failed(table[exec[w].id])) /\ T!Committed(w, "get")
    BY <1>0, <1>7 DEF T!HandleFailure
  <2>2. exec[w].id \in Id /\ UNCHANGED <<archive, scheduler, tasks>>
    BY <1>7 DEF T!HandleFailure, T!history
  <2>3. T!SetWork(w, "get", exec[w].id, "NONE", "range")
    BY <2>1 DEF T!Committed
  <2>4. /\ exec'[w].pc = "get" /\ exec'[w].id = exec[w].id
        /\ \A v \in TaskWorker : v # w => exec'[v] = exec[v]
    BY <1>1, <2>3
  <2>5. T!Failed(table[exec[w].id]).status \in {"FAILED", "PENDING"}
    <3>1. PICK row \in T!Row : row = table[exec[w].id]
      BY <2>2
    <3>2. T!Failed(row).status \in {"FAILED", "PENDING"}
      BY DEF T!Failed, T!Row
    <3> QED BY <3>1, <3>2
  <2>6. /\ table'[exec[w].id].status # "NONE"
        /\ \A id \in Id : id # exec[w].id => table'[id] = table[id]
    BY <2>1, <2>2, <2>5 DEF T!SetRow
  <2>7. ASSUME NEW id \in Id, table'[id].status = "FAILED",
               table[id].status = "FAILED" => Recorded(id)
        PROVE  Recorded(id)'
    <3>1. CASE id = exec[w].id
      BY <2>4, <3>1 DEF Recorded, Recording
    <3>2. CASE id # exec[w].id
      <4>1. ~Recording(w, id)
        BY <3>2 DEF Recording
      <4>2. Recorded(id)
        BY <2>6, <2>7, <3>2
      <4> QED BY <1>3, <2>2, <2>4, <4>1, <4>2
    <3> QED BY <3>1, <3>2
  <2> QED BY <2>2, <2>6, <2>7
<1>8. ASSUME NEW seen, T!Inspect(w, seen)
      PROVE  /\ \A v \in TaskWorker : v # w => exec'[v] = exec[v]
             /\ seen = "FAILED" => exec'[w].pc = "archive" /\ exec'[w].id = exec[w].id
  BY <1>1, <1>2, <1>8 DEF T!Inspect
<1>9. CASE T!WorkerDel(w)
  <2>1. UNCHANGED <<table, archive, scheduler, tasks>>
    BY <1>9 DEF T!WorkerDel, T!history
  <2>2. T!EndWork(w) \/ T!SetWork(w, exec[w].next, exec[w].id, "NONE", "range")
    BY <1>9 DEF T!WorkerDel
  <2>3. \A v \in TaskWorker : v # w => exec'[v] = exec[v]
    BY <1>1, <1>2, <2>2
  <2>4. ASSUME NEW id \in Id, Recording(w, id) PROVE Recorded(id)'
    <3>1. exec[w].id = id /\ exec[w].next = "get"
      BY <1>9, <2>4 DEF T!WorkerDel, Recording
    <3>2. T!SetWork(w, "get", id, "NONE", "range")
      BY <1>9, <3>1 DEF T!WorkerDel
    <3>3. exec'[w].pc = "get" /\ exec'[w].id = id
      BY <1>1, <3>2
    <3> QED BY <3>3 DEF Recorded, Recording
  <2> QED BY <1>4, <2>1, <2>3, <2>4
<1>10. CASE T!FetchRow(w) \/ T!FetchFill(w) \/ T!FetchCached(w)
  <2>1. UNCHANGED <<table, archive, scheduler, tasks>>
    BY <1>10 DEF T!FetchRow, T!FetchFill, T!FetchCached, T!history
  <2>2. PICK seen : /\ T!Inspect(w, seen)
                    /\ \A id \in Id : Recording(w, id) /\ table[id].status = "FAILED" => seen = "FAILED"
    <3>1. CASE T!FetchRow(w)
      <4>1. T!Inspect(w, table[exec[w].id].status)
        BY <1>0, <3>1 DEF T!FetchRow
      <4> QED BY <4>1 DEF Recording
    <3>2. CASE T!FetchFill(w)
      BY <3>2 DEF T!FetchFill, Recording
    <3> QED BY <1>10, <3>1, <3>2 DEF T!FetchCached
  <2>3. ASSUME NEW id \in Id, Recording(w, id), table[id].status = "FAILED" PROVE Recorded(id)'
    <3>1. exec'[w].pc = "archive" /\ exec'[w].id = id
      BY <1>8, <2>2, <2>3 DEF Recording
    <3> QED BY <3>1 DEF Recorded, Recording
  <2>4. \A v \in TaskWorker : v # w => exec'[v] = exec[v]
    BY <1>8, <2>2
  <2> QED BY <1>4, <2>1, <2>3, <2>4
<1>11. CASE T!Archive(w)
  <2>1. archive' = archive \cup {exec[w].id} /\ T!EndWork(w) /\ UNCHANGED <<table, scheduler, tasks>>
    BY <1>0, <1>11 DEF T!Archive, T!history
  <2>2. \A id \in Id : Recording(w, id) => Recorded(id)'
    BY <2>1 DEF Recording, Recorded
  <2> QED BY <1>2, <1>3, <2>1, <2>2
<1> QED BY <1>5, <1>6, <1>7, <1>9, <1>10, <1>11 DEF T!WorkerStep

\* tickLoop, CreateTask and the clock end no task and delete none; what is
\* accepted is in the table.
LEMMA TickRecords ==
  ASSUME TaskShape, T!TickLoop \/ \E x \in Id : T!TimePasses(x) \/ T!CreateTask(x)
  PROVE  /\ UNCHANGED <<scheduler, archive, exec>>
         /\ \A id \in Id : table[id].status # "NONE" => table'[id].status # "NONE"
         /\ \A id \in tasks' : id \in tasks \/ table'[id].status # "NONE"
         /\ \A id \in Id : table'[id].status = "FAILED" => table[id].status = "FAILED"
<1> USE DEF TaskShape
<1>1. CASE T!TickRead \/ T!TickExit \/ T!TickPush
  BY <1>1 DEF T!TickRead, T!TickExit, T!TickPush, T!history
<1>2. CASE T!TickClaim
  <2>1. PICK S \in SUBSET Id : T!ClaimRows(S)
    BY <1>2 DEF T!TickClaim
  <2>2. \A id \in Id : table'[id].status = IF id \in S THEN "QUEUED" ELSE table[id].status
    BY <2>1 DEF T!ClaimRows, T!Row
  <2> QED BY <1>2, <2>2 DEF T!TickClaim, T!history
<1>3. ~T!TickClaimLost
  BY DeliveryAssumption DEF T!TickClaimLost
<1>4. ASSUME NEW x \in Id, T!TimePasses(x)
      PROVE  \A id \in Id : table'[id].status = table[id].status
  BY <1>4 DEF T!TimePasses, T!Row
<1>5. ASSUME NEW x \in Id, T!TimePasses(x)
      PROVE  UNCHANGED <<scheduler, archive, exec, tasks>>
  BY <1>5 DEF T!TimePasses, T!history
<1>6. ASSUME NEW x \in Id, T!CreateTask(x)
      PROVE  /\ UNCHANGED <<scheduler, archive, exec>>
             /\ tasks' \subseteq tasks \cup {x}
             /\ table'[x].status = "PENDING"
             /\ \A id \in Id : id # x => table'[id] = table[id]
  BY <1>6 DEF T!CreateTask, T!SetRow
<1> QED BY <1>1, <1>2, <1>3, <1>4, <1>5, <1>6 DEF T!TickLoop

\* Every step of the composition keeps the invariant.
LEMMA OwnedStep ==
  ASSUME TypeOK, TaskShape, OwnedInv, [DeliveryNext]_allVars, Undisturbed, TaskFaults = {}
  PROVE  OwnedInv'
<1>0. ServicesRun /\ AcceptedInTable /\ DelegatedOrAccepted /\ FailuresRecorded
  BY DEF OwnedInv
<1>1. (\A s \in Server : phase'[s] = "up") /\ DelegatedOrAccepted'
  <2>1. [Next]_vars
    BY ServiceStep
  <2> QED BY <1>0, <2>1, StaysUp, DelegationStep DEF ServicesRun
<1>2. ASSUME UNCHANGED <<scheduler, tasks>>,
             \A id \in Id : table[id].status # "NONE" => table'[id].status # "NONE",
             \A id \in Id :
               /\ table'[id].status = "FAILED"
               /\ table[id].status = "FAILED" => Recorded(id)
               => Recorded(id)'
      PROVE  OwnedInv'
  <2>1. tasks \subseteq Id
    BY DEF TypeOK, StoreType
  <2>2. AcceptedInTable'
    BY <1>0, <1>2, <2>1 DEF AcceptedInTable
  <2>3. FailuresRecorded'
    BY <1>0, <1>2 DEF FailuresRecorded
  <2> QED BY <1>0, <1>1, <1>2, <2>2, <2>3 DEF OwnedInv, ServicesRun
<1>3. ASSUME UNCHANGED <<taskVars, tasks>> PROVE OwnedInv'
  <2>1. UNCHANGED <<table, archive, scheduler, exec>>
    BY <1>3 DEF taskVars
  <2>2. ASSUME NEW id \in Id, Recorded(id) PROVE Recorded(id)'
    BY <2>1, <2>2 DEF Recorded, Recording
  <2> QED BY <1>2, <1>3, <2>1, <2>2
<1>4. ASSUME T!TickLoop \/ \E x \in Id : T!TimePasses(x) \/ T!CreateTask(x) PROVE OwnedInv'
  <2>1. /\ UNCHANGED <<scheduler, archive, exec>>
        /\ \A id \in Id : table[id].status # "NONE" => table'[id].status # "NONE"
        /\ \A id \in tasks' : id \in tasks \/ table'[id].status # "NONE"
        /\ \A id \in Id : table'[id].status = "FAILED" => table[id].status = "FAILED"
    BY <1>4, TickRecords
  <2>2. tasks \subseteq Id
    BY DEF TypeOK, StoreType
  <2>3. AcceptedInTable'
    BY <1>0, <2>1, <2>2 DEF AcceptedInTable
  <2>4. FailuresRecorded'
    <3>1. ASSUME NEW id \in Id, Recorded(id) PROVE Recorded(id)'
      BY <2>1, <3>1 DEF Recorded, Recording
    <3> QED BY <1>0, <2>1, <3>1 DEF FailuresRecorded
  <2> QED BY <1>0, <1>1, <2>1, <2>3, <2>4 DEF OwnedInv, ServicesRun
<1>5. ASSUME NEW w \in TaskWorker, T!WorkerStep(w) PROVE OwnedInv'
  BY <1>2, <1>5, WorkerRecords
<1>6. ASSUME NEW s \in Server,
             \/ PoolAlone(s) \/ ReplicaLifecycle(s)
             \/ \E r \in Request : ClientCreates(s, r) \/ HandlerAlone(s, r)
      PROVE  OwnedInv'
  <2>1. UNCHANGED taskVars
    BY <1>6 DEF PoolAlone, ReplicaLifecycle, ClientCreates, HandlerAlone
  <2>2. UNCHANGED tasks
    BY <1>6, TasksKept DEF PoolAlone, ReplicaLifecycle, ClientCreates, HandlerAlone
  <2> QED BY <1>3, <2>1, <2>2
<1>7. CASE TasksAlone
  BY <1>4, <1>5, <1>7 DEF TasksAlone
<1>8. ~SchedulerLifecycle
  BY <1>0 DEF SchedulerLifecycle, T!Lifecycle, T!Signal, T!Stop, T!Exit, T!Panic, T!Crash, T!Restart, ServicesRun
<1>9. CASE ClockAlone \/ \E id \in Id : PostRefused(id)
  BY <1>3, <1>9 DEF ClockAlone, BackoffElapses, PostRefused, TaskRefused
<1>10. ASSUME NEW id \in Id, PostTask(id) PROVE OwnedInv'
  BY <1>4, <1>10 DEF PostTask
<1>11. ASSUME NEW w \in TaskWorker, CallbackArrives(w) PROVE OwnedInv'
  BY <1>3, <1>11 DEF CallbackArrives, DispatchRead
<1>12. ASSUME NEW w \in TaskWorker,
              CallbackRefused(w) \/ CallbackAnswered(w) \/ CallbackTimedOut(w)
       PROVE  OwnedInv'
  <2>1. T!ExecuteCallback(w)
    BY <1>12 DEF CallbackAnswered, CallbackRefused, CallbackTimedOut, CallbackEnds
  <2> QED BY <1>5, <2>1 DEF T!WorkerStep
<1>13. CASE UNCHANGED allVars
  BY <1>3, <1>13 DEF allVars, vars
<1> QED BY <1>6, <1>7, <1>8, <1>9, <1>10, <1>11, <1>12, <1>13 DEF DeliveryNext, Callback, Post

\* Create, ScheduleNotification, the clean-up of Create, CreateTask, tickLoop,
\* the workers and handleFailure: as long as both services run and the database
\* of the notification service works, no SCHEDULED row is forgotten, whether or
\* not the callback carries its key.  Delegations may fail in any way, callbacks
\* time out, providers fail and senders panic.
THEOREM ScheduledOwned ==
  ASSUME Faults \cap {"db", "stop", "crash"} = {}, TaskFaults = {}
  PROVE  DeliverySpec => []ScheduledIsOwned
<1>0. Undisturbed
  BY DEF Undisturbed
<1>1. DeliveryInit => CallbackInv /\ OwnedInv
  <2> SUFFICES ASSUME DeliveryInit PROVE OwnedInv
    BY CallbackInitial
  <2>1. Init /\ T!Init
    BY DEF DeliveryInit
  <2>2. ServicesRun /\ AcceptedInTable
    BY <2>1 DEF Init, T!Init, ServicesRun, AcceptedInTable
  <2>3. DelegatedOrAccepted
    BY <2>1 DEF Init, DelegatedOrAccepted
  <2>4. FailuresRecorded
    BY <2>1 DEF T!Init, T!NoRow, FailuresRecorded
  <2> QED BY <2>2, <2>3, <2>4 DEF OwnedInv
<1>2. TypeOK /\ CallbackInv /\ [DeliveryNext]_allVars => CallbackInv'
  BY CallbackStep
<1>3. TypeOK /\ CallbackInv /\ OwnedInv /\ [DeliveryNext]_allVars => OwnedInv'
  BY <1>0, OwnedStep DEF CallbackInv
<1>4. CallbackInv /\ OwnedInv => ScheduledIsOwned
  <2> SUFFICES ASSUME CallbackInv, OwnedInv, NEW id \in Id, rows[id].status = "SCHEDULED",
                      ~Delegating(id)
               PROVE  \/ table[id].status \in {"PENDING", "QUEUED", "PROCESSING"}
                      \/ table[id].status = "FAILED" /\ (id \in archive \/ T!Archiving(id))
    BY DEF ScheduledIsOwned
  <2>1. table[id].status # "NONE"
    BY DEF OwnedInv, DelegatedOrAccepted, AcceptedInTable
  <2>2. table[id].status # "COMPLETED"
    BY DEF CallbackInv, DoneReleased, Released
  <2>3. table[id].status \in T!TaskStatus \cup {"NONE"}
    BY DEF CallbackInv, TaskShape, T!Row
  <2>4. table[id].status = "FAILED" => id \in archive \/ T!Archiving(id)
    BY DEF OwnedInv, FailuresRecorded, Recorded, Recording, T!Archiving
  <2> QED BY <2>1, <2>2, <2>3, <2>4 DEF T!TaskStatus
<1> QED BY <1>1, <1>2, <1>3, <1>4, DeliveryTyped, PTL DEF DeliverySpec
=============================================================================
