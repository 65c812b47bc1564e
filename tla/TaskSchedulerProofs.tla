------------------------- MODULE TaskSchedulerProofs -------------------------
(***************************************************************************)
(* Theorems about TaskScheduler: its type invariant, that tickLoop never   *)
(* bypasses a task it has claimed, that a running process holds every      *)
(* QUEUED or PROCESSING task and holds it once unless a client reschedules *)
(* it, that FAILED tasks reach the archive, and how many callbacks a task  *)
(* can get.                                                                *)
(***************************************************************************)
EXTENDS TaskScheduler, FiniteSetTheorems, TLAPS

-----------------------------------------------------------------------------
(* What the setters do                                                     *)

\* SetRow, SetStatus and ClaimRows keep the table a table.
LEMMA SetRowType ==
  ASSUME tasks \in [Task -> Row], NEW t \in Task, NEW row \in Row, SetRow(t, row)
  PROVE  tasks' \in [Task -> Row] /\ tasks' = [tasks EXCEPT ![t] = row]
BY DEF SetRow

LEMMA SetStatusType ==
  ASSUME tasks \in [Task -> Row], NEW t \in Task, NEW st \in TaskStatus,
         SetStatus(t, st)
  PROVE  tasks' \in [Task -> Row]
BY DEF SetStatus, Row

LEMMA ClaimRowsType ==
  ASSUME tasks \in [Task -> Row], NEW S \in SUBSET Task, ClaimRows(S)
  PROVE  tasks' \in [Task -> Row]
BY DEF ClaimRows, Row, TaskStatus

LEMMA CacheSetType ==
  ASSUME cache \in [Task -> TaskStatus \cup {"NONE"}], NEW t,
         NEW st \in TaskStatus \cup {"NONE"}, CacheSet(t, st)
  PROVE  cache' \in [Task -> TaskStatus \cup {"NONE"}]
BY DEF CacheSet

\* Failed yields a row.
LEMMA FailedType ==
  ASSUME NEW row \in Row
  PROVE  Failed(row) \in Row /\ Failed(row).status \in {"PENDING", "FAILED"}
<1>1. row.retry + 1 \in Nat /\ row.due \in BOOLEAN
  BY DEF Row
<1>2. CASE row.retry + 1 > MaxRetries
  <2>1. Failed(row) = [status |-> "FAILED", retry |-> row.retry + 1, due |-> row.due]
    BY <1>2 DEF Failed, Row
  <2> QED BY <1>1, <2>1 DEF Row, TaskStatus
<1>3. CASE ~(row.retry + 1 > MaxRetries)
  BY <1>1, <1>3 DEF Failed, Row, TaskStatus
<1> QED BY <1>2, <1>3

LEMMA SetWorkType ==
  ASSUME WorkType, NEW w \in Worker, NEW t \in Task,
         NEW pc \in WorkerPc \ {"range", "exited"},
         NEW seen \in TaskStatus \cup {"NONE"}, NEW next \in {"range", "call", "get"},
         SetWork(w, pc, t, seen, next)
  PROVE  /\ WorkType'
         /\ work'[w] = [pc |-> pc, id |-> t, seen |-> seen, next |-> next]
         /\ \A v \in Worker : v # w => work'[v] = work[v]
BY SchedulerAssumption DEF WorkType, SetWork

LEMMA EndWorkType ==
  ASSUME WorkType, NEW w \in Worker, EndWork(w)
  PROVE  /\ WorkType'
         /\ work'[w] = IdleWorker
         /\ \A v \in Worker : v # w => work'[v] = work[v]
BY DEF WorkType, EndWork, IdleWorker, WorkerPc

LEMMA SetHttpType ==
  ASSUME HttpType, NEW c \in Client, NEW t \in Task, NEW pc \in {"fill", "del"},
         NEW seen \in TaskStatus \cup {"NONE"}, SetHttp(c, pc, t, seen)
  PROVE  HttpType'
BY SchedulerAssumption DEF HttpType, SetHttp, HttpPc

LEMMA EndHttpType ==
  ASSUME HttpType, NEW c \in Client, EndHttp(c)
  PROVE  HttpType'
BY DEF HttpType, EndHttp, IdleHttp, HttpPc

-----------------------------------------------------------------------------
(* Type correctness                                                        *)

\* A worker that is not waiting holds a task.
LEMMA HoldsTask ==
  ASSUME WorkType, NEW w \in Worker, work[w].pc \notin {"range", "exited"}
  PROVE  work[w].id \in Task
BY DEF WorkType

\* The handlers keep every type.
LEMMA HandlerType == TypeOK /\ Handler => TypeOK'
<1> SUFFICES ASSUME TypeOK, Handler PROVE TypeOK'
  OBVIOUS
<1> USE DEF TypeOK
<1>1. ASSUME NEW t \in Task, CreateTask(t) PROVE TypeOK'
  <2>1. PICK row \in Row : SetRow(t, row)
    BY <1>1 DEF CreateTask, Row, TaskStatus
  <2>2. tasks' \in [Task -> Row]
    BY <2>1, SetRowType DEF StoreType
  <2> QED BY <1>1, <2>2 DEF CreateTask, StoreType, ChanType, TickType, WorkType,
              HttpType, HistoryType
<1>2. ASSUME NEW t \in Task, CacheExpires(t) PROVE TypeOK'
  BY <1>2 DEF CacheExpires, StoreType, ChanType, TickType, WorkType, HttpType,
              HistoryType, history
<1>3. ASSUME NEW c \in Client, NEW t \in Task, GetTask(c, t) PROVE TypeOK'
  <2>1. PICK seen \in TaskStatus \cup {"NONE"} : seen = tasks[t].status
    BY DEF StoreType, Row
  <2>2. HttpType'
    BY <1>3, <2>1, SetHttpType DEF GetTask
  <2> QED BY <1>3, <2>2 DEF GetTask, StoreType, ChanType, TickType, WorkType,
              HistoryType, history
<1>4. ASSUME NEW c \in Client, NEW t \in Task, UpdateTask(c, t) PROVE TypeOK'
  <2>1. tasks' \in [Task -> Row] /\ moves' \in [Task -> Nat]
    <3>1. CASE UNCHANGED <<tasks, moves>>
      BY <3>1 DEF StoreType, HistoryType
    <3>2. CASE ~UNCHANGED <<tasks, moves>>
      <4>1. PICK row \in Row : SetRow(t, row)
        BY <1>4, <3>2 DEF UpdateTask, Row, TaskStatus
      <4> QED BY <1>4, <3>2, <4>1, SetRowType DEF UpdateTask, StoreType, HistoryType
    <3> QED BY <3>1, <3>2
  <2>2. HttpType'
    BY <1>4, SetHttpType DEF UpdateTask, HttpType
  <2> QED BY <1>4, <2>1, <2>2 DEF UpdateTask, StoreType, ChanType, TickType,
              WorkType, HistoryType
<1>5. ASSUME NEW c \in Client, GetTaskFill(c) \/ UpdateTaskDel(c) PROVE TypeOK'
  <2>1. PICK st \in TaskStatus \cup {"NONE"} : CacheSet(http[c].id, st)
    BY <1>5 DEF GetTaskFill, UpdateTaskDel, HttpType
  <2>2. cache' \in [Task -> TaskStatus \cup {"NONE"}]
    BY <2>1, CacheSetType DEF StoreType
  <2>3. HttpType'
    BY <1>5, EndHttpType DEF GetTaskFill, UpdateTaskDel
  <2> QED BY <1>5, <2>2, <2>3 DEF GetTaskFill, UpdateTaskDel, StoreType, ChanType,
              TickType, WorkType, HistoryType, history
<1> QED BY <1>1, <1>2, <1>3, <1>4, <1>5 DEF Handler

\* tickLoop keeps every type.
LEMMA TickLoopType == TypeOK /\ TickLoop => TypeOK'
<1> SUFFICES ASSUME TypeOK, TickLoop PROVE TypeOK'
  OBVIOUS
<1> USE DEF TypeOK
<1>1. CASE TickRead
  BY <1>1, SchedulerAssumption DEF TickRead, SetTick, Serving, TickType, TickPc,
     StoreType, ChanType, WorkType, HttpType, HistoryType, history
<1>2. CASE TickClaim \/ TickClaimLost
  <2>1. PICK S \in SUBSET Task : ClaimRows(S) /\ lost' \subseteq lost \cup S
                                 /\ (tick'.jobs = S \/ tick'.jobs = {})
    BY <1>2 DEF TickClaim, TickClaimLost, SetTick
  <2>2. tasks' \in [Task -> Row]
    BY <2>1, ClaimRowsType DEF StoreType
  <2>3. TickType'
    BY <1>2, SchedulerAssumption DEF TickClaim, TickClaimLost, SetTick, TickType, TickPc
  <2> QED BY <1>2, <2>1, <2>2, <2>3 DEF TickClaim, TickClaimLost, StoreType, ChanType,
              WorkType, HttpType, HistoryType, history
<1>3. CASE TickPush
  <2>1. PICK t \in tick.jobs :
          /\ chan' = IF Len(chan) < QueueCapacity THEN Append(chan, t) ELSE chan
          /\ SetTick(IF tick.jobs = {t} THEN "wait" ELSE "push", 0, tick.jobs \ {t})
    BY <1>3 DEF TickPush
  <2>2. t \in Task /\ ChanType'
    BY <2>1, SchedulerAssumption DEF ChanType, TickType
  <2>3. TickType'
    BY <2>1, SchedulerAssumption DEF TickType, SetTick, TickPc
  <2> QED BY <1>3, <2>2, <2>3 DEF TickPush, StoreType, WorkType, HttpType,
              HistoryType, history
<1>4. CASE TickExit
  BY <1>4, SchedulerAssumption DEF TickExit, SetTick, TickType, TickPc, StoreType,
     ChanType, WorkType, HttpType, HistoryType, history
<1> QED BY <1>1, <1>2, <1>3, <1>4 DEF TickLoop

\* The two ways an Update of a worker ends: on to the next step with the task
\* still in hand, or idle again, with the task lost or done.
LEMMA CommittedEffect ==
  ASSUME WorkType, NEW w \in Worker, work[w].pc \notin {"range", "exited"},
         NEW next \in {"range", "call", "get"}, Committed(w, next)
  PROVE  /\ WorkType'
         /\ lost' = lost
         /\ \A v \in Worker : v # w => work'[v] = work[v]
         /\ \/ work'[w] = IdleWorker /\ next = "range"
            \/ /\ work'[w].id = work[w].id
               /\ work'[w].pc = "del" /\ work'[w].next = next
            \/ work'[w].id = work[w].id /\ work'[w].pc = next /\ next # "range"
<1>1. PICK t \in Task : t = work[w].id
  BY HoldsTask
<1>2. CASE Cached
  <2>1. PICK pc \in WorkerPc \ {"range", "exited"}, seen \in TaskStatus \cup {"NONE"} :
          pc = "del" /\ seen = "NONE"
    BY DEF WorkerPc
  <2>2. SetWork(w, pc, t, seen, next)
    BY <1>1, <1>2, <2>1 DEF Committed
  <2>3. WorkType' /\ (\A v \in Worker : v # w => work'[v] = work[v])
        /\ work'[w] = [pc |-> pc, id |-> t, seen |-> seen, next |-> next]
    BY <2>2, SetWorkType, ZenonT(30)
  <2> QED BY <1>1, <2>1, <2>3 DEF Committed
<1>3. CASE ~Cached /\ next = "range"
  BY <1>3, EndWorkType DEF Committed
<1>4. CASE ~Cached /\ next # "range"
  <2>1. SetWork(w, next, t, "NONE", "range")
    BY <1>1, <1>4 DEF Committed
  <2>2. next \in WorkerPc \ {"range", "exited"}
    BY <1>4 DEF WorkerPc
  <2>3. WorkType' /\ (\A v \in Worker : v # w => work'[v] = work[v])
        /\ work'[w] = [pc |-> next, id |-> t, seen |-> "NONE", next |-> "range"]
    BY <2>1, <2>2, SetWorkType
  <2> QED BY <1>1, <1>4, <2>3 DEF Committed
<1> QED BY <1>2, <1>3, <1>4

LEMMA UpdateFailedEffect ==
  ASSUME WorkType, lost \subseteq Task, NEW w \in Worker,
         work[w].pc \notin {"range", "exited"}, UpdateFailed(w)
  PROVE  /\ WorkType'
         /\ lost' = lost \cup {work[w].id}
         /\ lost' \subseteq Task
         /\ work'[w] = IdleWorker
         /\ \A v \in Worker : v # w => work'[v] = work[v]
BY HoldsTask, EndWorkType DEF UpdateFailed

\* What each of the three Updates of a worker writes.
LEMMA WorkerUpdateEffect ==
  ASSUME TypeOK, NEW w \in Worker, Start(w) \/ Complete(w) \/ HandleFailure(w)
  PROVE  \E t \in Task, row \in Row :
           /\ t = work[w].id
           /\ tasks' = tasks \/ tasks' = [tasks EXCEPT ![t] = row]
           /\ \/ Start(w) /\ row.status = "PROCESSING"
              \/ Complete(w) /\ row.status = "COMPLETED"
              \/ HandleFailure(w) /\ row.status \in {"PENDING", "FAILED"}
           /\ \/ \E next \in {"range", "call", "get"} :
                   /\ Committed(w, next)
                   /\ tasks' = [tasks EXCEPT ![t] = row]
                   /\ Start(w) => next = "call"
                   /\ ~Start(w) => next # "call"
              \/ UpdateFailed(w)
<1>1. PICK t \in Task : t = work[w].id
  BY HoldsTask DEF TypeOK, Start, Complete, HandleFailure
<1>2. tasks[t] \in Row /\ tasks \in [Task -> Row]
  BY DEF TypeOK, StoreType
<1>3. CASE Start(w)
  <2>1. PICK row \in Row : row = [tasks[t] EXCEPT !.status = "PROCESSING"]
    BY <1>2 DEF Row, TaskStatus
  <2>2. row.status = "PROCESSING"
    BY <1>2, <2>1 DEF Row
  <2>3. SetStatus(t, "PROCESSING") => tasks' = [tasks EXCEPT ![t] = row]
    BY <1>2, <2>1 DEF SetStatus
  <2> QED BY <1>1, <1>3, <2>2, <2>3 DEF Start
<1>4. CASE Complete(w)
  <2>1. PICK row \in Row : row = [tasks[t] EXCEPT !.status = "COMPLETED"]
    BY <1>2 DEF Row, TaskStatus
  <2>2. row.status = "COMPLETED"
    BY <1>2, <2>1 DEF Row
  <2>3. SetStatus(t, "COMPLETED") => tasks' = [tasks EXCEPT ![t] = row]
    BY <1>2, <2>1 DEF SetStatus
  <2>4. ~Start(w)
    BY <1>4 DEF Start, Complete
  <2> QED BY <1>1, <1>4, <2>2, <2>3, <2>4 DEF Complete
<1>5. CASE HandleFailure(w)
  <2>1. PICK row \in Row : row = Failed(tasks[t])
    BY <1>2, FailedType
  <2>2. row.status \in {"PENDING", "FAILED"}
    BY <1>2, <2>1, FailedType
  <2>3. ~Start(w)
    BY <1>5 DEF Start, HandleFailure
  <2> QED BY <1>1, <1>5, <2>1, <2>2, <2>3 DEF HandleFailure, SetRow
<1> QED BY <1>3, <1>4, <1>5

\* Get's verdict leaves the worker idle or about to archive.
LEMMA InspectEffect ==
  ASSUME WorkType, NEW w \in Worker, work[w].pc \in {"get", "fill"},
         NEW seen \in TaskStatus \cup {"NONE"}, Inspect(w, seen)
  PROVE  /\ WorkType'
         /\ \A v \in Worker : v # w => work'[v] = work[v]
         /\ work'[w].pc \in {"range", "archive"}
<1>1. PICK t \in Task : t = work[w].id
  BY HoldsTask
<1>2. CASE seen = "FAILED"
  <2>1. SetWork(w, "archive", t, seen, "range")
    BY <1>1, <1>2 DEF Inspect
  <2>2. WorkType' /\ (\A v \in Worker : v # w => work'[v] = work[v])
        /\ work'[w] = [pc |-> "archive", id |-> t, seen |-> seen, next |-> "range"]
    <3>1. "archive" \in WorkerPc \ {"range", "exited"}
      BY DEF WorkerPc
    <3> QED BY <2>1, <3>1, SetWorkType
  <2> QED BY <2>2
<1>3. CASE seen # "FAILED"
  BY <1>3, EndWorkType DEF Inspect, IdleWorker
<1> QED BY <1>2, <1>3

\* The workers keep every type.
LEMMA WorkerType ==
  ASSUME TypeOK, NEW w \in Worker, WorkerStep(w)
  PROVE  TypeOK'
<1> USE DEF TypeOK
<1>1. CASE Take(w)
  <2>1. PICK t \in Task : t = Head(chan)
    BY <1>1 DEF Take, ChanType
  <2>2. WorkType'
    BY <1>1, <2>1, SetWorkType DEF Take, WorkerPc
  <2>3. ChanType'
    BY <1>1, SchedulerAssumption DEF Take, ChanType
  <2> QED BY <1>1, <2>2, <2>3 DEF Take, StoreType, TickType, HttpType, HistoryType, history
<1>2. CASE WorkerExit(w)
  <2>1. WorkType'
    BY <1>2 DEF WorkerExit, WorkType, IdleWorker, WorkerPc
  <2> QED BY <1>2, <2>1 DEF WorkerExit, StoreType, ChanType, TickType, HttpType,
              HistoryType, history
<1>3. CASE Start(w) \/ Complete(w) \/ HandleFailure(w)
  <2>1. PICK t \in Task, row \in Row :
          tasks' = tasks \/ tasks' = [tasks EXCEPT ![t] = row]
    BY <1>3, WorkerUpdateEffect
  <2>2. PICK next \in {"range", "call", "get"} : Committed(w, next) \/ UpdateFailed(w)
    BY <1>3, WorkerUpdateEffect
  <2>3. work[w].pc \notin {"range", "exited"}
    BY <1>3 DEF Start, Complete, HandleFailure
  <2>4. WorkType' /\ lost' \subseteq Task
    BY <2>2, <2>3, CommittedEffect, UpdateFailedEffect DEF HistoryType
  <2>5. tasks' \in [Task -> Row]
    BY <2>1 DEF StoreType
  <2>6. UNCHANGED <<archive, cache, phase, chan, tick, http, history>>
    BY <1>3 DEF Start, Complete, HandleFailure
  <2> QED BY <2>4, <2>5, <2>6 DEF StoreType, ChanType, TickType, HttpType, HistoryType, history
<1>4. CASE ExecuteCallback(w)
  <2>1. PICK t \in Task : t = work[w].id
    BY <1>4, HoldsTask DEF ExecuteCallback
  <2>2. WorkType'
    BY <1>4, <2>1, SetWorkType DEF ExecuteCallback, WorkerPc
  <2>3. calls' \in [Task -> Nat]
    BY <1>4, <2>1 DEF ExecuteCallback, HistoryType
  <2> QED BY <1>4, <2>2, <2>3 DEF ExecuteCallback, StoreType, ChanType, TickType,
              HttpType, HistoryType
<1>5. CASE WorkerDel(w)
  <2>1. PICK t \in Task, next \in {"range", "call", "get"} :
          t = work[w].id /\ next = work[w].next
    BY <1>5, HoldsTask DEF WorkerDel, WorkType
  <2>2. WorkType'
    <3>1. CASE next = "range"
      BY <1>5, <2>1, <3>1, EndWorkType DEF WorkerDel
    <3>2. CASE next # "range"
      <4>1. SetWork(w, next, t, "NONE", "range") /\ next \in WorkerPc \ {"range", "exited"}
        BY <1>5, <2>1, <3>2 DEF WorkerDel, WorkerPc
      <4> QED BY <4>1, SetWorkType
    <3> QED BY <3>1, <3>2
  <2>3. cache' \in [Task -> TaskStatus \cup {"NONE"}]
    BY <1>5, CacheSetType DEF WorkerDel, StoreType
  <2> QED BY <1>5, <2>2, <2>3 DEF WorkerDel, StoreType, ChanType, TickType, HttpType,
              HistoryType, history
<1>6. CASE FetchCached(w)
  <2>1. PICK seen \in TaskStatus \cup {"NONE"} : seen = cache[work[w].id]
    BY <1>6, HoldsTask DEF FetchCached, StoreType
  <2>2. WorkType'
    BY <1>6, <2>1, InspectEffect DEF FetchCached
  <2> QED BY <1>6, <2>2 DEF FetchCached, StoreType, ChanType, TickType, HttpType,
              HistoryType, history
<1>7. CASE FetchRow(w)
  <2>1. PICK t \in Task : t = work[w].id
    BY <1>7, HoldsTask DEF FetchRow
  <2>2. PICK seen \in TaskStatus \cup {"NONE"} : seen = tasks[t].status
    BY DEF StoreType, Row
  <2>3. WorkType' /\ lost' \subseteq Task
    <3>1. CASE SetWork(w, "fill", t, seen, "range") /\ UNCHANGED lost
      BY <3>1, SetWorkType DEF WorkerPc, HistoryType
    <3>2. CASE Inspect(w, seen) /\ UNCHANGED lost
      BY <1>7, <3>2, InspectEffect DEF FetchRow, HistoryType
    <3>3. CASE UpdateFailed(w)
      BY <1>7, <3>3, UpdateFailedEffect DEF FetchRow, HistoryType
    <3> QED BY <1>7, <2>1, <2>2, <3>1, <3>2, <3>3 DEF FetchRow
  <2> QED BY <1>7, <2>3 DEF FetchRow, StoreType, ChanType, TickType, HttpType,
              HistoryType, history
<1>8. CASE FetchFill(w)
  <2>1. PICK seen \in TaskStatus \cup {"NONE"} : seen = work[w].seen
    BY DEF WorkType
  <2>2. WorkType' /\ cache' \in [Task -> TaskStatus \cup {"NONE"}]
    BY <1>8, <2>1, InspectEffect, CacheSetType DEF FetchFill, StoreType
  <2> QED BY <1>8, <2>2 DEF FetchFill, StoreType, ChanType, TickType, HttpType,
              HistoryType, history
<1>9. CASE Archive(w)
  <2>1. work[w].id \in Task
    BY <1>9, HoldsTask DEF Archive
  <2>2. WorkType' /\ lost' \subseteq Task
    BY <1>9, EndWorkType, UpdateFailedEffect DEF Archive, HistoryType
  <2> QED BY <1>9, <2>1, <2>2 DEF Archive, StoreType, ChanType, TickType, HttpType,
              HistoryType, history
<1> QED BY <1>1, <1>2, <1>3, <1>4, <1>5, <1>6, <1>7, <1>8, <1>9 DEF WorkerStep

\* The end of a process keeps every type.
LEMMA StopProcessType == TypeOK /\ StopProcess => TypeOK'
<1> SUFFICES ASSUME TypeOK, StopProcess PROVE TypeOK'
  OBVIOUS
<1> USE DEF TypeOK, StopProcess
<1>1. WorkType' /\ HttpType'
  BY DEF WorkType, HttpType, IdleWorker, IdleHttp, WorkerPc, HttpPc
<1>2. TickType' /\ ChanType' /\ phase' \in Phase
  BY SchedulerAssumption DEF TickType, ChanType, IdleTick, TickPc, Phase
<1>3. \A w \in Worker : work[w].id # NoTask => work[w].id \in Task
  BY DEF WorkType
<1>4. \A i \in 1 .. Len(chan) : chan[i] \in Task
  BY DEF ChanType
<1>5. lost' \subseteq Task
  BY <1>3, <1>4 DEF HistoryType, TickType
<1> QED BY <1>1, <1>2, <1>5 DEF StoreType, HistoryType, history

\* So does the rest of the life cycle.
LEMMA LifecycleType == TypeOK /\ Lifecycle => TypeOK'
<1> SUFFICES ASSUME TypeOK, Lifecycle PROVE TypeOK'
  OBVIOUS
<1>1. CASE Signal \/ Stop
  BY <1>1 DEF Signal, Stop, TypeOK, Phase, StoreType, ChanType, TickType, WorkType,
     HttpType, HistoryType, history
<1>2. CASE Restart
  <2>1. tasks' \in [Task -> Row]
    <3>1. Recovered \in [Task -> Row]
      BY DEF Recovered, TypeOK, StoreType, Row, TaskStatus
    <3>2. CASE tasks' = [t \in Task |-> NoRow]
      <4>1. NoRow \in Row
        BY DEF NoRow, Row
      <4> QED BY <3>2, <4>1
    <3>3. CASE tasks' \in {Recovered, tasks}
      BY <3>1, <3>3 DEF TypeOK, StoreType
    <3> QED BY <1>2, <3>2, <3>3 DEF Restart
  <2> QED BY <1>2, <2>1 DEF Restart, TypeOK, Phase, StoreType, ChanType, TickType,
              WorkType, HttpType, HistoryType
<1> QED BY <1>1, <1>2, StopProcessType DEF Lifecycle, Exit, Panic, Crash

LEMMA TimePassesType ==
  ASSUME TypeOK, NEW t \in Task, TimePasses(t)
  PROVE  TypeOK' /\ \A x \in Task : tasks'[x].status = tasks[x].status
<1>1. /\ tasks' \in [Task -> Row]
      /\ \A x \in Task : tasks'[x].status = tasks[x].status
  BY DEF TypeOK, StoreType, TimePasses, Row
<1> QED BY <1>1 DEF TimePasses, TypeOK, StoreType, ChanType, TickType, WorkType,
            HttpType, HistoryType, history

LEMMA InitType == Init => TypeOK
BY SchedulerAssumption DEF Init, TypeOK, StoreType, ChanType, TickType, WorkType,
   HttpType, HistoryType, NoRow, Row, Phase, IdleTick, TickPc, IdleWorker, WorkerPc,
   IdleHttp, HttpPc

LEMMA NextType == TypeOK /\ [Next]_vars => TypeOK'
<1> SUFFICES ASSUME TypeOK, [Next]_vars PROVE TypeOK'
  OBVIOUS
<1>1. CASE Next
  BY <1>1, HandlerType, TickLoopType, WorkerType, LifecycleType, TimePassesType DEF Next
<1>2. CASE UNCHANGED vars
  BY <1>2 DEF vars, TypeOK, StoreType, ChanType, TickType, WorkType, HttpType, HistoryType
<1> QED BY <1>1, <1>2

\* Type correctness of the Task Scheduler, for any number of tasks, workers
\* and handlers, any capacity and retry limit, with or without Redis.
THEOREM TypeCorrect == Spec => []TypeOK
<1> QED BY InitType, NextType, PTL DEF Spec

-----------------------------------------------------------------------------
(* Back-pressure                                                           *)

\* ClaimedTasksFit is not inductive: the capacity that tickLoop read must
\* still be there when it claims.
FitInv ==
  /\ ClaimedTasksFit
  /\ tick.pc = "claim" => tick.room + Len(chan) <= QueueCapacity

LEMMA FitStep == TypeOK /\ FitInv /\ [Next]_vars => FitInv'
<1> SUFFICES ASSUME TypeOK, FitInv, [Next]_vars PROVE FitInv'
  OBVIOUS
<1>0. /\ ChanType /\ TickType /\ WorkType /\ Len(chan) \in Nat
      /\ tick.jobs \subseteq Task /\ tick.room \in Nat
      /\ IsFiniteSet(tick.jobs) /\ Cardinality(tick.jobs) \in Nat
  BY SchedulerAssumption, FS_Subset, FS_CardinalityType DEF TypeOK, ChanType, TickType
\* Everything but tickLoop leaves it alone and only shortens the channel.
<1>1. ASSUME tick' = tick \/ tick' = IdleTick, Len(chan') \in Nat, Len(chan') <= Len(chan)
      PROVE  FitInv'
  BY <1>0, <1>1, SchedulerAssumption DEF FitInv, ClaimedTasksFit, IdleTick
<1>2. CASE TickRead
  BY <1>0, <1>2, SchedulerAssumption DEF TickRead, SetTick, FitInv, ClaimedTasksFit
<1>3. CASE TickClaim
  <2>1. PICK S \in SUBSET Task :
          /\ Cardinality(S) <= tick.room
          /\ SetTick(IF S = {} THEN "wait" ELSE "push", 0, S)
    BY <1>3 DEF TickClaim, Claimable
  <2>2. Cardinality(S) \in Nat
    BY SchedulerAssumption, FS_Subset, FS_CardinalityType
  <2> QED BY <1>0, <1>3, <2>1, <2>2, SchedulerAssumption
             DEF TickClaim, SetTick, FitInv, ClaimedTasksFit
<1>4. CASE TickPush
  <2>1. PICK t \in tick.jobs :
          /\ chan' = IF Len(chan) < QueueCapacity THEN Append(chan, t) ELSE chan
          /\ SetTick(IF tick.jobs = {t} THEN "wait" ELSE "push", 0, tick.jobs \ {t})
    BY <1>4 DEF TickPush
  <2>2. PICK T : T = tick.jobs \ {t}
    OBVIOUS
  <2>3. Cardinality(T) = Cardinality(tick.jobs) - 1
    BY <1>0, <2>1, <2>2, FS_RemoveElement
  <2>4. Len(chan') <= Len(chan) + 1 /\ Len(chan') \in Nat
    BY <1>0, <2>1 DEF ChanType
  <2>5. tick'.jobs = T /\ tick'.pc \in {"wait", "push"}
    BY <2>1, <2>2 DEF SetTick
  <2> QED BY <1>0, <1>4, <2>3, <2>4, <2>5, SchedulerAssumption
             DEF TickPush, FitInv, ClaimedTasksFit
<1>5. CASE TickClaimLost \/ TickExit
  BY <1>5 DEF TickClaimLost, TickExit, SetTick, FitInv, ClaimedTasksFit
<1>6. ASSUME NEW w \in Worker, WorkerStep(w) PROVE FitInv'
  <2>1. CASE Take(w)
    <3>1. Len(chan') \in Nat /\ Len(chan') <= Len(chan)
      BY <1>0, <2>1 DEF Take, ChanType
    <3> QED BY <1>1, <2>1, <3>1 DEF Take
  <2>2. CASE UNCHANGED <<chan, tick>>
    BY <1>0, <1>1, <2>2
  <2> QED BY <1>6, <2>1, <2>2 DEF WorkerStep, WorkerExit, Start, ExecuteCallback,
             Complete, HandleFailure, WorkerDel, FetchCached, FetchRow, FetchFill, Archive
<1>7. CASE StopProcess
  BY <1>0, <1>1, <1>7 DEF StopProcess
<1>8. CASE UNCHANGED <<chan, tick>>
  BY <1>0, <1>1, <1>8
<1>9. Handler => UNCHANGED <<chan, tick>>
  BY DEF Handler, CreateTask, CacheExpires, GetTask, UpdateTask, GetTaskFill, UpdateTaskDel
<1>10. Lifecycle => StopProcess \/ UNCHANGED <<chan, tick>>
  BY DEF Lifecycle, Signal, Stop, Exit, Panic, Crash, Restart
<1>11. ASSUME NEW t \in Task, TimePasses(t) PROVE UNCHANGED <<chan, tick>>
  BY <1>11 DEF TimePasses
<1>12. UNCHANGED vars => UNCHANGED <<chan, tick>>
  BY DEF vars
<1> QED BY <1>2, <1>3, <1>4, <1>5, <1>6, <1>7, <1>8, <1>9, <1>10, <1>11, <1>12
           DEF Next, TickLoop

\* tickLoop never meets a full channel with a task it has claimed, whatever
\* the capacity, the number of workers and their speed: the default branch
\* that logs "Task channel saturated" and forgets the task is dead code.
THEOREM ClaimedTasksAlwaysFit == Spec => []ClaimedTasksFit
<1>1. Init => FitInv
  BY DEF Init, IdleTick, FitInv, ClaimedTasksFit
<1>2. FitInv => ClaimedTasksFit
  BY DEF FitInv
<1> QED BY <1>1, <1>2, FitStep, TypeCorrect, PTL DEF Spec

-----------------------------------------------------------------------------
(* Held tasks                                                              *)

\* A row that is under way must be held; a step that leaves the status of a
\* held row alone and keeps holding it, or loses it, keeps the invariant.
UnderWay(t) == tasks[t].status \in {"QUEUED", "PROCESSING"}
Safe(t) == Held(t) \/ t \in lost

\* Sending appends: what was in the channel stays.
LEMMA PushHolds ==
  ASSUME TypeOK, NEW t \in Task, chan' = Append(chan, t)
  PROVE  InChan(t)' /\ \A x \in Task : InChan(x) => InChan(x)'
<1>1. /\ chan \in Seq(Task) /\ Len(chan') = Len(chan) + 1 /\ Len(chan) \in Nat
      /\ chan'[Len(chan')] = t
      /\ \A i \in 1 .. Len(chan) : chan'[i] = chan[i]
  BY DEF TypeOK, ChanType
<1>2. Len(chan') \in 1 .. Len(chan') /\ \A i \in 1 .. Len(chan) : i \in 1 .. Len(chan')
  BY <1>1
<1> QED BY <1>1, <1>2 DEF InChan

\* Receiving takes the head into the worker; the rest stays in the channel.
LEMMA TakeHolds ==
  ASSUME TypeOK, NEW w \in Worker, Take(w), NEW x \in Task, Held(x)
  PROVE  Held(x)'
<1>1. PICK h \in Task : h = Head(chan) /\ h = chan[1]
  BY DEF Take, TypeOK, ChanType
<1>2. /\ work'[w].id = h /\ work'[w].pc = "start"
      /\ \A v \in Worker : v # w => work'[v] = work[v]
  BY <1>1 DEF Take, SetWork, TypeOK, WorkType
<1>3. x = h => InWork(x)'
  BY <1>2 DEF InWork
<1>4. InChan(x) /\ x # h => InChan(x)'
  <2> SUFFICES ASSUME NEW i \in 1 .. Len(chan), chan[i] = x, x # h PROVE InChan(x)'
    BY DEF InChan
  <2>1. chan' = Tail(chan) /\ chan \in Seq(Task) /\ chan # <<>> /\ Len(chan) \in Nat
    BY DEF Take, TypeOK, ChanType
  <2>2. i # 1 /\ i - 1 \in 1 .. Len(chan')
    BY <1>1, <2>1
  <2>3. chan'[i - 1] = x
    BY <2>1, <2>2
  <2> QED BY <2>2, <2>3 DEF InChan
<1>5. InWork(x) => InWork(x)'
  BY <1>2 DEF InWork, Take
<1> QED BY <1>3, <1>4, <1>5 DEF Held, Take

\* A step of worker w keeps what the others hold.
LEMMA OthersHold ==
  ASSUME NEW w \in Worker, \A v \in Worker : v # w => work'[v] = work[v],
         UNCHANGED <<chan, tick>>, NEW x \in Task, Held(x), work[w].id # x
  PROVE  Held(x)'
BY DEF Held, InChan, InWork

\* The workers: a task leaves their hands finished, failed or lost.
LEMMA WorkerHolds ==
  ASSUME TypeOK, QueuedIsHeld, NEW w \in Worker, WorkerStep(w), NEW x \in Task,
         UnderWay(x)'
  PROVE  Safe(x)'
<1> USE DEF QueuedIsHeld, UnderWay, Safe
<1>1. CASE Take(w)
  <2>1. UnderWay(x) /\ lost' = lost
    BY <1>1 DEF Take
  <2> QED BY <1>1, <2>1, TakeHolds
<1>2. CASE Start(w) \/ Complete(w) \/ HandleFailure(w)
  <2>1. PICK t \in Task, row \in Row :
           /\ t = work[w].id
           /\ tasks' = tasks \/ tasks' = [tasks EXCEPT ![t] = row]
           /\ \/ Start(w) /\ row.status = "PROCESSING"
              \/ Complete(w) /\ row.status = "COMPLETED"
              \/ HandleFailure(w) /\ row.status \in {"PENDING", "FAILED"}
           /\ \/ \E next \in {"range", "call", "get"} :
                   /\ Committed(w, next)
                   /\ tasks' = [tasks EXCEPT ![t] = row]
                   /\ Start(w) => next = "call"
                   /\ ~Start(w) => next # "call"
              \/ UpdateFailed(w)
    BY <1>2, WorkerUpdateEffect
  <2>2. /\ UNCHANGED <<chan, tick>> /\ work[w].pc \notin {"range", "exited"}
        /\ WorkType /\ lost \subseteq Task /\ tasks \in [Task -> Row]
    BY <1>2 DEF Start, Complete, HandleFailure, TypeOK, HistoryType, StoreType
  <2>3. CASE UpdateFailed(w)
    <3>1. lost' = lost \cup {t} /\ \A v \in Worker : v # w => work'[v] = work[v]
      BY <2>1, <2>2, <2>3, UpdateFailedEffect
    <3>2. x # t => tasks'[x] = tasks[x]
      BY <2>1, <2>2
    <3> QED BY <2>1, <2>2, <3>1, <3>2, OthersHold
  <2>4. CASE ~UpdateFailed(w)
    <3>1. PICK next \in {"range", "call", "get"} :
            /\ Committed(w, next)
            /\ tasks' = [tasks EXCEPT ![t] = row]
            /\ Start(w) => next = "call"
      BY <2>1, <2>4
    <3>2. /\ lost' = lost /\ \A v \in Worker : v # w => work'[v] = work[v]
          /\ \/ work'[w] = IdleWorker /\ next = "range"
             \/ /\ work'[w].id = t
                /\ work'[w].pc = "del" /\ work'[w].next = next
             \/ work'[w].id = t /\ work'[w].pc = next /\ next # "range"
      BY <2>1, <2>2, <3>1, CommittedEffect
    <3>3. CASE x = t
      <4>1. tasks'[x].status = row.status
        BY <2>2, <3>1, <3>3
      <4>2. Start(w) /\ next = "call"
        BY <2>1, <3>1, <4>1
      <4>3. InWork(x)'
        BY <3>2, <3>3, <4>2 DEF InWork
      <4> QED BY <4>3 DEF Held
    <3>4. CASE x # t
      <4>1. tasks'[x] = tasks[x]
        BY <2>2, <3>1, <3>4
      <4> QED BY <2>1, <2>2, <3>2, <3>4, <4>1, OthersHold
    <3> QED BY <3>3, <3>4
  <2> QED BY <2>3, <2>4
<1>3. CASE ExecuteCallback(w)
  <2>1. /\ work'[w].id = work[w].id /\ work'[w].pc \in {"done", "fail"}
        /\ \A v \in Worker : v # w => work'[v] = work[v]
    BY <1>3 DEF ExecuteCallback, SetWork, TypeOK, WorkType
  <2>2. Held(x) /\ work[w].id = x => InWork(x)'
    BY <2>1 DEF InWork
  <2>3. UNCHANGED <<tasks, lost, chan, tick>>
    BY <1>3 DEF ExecuteCallback
  <2> QED BY <2>1, <2>2, <2>3, OthersHold DEF Held
<1>4. CASE WorkerDel(w)
  <2>1. PICK next \in {"range", "call", "get"} : next = work[w].next
    BY DEF TypeOK, WorkType
  <2>2. /\ \A v \in Worker : v # w => work'[v] = work[v]
        /\ next = "call" => work'[w].id = work[w].id /\ work'[w].pc = "call"
    BY <1>4, <2>1 DEF WorkerDel, EndWork, SetWork, TypeOK, WorkType
  <2>3. UNCHANGED <<tasks, lost, chan, tick>> /\ work[w].pc = "del"
    BY <1>4 DEF WorkerDel
  <2>4. InWork(x) => InWork(x)'
    BY <2>1, <2>2, <2>3 DEF InWork
  <2> QED BY <2>3, <2>4 DEF Held, InChan
<1>5. CASE \/ WorkerExit(w) \/ FetchCached(w) \/ FetchRow(w) \/ FetchFill(w) \/ Archive(w)
  <2>1. /\ \A v \in Worker : v # w => work'[v] = work[v]
        /\ UNCHANGED <<tasks, chan, tick>> /\ lost \subseteq lost'
    BY <1>5 DEF WorkerExit, FetchCached, FetchRow, FetchFill, Archive, Inspect, EndWork,
       SetWork, UpdateFailed, TypeOK, WorkType
  <2>2. work[w].pc \in {"range", "get", "fill", "archive"}
    BY <1>5 DEF WorkerExit, FetchCached, FetchRow, FetchFill, Archive
  <2>3. InWork(x) => InWork(x)'
    BY <2>1, <2>2 DEF InWork
  <2> QED BY <2>1, <2>3 DEF Held, InChan
<1> QED BY <1>1, <1>2, <1>3, <1>4, <1>5 DEF WorkerStep

\* tickLoop: a task it marks QUEUED is in its hands, and then in the channel,
\* because there is room for it.
LEMMA TickHolds ==
  ASSUME TypeOK, FitInv, QueuedIsHeld, TickLoop, NEW x \in Task, UnderWay(x)'
  PROVE  Safe(x)'
<1> USE DEF QueuedIsHeld, UnderWay, Safe
<1>1. CASE TickClaim \/ TickClaimLost
  <2>1. PICK S \in SUBSET Task : ClaimRows(S) /\ (tick'.jobs = S \/ lost' = lost \cup S)
    BY <1>1 DEF TickClaim, TickClaimLost, SetTick
  <2>2. CASE x \in S
    BY <2>1, <2>2 DEF Held
  <2>3. CASE x \notin S
    <3>1. tasks'[x] = tasks[x]
      BY <2>1, <2>3 DEF ClaimRows
    <3>2. tick.jobs = {} /\ UNCHANGED <<chan, work>> /\ lost \subseteq lost'
      BY <1>1 DEF TickClaim, TickClaimLost, TypeOK, TickType
    <3> QED BY <3>1, <3>2 DEF Held, InChan, InWork
  <2> QED BY <2>2, <2>3
<1>2. CASE TickPush
  <2>1. PICK t \in tick.jobs :
          /\ chan' = IF Len(chan) < QueueCapacity THEN Append(chan, t) ELSE chan
          /\ SetTick(IF tick.jobs = {t} THEN "wait" ELSE "push", 0, tick.jobs \ {t})
    BY <1>2 DEF TickPush
  <2>2. t \in Task /\ tick.jobs \subseteq Task /\ Len(chan) \in Nat /\ IsFiniteSet(tick.jobs)
    BY <2>1, SchedulerAssumption, FS_Subset DEF TypeOK, TickType, ChanType
  <2>3. Cardinality(tick.jobs) \in Nat /\ Cardinality(tick.jobs) # 0
    BY <2>1, <2>2, FS_EmptySet, FS_CardinalityType
  <2>4. chan' = Append(chan, t)
    BY <1>2, <2>1, <2>2, <2>3, SchedulerAssumption DEF TickPush, FitInv, ClaimedTasksFit
  <2>5. InChan(t)' /\ (InChan(x) => InChan(x)')
    BY <2>2, <2>4, PushHolds
  <2>6. tick'.jobs = tick.jobs \ {t}
    BY <2>1 DEF SetTick
  <2> QED BY <1>2, <2>5, <2>6 DEF TickPush, Held, InWork
<1>3. CASE TickRead \/ TickExit
  <2>1. tick.jobs = {} /\ UNCHANGED <<tasks, chan, work, lost>>
    BY <1>3 DEF TickRead, TickExit, TypeOK, TickType
  <2> QED BY <2>1 DEF Held, InChan, InWork
<1> QED BY <1>1, <1>2, <1>3 DEF TickLoop

\* The end of a process loses exactly what it held.
LEMMA StopProcessHolds ==
  ASSUME TypeOK, StopProcess, NEW x \in Task, Safe(x)
  PROVE  x \in lost'
<1>1. InWork(x) => \E w \in Worker : work[w].id # NoTask /\ work[w].id = x
  BY SchedulerAssumption DEF InWork
<1> QED BY <1>1 DEF StopProcess, Safe, Held, InChan

\* In a running Task Scheduler every QUEUED or PROCESSING task is held by the
\* channel, tickLoop or a worker, or was lost to a failed statement or the end
\* of a process: for any number of tasks, workers and reschedulings.
THEOREM QueuedTasksHeld == Spec => []QueuedIsHeld
<1>1. Init => FitInv /\ QueuedIsHeld
  BY DEF Init, IdleTick, FitInv, ClaimedTasksFit, QueuedIsHeld, NoRow
<1>2. TypeOK /\ FitInv /\ QueuedIsHeld /\ [Next]_vars => QueuedIsHeld'
  <2> SUFFICES ASSUME TypeOK, FitInv, QueuedIsHeld, [Next]_vars, NEW x \in Task, UnderWay(x)'
               PROVE  Safe(x)'
    BY DEF QueuedIsHeld, UnderWay, Safe
  <2>1. UnderWay(x) => Safe(x)
    BY DEF QueuedIsHeld, UnderWay, Safe
  \* Steps that touch neither the places nor, for tasks under way, the table.
  <2>2. CASE UNCHANGED <<chan, tick, work, lost>> /\ UnderWay(x)
    BY <2>1, <2>2 DEF Safe, Held, InChan, InWork
  <2>3. Handler => UNCHANGED <<chan, tick, work, lost>> /\ UnderWay(x)
    <3>1. ASSUME NEW t \in Task, NEW due \in BOOLEAN,
                 SetRow(t, [status |-> "PENDING", retry |-> 0, due |-> due])
          PROVE  UnderWay(x)
      BY <3>1 DEF SetRow, UnderWay, TypeOK, StoreType
    <3>2. ASSUME NEW c \in Client, NEW t \in Task, UpdateTask(c, t)
          PROVE  UNCHANGED <<chan, tick, work, lost>> /\ UnderWay(x)
      <4>1. CASE UNCHANGED tasks
        BY <3>2, <4>1 DEF UpdateTask, UnderWay
      <4>2. CASE ~UNCHANGED tasks
        BY <3>1, <3>2, <4>2 DEF UpdateTask
      <4> QED BY <4>1, <4>2
    <3>3. ASSUME NEW t \in Task, CreateTask(t)
          PROVE  UNCHANGED <<chan, tick, work, lost>> /\ UnderWay(x)
      BY <3>1, <3>3 DEF CreateTask
    <3>4. ASSUME NEW t \in Task, CacheExpires(t)
          PROVE  UNCHANGED <<chan, tick, work, lost>> /\ UnderWay(x)
      BY <3>4 DEF CacheExpires, UnderWay
    <3>5. ASSUME NEW c \in Client, GetTaskFill(c) \/ UpdateTaskDel(c)
                                   \/ \E t \in Task : GetTask(c, t)
          PROVE  UNCHANGED <<chan, tick, work, lost>> /\ UnderWay(x)
      BY <3>5 DEF GetTaskFill, UpdateTaskDel, GetTask, UnderWay
    <3> QED BY <3>2, <3>3, <3>4, <3>5 DEF Handler
  <2>4. ASSUME NEW t \in Task, TimePasses(t)
        PROVE  UNCHANGED <<chan, tick, work, lost>> /\ UnderWay(x)
    BY <2>4, TimePassesType DEF TimePasses, UnderWay
  <2>5. CASE StopProcess
    <3>1. UnderWay(x)
      BY <2>5 DEF StopProcess, UnderWay
    <3> QED BY <2>1, <2>5, <3>1, StopProcessHolds DEF Safe
  <2>6. CASE Signal \/ Stop \/ Restart
    <3>1. UnderWay(x)
      BY <2>6 DEF Signal, Stop, Restart, UnderWay, Recovered, NoRow, TypeOK, StoreType, Row
    <3>2. tasks' # [t \in Task |-> NoRow]
      BY DEF UnderWay, NoRow
    <3>3. UNCHANGED <<chan, tick, work, lost>>
      BY <2>6, <3>2 DEF Signal, Stop, Restart
    <3> QED BY <2>2, <3>1, <3>3
  <2>7. CASE Lifecycle
    BY <2>5, <2>6, <2>7 DEF Lifecycle, Exit, Panic, Crash
  <2>8. CASE UNCHANGED vars
    BY <2>2, <2>8 DEF vars, UnderWay
  <2> QED BY <2>2, <2>3, <2>4, <2>7, <2>8, WorkerHolds, TickHolds DEF Next
<1> QED BY <1>1, <1>2, FitStep, TypeCorrect, PTL DEF Spec

-----------------------------------------------------------------------------
(* One holder at a time                                                    *)

\* A worker that InWork counts.
Holding(w) ==
  \/ work[w].pc \in {"start", "call", "done", "fail"}
  \/ work[w].pc = "del" /\ work[w].next = "call"

\* Channel, tickLoop and workers hold x at most once between them.
Single(x) ==
  /\ \A i, j \in 1 .. Len(chan) : chan[i] = x /\ chan[j] = x => i = j
  /\ InChan(x) => x \notin tick.jobs /\ ~InWork(x)
  /\ x \in tick.jobs => ~InWork(x)
  /\ \A v, w \in Worker :
       Holding(v) /\ Holding(w) /\ work[v].id = x /\ work[w].id = x => v = w

\* What is held is under way and due: only PENDING tasks are claimed, so it is
\* not claimed again.
HeldIsDue(x) == Held(x) => UnderWay(x) /\ tasks[x].due

\* Nothing is left of a process that has ended.
DownIsEmpty ==
  phase = "down" => /\ chan = <<>> /\ tick = IdleTick
                    /\ \A w \in Worker : work[w] = IdleWorker

\* The invariant, task by task: a rescheduled task may be held twice, because
\* UpdateTask makes it PENDING whatever is going on.
Once(x) == moves[x] = 0 => Single(x) /\ HeldIsDue(x)

OnceInv == DownIsEmpty /\ \A x \in Task : Once(x)

\* Where nothing is held there is nothing to prove.
LEMMA NothingHeld ==
  ASSUME chan = <<>>, tick.jobs = {}, \A w \in Worker : work[w] = IdleWorker, NEW x \in Task
  PROVE  Single(x) /\ ~Held(x)
<1>1. \A w \in Worker : ~Holding(w)
  BY DEF Holding, IdleWorker
<1>2. ~InWork(x)
  BY <1>1 DEF InWork, Holding
<1>3. Len(chan) = 0 /\ 1 .. Len(chan) = {}
  OBVIOUS
<1>4. ~InChan(x)
  BY <1>3 DEF InChan
<1> QED BY <1>1, <1>2, <1>3, <1>4 DEF Single, Held

\* Nor where a step leaves nothing.
LEMMA NothingHeldNext ==
  ASSUME chan' = <<>>, tick'.jobs = {}, \A w \in Worker : work'[w] = IdleWorker, NEW x \in Task
  PROVE  Single(x)' /\ ~Held(x)'
<1>1. \A w \in Worker : ~Holding(w)'
  BY DEF Holding, IdleWorker
<1>2. ~InWork(x)'
  BY <1>1 DEF InWork, Holding
<1>3. Len(chan') = 0 /\ 1 .. Len(chan') = {}
  OBVIOUS
<1>4. ~InChan(x)'
  BY <1>3 DEF InChan
<1> QED BY <1>1, <1>2, <1>3, <1>4 DEF Single, Held

\* A step that leaves all holders alone.
LEMMA SameHolders ==
  ASSUME UNCHANGED <<chan, tick, work>>, NEW x
  PROVE  /\ Single(x)' = Single(x)
         /\ Held(x)' = Held(x)
BY DEF Single, Held, InChan, InWork, Holding

\* SetStatus changes the status and nothing else.
LEMMA SetStatusEffect ==
  ASSUME tasks \in [Task -> Row], NEW t \in Task, NEW st, SetStatus(t, st)
  PROVE  /\ tasks'[t].status = st
         /\ tasks'[t].due = tasks[t].due
         /\ tasks'[t].retry = tasks[t].retry
         /\ \A x \in Task : x # t => tasks'[x] = tasks[x]
<1>1. PICK row \in Row : row = tasks[t]
  OBVIOUS
<1>2. tasks' = [tasks EXCEPT ![t] = [row EXCEPT !.status = st]]
  BY <1>1 DEF SetStatus
<1>3. /\ [row EXCEPT !.status = st].status = st
      /\ [row EXCEPT !.status = st].due = row.due
      /\ [row EXCEPT !.status = st].retry = row.retry
  BY DEF Row
<1>4. tasks'[t] = [row EXCEPT !.status = st] /\ \A x \in Task : x # t => tasks'[x] = tasks[x]
  BY <1>2
<1> QED BY <1>1, <1>3, <1>4

\* A step of a worker that does not receive: it goes on with the task it holds
\* or lets go of it; of the table it writes at most its task's row, and the row
\* of a task it keeps only to make it PROCESSING.
LEMMA WorkerShape ==
  ASSUME TypeOK, NEW w \in Worker, WorkerStep(w), ~Take(w)
  PROVE  /\ \A v \in Worker : v # w => work'[v] = work[v]
         /\ UNCHANGED <<chan, tick, phase, moves>>
         /\ Holding(w)' => Holding(w) /\ work'[w].id = work[w].id
         /\ \A x \in Task : x # work[w].id \/ ~Holding(w) => tasks'[x] = tasks[x]
         /\ Holding(w)' => \/ UNCHANGED tasks
                           \/ /\ tasks'[work[w].id].status = "PROCESSING"
                              /\ tasks'[work[w].id].due = tasks[work[w].id].due
<1>0. tasks \in [Task -> Row] /\ WorkType /\ lost \subseteq Task
  BY DEF TypeOK, StoreType, HistoryType
<1>1. CASE Start(w)
  <2>1. PICK t \in Task : t = work[w].id
    BY <1>0, <1>1, HoldsTask DEF Start
  <2>2. work[w].pc = "start" /\ UNCHANGED <<chan, tick, phase, moves>> /\ Holding(w)
    BY <1>1 DEF Start, history, Holding
  <2>3. CASE UpdateFailed(w)
    <3>1. ~Holding(w)' /\ \A v \in Worker : v # w => work'[v] = work[v]
      BY <1>0, <2>2, <2>3, UpdateFailedEffect DEF Holding, IdleWorker
    <3>2. \A x \in Task : x # t => tasks'[x] = tasks[x]
      BY <1>0, <1>1, <2>1, SetStatusEffect DEF Start
    <3> QED BY <2>1, <2>2, <3>1, <3>2
  <2>4. CASE SetStatus(t, "PROCESSING") /\ Committed(w, "call")
    <3>1. work'[w].id = work[w].id /\ \A v \in Worker : v # w => work'[v] = work[v]
      BY <1>0, <2>2, <2>4, CommittedEffect
    <3>2. /\ tasks'[t].status = "PROCESSING" /\ tasks'[t].due = tasks[t].due
          /\ \A x \in Task : x # t => tasks'[x] = tasks[x]
      BY <1>0, <2>4, SetStatusEffect
    <3> QED BY <2>1, <2>2, <3>1, <3>2
  <2> QED BY <1>1, <2>1, <2>3, <2>4 DEF Start
<1>2. CASE Complete(w) \/ HandleFailure(w)
  <2>1. PICK t \in Task : t = work[w].id
    BY <1>0, <1>2, HoldsTask DEF Complete, HandleFailure
  <2>2. /\ work[w].pc \in {"done", "fail"}
        /\ UNCHANGED <<chan, tick, phase, moves>> /\ Holding(w)
    BY <1>2 DEF Complete, HandleFailure, history, Holding
  <2>3. PICK row : tasks' = tasks \/ tasks' = [tasks EXCEPT ![t] = row]
    BY <1>2, <2>1, WorkerUpdateEffect
  <2>4. UpdateFailed(w) \/ \E next \in {"range", "get"} : Committed(w, next)
    BY <1>2 DEF Complete, HandleFailure
  <2>5. ~Holding(w)' /\ \A v \in Worker : v # w => work'[v] = work[v]
    <3>1. CASE UpdateFailed(w)
      BY <1>0, <2>2, <3>1, UpdateFailedEffect DEF Holding, IdleWorker
    <3>2. ASSUME NEW next \in {"range", "get"}, Committed(w, next)
          PROVE  ~Holding(w)' /\ \A v \in Worker : v # w => work'[v] = work[v]
      BY <1>0, <2>2, <3>2, CommittedEffect DEF Holding, IdleWorker
    <3> QED BY <2>4, <3>1, <3>2
  <2>6. \A x \in Task : x # t => tasks'[x] = tasks[x]
    BY <1>0, <2>3
  <2> QED BY <2>1, <2>2, <2>5, <2>6
<1>3. CASE ExecuteCallback(w)
  BY <1>0, <1>3 DEF ExecuteCallback, SetWork, WorkType, Holding
<1>4. CASE WorkerDel(w)
  <2>1. PICK next \in {"range", "call", "get"} : next = work[w].next
    BY <1>0 DEF WorkType
  <2>2. /\ \A v \in Worker : v # w => work'[v] = work[v]
        /\ next # "range" => work'[w].id = work[w].id /\ work'[w].pc = next
        /\ next = "range" => work'[w] = IdleWorker
    BY <1>0, <1>4, <2>1 DEF WorkerDel, EndWork, SetWork, WorkType
  <2>3. UNCHANGED <<tasks, chan, tick, phase, moves>> /\ work[w].pc = "del"
    BY <1>4 DEF WorkerDel, history
  <2> QED BY <2>1, <2>2, <2>3 DEF Holding, IdleWorker
<1>5. CASE WorkerExit(w) \/ FetchCached(w) \/ FetchRow(w) \/ FetchFill(w) \/ Archive(w)
  <2>1. /\ \A v \in Worker : v # w => work'[v] = work[v]
        /\ UNCHANGED <<tasks, chan, tick, phase, moves>>
    BY <1>5, <1>0 DEF WorkerExit, FetchCached, FetchRow, FetchFill, Archive, Inspect, EndWork,
       SetWork, UpdateFailed, WorkType, history
  <2>2. work'[w].pc \in {"range", "exited", "fill", "archive"}
    BY <1>5, <1>0 DEF WorkerExit, FetchCached, FetchRow, FetchFill, Archive, Inspect, EndWork,
       SetWork, UpdateFailed, WorkType, IdleWorker
  <2> QED BY <2>1, <2>2 DEF Holding
<1> QED BY <1>1, <1>2, <1>3, <1>4, <1>5 DEF WorkerStep

\* A worker that goes on or lets go takes nothing from anybody.
LEMMA WorkerOnce ==
  ASSUME TypeOK, NEW w \in Worker, WorkerStep(w), ~Take(w), NEW x \in Task, Once(x)
  PROVE  Once(x)'
<1>1. /\ \A v \in Worker : v # w => work'[v] = work[v]
      /\ UNCHANGED <<chan, tick, phase, moves>>
      /\ Holding(w)' => Holding(w) /\ work'[w].id = work[w].id
      /\ \A y \in Task : y # work[w].id \/ ~Holding(w) => tasks'[y] = tasks[y]
      /\ Holding(w)' => \/ UNCHANGED tasks
                        \/ /\ tasks'[work[w].id].status = "PROCESSING"
                           /\ tasks'[work[w].id].due = tasks[work[w].id].due
  BY WorkerShape
<1> SUFFICES ASSUME moves[x] = 0, Single(x), HeldIsDue(x)
             PROVE  Single(x)' /\ HeldIsDue(x)'
  BY <1>1 DEF Once
<1>2. \A v \in Worker : Holding(v)' /\ work'[v].id = x => Holding(v) /\ work[v].id = x
  BY <1>1 DEF Holding
<1>3. \A y : InWork(y) <=> \E v \in Worker : work[v].id = y /\ Holding(v)
  BY DEF InWork, Holding
<1>4. \A y : InWork(y)' <=> \E v \in Worker : work'[v].id = y /\ Holding(v)'
  BY DEF InWork, Holding
<1>5. InWork(x)' => InWork(x)
  BY <1>2, <1>3, <1>4
<1>6. InChan(x)' = InChan(x)
  BY <1>1 DEF InChan
<1>7. Single(x)'
  BY <1>1, <1>2, <1>5, <1>6 DEF Single
<1>8. HeldIsDue(x)'
  <2> SUFFICES ASSUME Held(x)' PROVE UnderWay(x)' /\ tasks'[x].due
    BY DEF HeldIsDue
  <2>1. Held(x)
    BY <1>1, <1>5, <1>6 DEF Held
  <2>2. UnderWay(x) /\ tasks[x].due
    BY <2>1 DEF HeldIsDue
  <2>3. CASE tasks'[x] = tasks[x]
    BY <2>2, <2>3 DEF UnderWay
  <2>4. CASE tasks'[x] # tasks[x]
    <3>1. x = work[w].id /\ Holding(w)
      BY <1>1, <2>4
    <3>2. InWork(x)
      BY <1>3, <3>1
    <3>3. InWork(x)'
      BY <1>1, <1>6, <3>2 DEF Single, Held
    <3>4. PICK v \in Worker : work'[v].id = x /\ Holding(v)'
      BY <1>4, <3>3
    <3>5. v = w
      BY <1>2, <3>1, <3>4 DEF Single
    <3> QED BY <1>1, <2>2, <2>4, <3>1, <3>4, <3>5 DEF UnderWay
  <2> QED BY <2>3, <2>4
<1> QED BY <1>7, <1>8

\* Receiving moves the head of the channel to the worker.
LEMMA TakeOnce ==
  ASSUME TypeOK, NEW w \in Worker, Take(w), NEW x \in Task, Once(x)
  PROVE  Once(x)'
<1>1. PICK h \in Task : h = Head(chan) /\ h = chan[1]
  BY DEF Take, TypeOK, ChanType
<1>2. /\ work'[w].id = h /\ work'[w].pc = "start" /\ ~Holding(w)
      /\ \A v \in Worker : v # w => work'[v] = work[v]
  BY <1>1 DEF Take, SetWork, TypeOK, WorkType, Holding
<1>3. UNCHANGED <<tasks, tick, moves>>
  BY DEF Take, history
<1>4. /\ chan' = Tail(chan) /\ chan \in Seq(Task) /\ Len(chan) \in Nat /\ Len(chan) # 0
      /\ Len(chan') = Len(chan) - 1
      /\ \A i \in 1 .. Len(chan') : i + 1 \in 1 .. Len(chan) /\ chan'[i] = chan[i + 1]
  BY DEF Take, TypeOK, ChanType
<1> SUFFICES ASSUME moves[x] = 0, Single(x), HeldIsDue(x)
             PROVE  Single(x)' /\ HeldIsDue(x)'
  BY <1>3 DEF Once
<1>5. InWork(x) <=> \E v \in Worker : work[v].id = x /\ Holding(v)
  BY DEF InWork, Holding
<1>6. InWork(x)' <=> \E v \in Worker : work'[v].id = x /\ Holding(v)'
  BY DEF InWork, Holding
<1>7. \A v \in Worker : v # w => Holding(v)' = Holding(v) /\ work'[v].id = work[v].id
  BY <1>2 DEF Holding
<1>8. InChan(x)' => InChan(x)
  BY <1>4 DEF InChan
<1>9. 1 \in 1 .. Len(chan)
  BY <1>4
<1>10. x = h => InChan(x)
  BY <1>1, <1>9 DEF InChan
<1>11. InWork(x)' => InWork(x) \/ x = h
  BY <1>2, <1>5, <1>6, <1>7
<1>12. x = h => ~InChan(x)'
  <2> SUFFICES ASSUME x = h, NEW i \in 1 .. Len(chan'), chan'[i] = x PROVE FALSE
    BY DEF InChan
  <2>1. i + 1 \in 1 .. Len(chan) /\ chan[i + 1] = x
    BY <1>4
  <2>2. i + 1 = 1
    BY <2>1, <1>1, <1>9 DEF Single
  <2> QED BY <2>2
<1>13. \A i, j \in 1 .. Len(chan') : chan'[i] = x /\ chan'[j] = x => i = j
  <2> SUFFICES ASSUME NEW i \in 1 .. Len(chan'), NEW j \in 1 .. Len(chan'),
                      chan'[i] = x, chan'[j] = x
               PROVE  i = j
    OBVIOUS
  <2>1. i + 1 = j + 1
    BY <1>4 DEF Single
  <2> QED BY <2>1
<1>14. \A v, u \in Worker :
         Holding(v)' /\ Holding(u)' /\ work'[v].id = x /\ work'[u].id = x => v = u
  BY <1>2, <1>5, <1>7, <1>10 DEF Single
<1>15. Single(x)'
  BY <1>3, <1>8, <1>10, <1>11, <1>12, <1>13, <1>14 DEF Single
<1>16. Held(x)' => Held(x)
  BY <1>3, <1>8, <1>10, <1>11 DEF Held
<1> QED BY <1>3, <1>15, <1>16 DEF HeldIsDue, UnderWay

\* tickLoop claims what nobody holds, and what it sends leaves its hands.
LEMMA TickOnce ==
  ASSUME TypeOK, TickLoop, NEW x \in Task, Once(x)
  PROVE  Once(x)'
<1>0. UNCHANGED <<work, moves>>
  BY DEF TickLoop, TickRead, TickClaim, TickClaimLost, TickPush, TickExit, history
<1> SUFFICES ASSUME moves[x] = 0, Single(x), HeldIsDue(x)
             PROVE  Single(x)' /\ HeldIsDue(x)'
  BY <1>0 DEF Once
<1>1. InWork(x)' = InWork(x) /\ \A w \in Worker : Holding(w)' = Holding(w)
  BY <1>0 DEF InWork, Holding
<1>2. CASE TickClaim \/ TickClaimLost
  <2>1. PICK S \in SUBSET Task : /\ Claimable(S, tick.room) /\ ClaimRows(S)
                                 /\ tick'.jobs = S \/ tick'.jobs = {}
    BY <1>2 DEF TickClaim, TickClaimLost, SetTick
  <2>2. tick.jobs = {} /\ chan' = chan
    BY <1>2 DEF TickClaim, TickClaimLost, TypeOK, TickType
  <2>3. InChan(x)' = InChan(x)
    BY <2>2 DEF InChan
  <2>4. CASE x \in S
    <3>1. tasks[x].status = "PENDING" /\ tasks[x].due
      BY <2>1, <2>4 DEF Claimable, Due
    <3>2. ~Held(x)
      BY <3>1 DEF HeldIsDue, UnderWay
    <3>3. tasks'[x].status = "QUEUED" /\ tasks'[x].due
      BY <2>1, <2>4, <3>1 DEF ClaimRows, TypeOK, StoreType, Row
    <3> QED BY <1>0, <1>1, <2>2, <2>3, <3>2, <3>3 DEF Single, Held, HeldIsDue, UnderWay
  <2>5. CASE x \notin S
    <3>1. tasks'[x] = tasks[x]
      BY <2>1, <2>5 DEF ClaimRows
    <3>2. x \notin tick'.jobs
      BY <2>1, <2>5
    <3> QED BY <1>0, <1>1, <2>2, <2>3, <3>1, <3>2 DEF Single, Held, HeldIsDue, UnderWay
  <2> QED BY <2>4, <2>5
<1>3. CASE TickPush
  <2>1. PICK t \in tick.jobs :
          /\ chan' = IF Len(chan) < QueueCapacity THEN Append(chan, t) ELSE chan
          /\ SetTick(IF tick.jobs = {t} THEN "wait" ELSE "push", 0, tick.jobs \ {t})
    BY <1>3 DEF TickPush
  <2>2. t \in Task /\ tick'.jobs = tick.jobs \ {t} /\ UNCHANGED tasks
    BY <1>3, <2>1 DEF TickPush, SetTick, TypeOK, TickType
  <2>3. CASE chan' = chan
    <3>1. InChan(x)' = InChan(x)
      BY <2>3 DEF InChan
    <3> QED BY <1>0, <1>1, <2>2, <2>3, <3>1 DEF Single, Held, HeldIsDue, UnderWay
  <2>4. CASE chan' = Append(chan, t)
    <3>1. /\ chan \in Seq(Task) /\ Len(chan) \in Nat /\ Len(chan') = Len(chan) + 1
          /\ chan'[Len(chan) + 1] = t
          /\ \A i \in 1 .. Len(chan) : chan'[i] = chan[i]
      BY <2>2, <2>4 DEF TypeOK, ChanType
    <3>2. \A i \in 1 .. Len(chan') : i \in 1 .. Len(chan) \/ i = Len(chan) + 1
      BY <3>1
    <3>3. InChan(x)' => InChan(x) \/ x = t
      BY <3>1, <3>2 DEF InChan
    <3>4. x = t => x \in tick.jobs /\ ~InChan(x) /\ ~InWork(x)
      BY <2>1 DEF Single
    <3>5. \A i, j \in 1 .. Len(chan') : chan'[i] = x /\ chan'[j] = x => i = j
      BY <3>1, <3>2, <3>4 DEF Single, InChan
    <3>6. Single(x)'
      BY <1>0, <1>1, <2>2, <3>3, <3>4, <3>5 DEF Single
    <3>7. Held(x)' => Held(x)
      BY <1>1, <2>2, <3>3, <3>4 DEF Held
    <3> QED BY <2>2, <3>6, <3>7 DEF HeldIsDue, UnderWay
  <2> QED BY <2>1, <2>3, <2>4
<1>4. CASE TickRead \/ TickExit
  <2>1. tick.jobs = {} /\ tick'.jobs = {} /\ UNCHANGED <<tasks, chan>>
    BY <1>4 DEF TickRead, TickExit, SetTick, TypeOK, TickType
  <2>2. InChan(x)' = InChan(x)
    BY <2>1 DEF InChan
  <2> QED BY <1>0, <1>1, <2>1, <2>2 DEF Single, Held, HeldIsDue, UnderWay
<1> QED BY <1>2, <1>3, <1>4 DEF TickLoop

\* The handlers: CreateTask writes the row of an id that did not exist, and
\* UpdateTask counts the task as rescheduled when it writes execute_at.
LEMMA HandlerOnce ==
  ASSUME TypeOK, Handler, NEW x \in Task, Once(x)
  PROVE  Once(x)'
<1>0. tasks \in [Task -> Row] /\ moves \in [Task -> Nat]
  BY DEF TypeOK, StoreType, HistoryType
<1>1. UNCHANGED <<chan, tick, work>>
  BY DEF Handler, CreateTask, CacheExpires, GetTask, UpdateTask, GetTaskFill, UpdateTaskDel
<1>2. Single(x)' = Single(x) /\ Held(x)' = Held(x)
  BY <1>1, SameHolders
<1>3. CASE UNCHANGED <<tasks, moves>>
  BY <1>2, <1>3 DEF Once, HeldIsDue, UnderWay
<1>4. ASSUME NEW t \in Task, CreateTask(t) PROVE Once(x)'
  <2>1. UNCHANGED moves /\ tasks[t].status = "NONE"
    BY <1>4 DEF CreateTask
  <2>2. x # t => tasks'[x] = tasks[x]
    BY <1>0, <1>4 DEF CreateTask, SetRow
  <2>3. moves[x] = 0 /\ Held(x) => x # t
    BY <2>1 DEF Once, HeldIsDue, UnderWay
  <2> QED BY <1>2, <2>1, <2>2, <2>3 DEF Once, HeldIsDue, UnderWay
<1>5. ASSUME NEW c \in Client, NEW t \in Task, UpdateTask(c, t) PROVE Once(x)'
  <2>1. CASE ~UNCHANGED <<tasks, moves>>
    <3>1. /\ moves' = [moves EXCEPT ![t] = @ + 1]
          /\ \E due \in BOOLEAN :
               SetRow(t, [status |-> "PENDING", retry |-> 0, due |-> due])
      BY <1>5, <2>1 DEF UpdateTask
    <3>2. x # t => tasks'[x] = tasks[x] /\ moves'[x] = moves[x]
      BY <1>0, <3>1 DEF SetRow
    <3>3. x = t => moves'[x] # 0
      BY <1>0, <3>1
    <3> QED BY <1>2, <3>2, <3>3 DEF Once, HeldIsDue, UnderWay
  <2> QED BY <1>3, <2>1
<1>6. Handler => \/ UNCHANGED <<tasks, moves>>
                 \/ \E t \in Task : CreateTask(t) \/ \E c \in Client : UpdateTask(c, t)
  BY DEF Handler, CacheExpires, GetTask, GetTaskFill, UpdateTaskDel, history
<1> QED BY <1>3, <1>4, <1>5, <1>6

\* While there is no process, none of its goroutines moves.
LEMMA DownStep ==
  ASSUME TypeOK, DownIsEmpty, [Next]_vars
  PROVE  DownIsEmpty'
<1>1. CASE StopProcess
  BY <1>1 DEF StopProcess, DownIsEmpty
<1>2. CASE phase' = "down" /\ phase = "down"
  <2>1. chan = <<>> /\ tick = IdleTick /\ \A w \in Worker : work[w] = IdleWorker
    BY <1>2 DEF DownIsEmpty
  <2>2. ~TickLoop
    BY <1>2, <2>1 DEF TickLoop, TickRead, TickClaim, TickClaimLost, TickPush, TickExit,
       IdleTick, Serving
  <2>3. \A w \in Worker : ~WorkerStep(w)
    BY <1>2, <2>1 DEF WorkerStep, Take, WorkerExit, Start, ExecuteCallback, Complete,
       HandleFailure, WorkerDel, FetchCached, FetchRow, FetchFill, Archive, IdleWorker
  <2>4. Handler => UNCHANGED <<chan, tick, work>>
    BY DEF Handler, CreateTask, CacheExpires, GetTask, UpdateTask, GetTaskFill, UpdateTaskDel
  <2>5. Lifecycle => UNCHANGED <<chan, tick, work>>
    BY <1>2 DEF Lifecycle, Signal, Stop, Exit, Panic, Crash, Restart, Serving
  <2>6. (\E t \in Task : TimePasses(t)) => UNCHANGED <<chan, tick, work>>
    BY DEF TimePasses
  <2>7. UNCHANGED <<chan, tick, work>>
    BY <2>2, <2>3, <2>4, <2>5, <2>6 DEF Next, vars
  <2> QED BY <2>1, <2>7 DEF DownIsEmpty
<1>3. StopProcess \/ (phase' = "down" => phase = "down")
  <2>1. Lifecycle => StopProcess \/ phase' # "down"
    BY DEF Lifecycle, Signal, Stop, Exit, Panic, Crash, Restart
  <2>2. Handler => phase' = phase
    BY DEF Handler, CreateTask, CacheExpires, GetTask, UpdateTask, GetTaskFill, UpdateTaskDel
  <2>3. TickLoop => phase' = phase
    BY DEF TickLoop, TickRead, TickClaim, TickClaimLost, TickPush, TickExit
  <2>4. ASSUME NEW w \in Worker, WorkerStep(w) PROVE phase' = phase
    BY <2>4 DEF WorkerStep, Take, WorkerExit, Start, ExecuteCallback, Complete,
       HandleFailure, WorkerDel, FetchCached, FetchRow, FetchFill, Archive
  <2>5. ASSUME NEW t \in Task, TimePasses(t) PROVE phase' = phase
    BY <2>5 DEF TimePasses
  <2> QED BY <2>1, <2>2, <2>3, <2>4, <2>5 DEF Next, vars
<1> QED BY <1>1, <1>2, <1>3 DEF DownIsEmpty

\* A process that ends lets go of everything, and one that starts finds
\* nothing held.
LEMMA LifecycleOnce ==
  ASSUME TypeOK, DownIsEmpty, Lifecycle, NEW x \in Task, Once(x)
  PROVE  Once(x)'
<1>1. CASE StopProcess
  <2>1. chan' = <<>> /\ tick'.jobs = {} /\ \A w \in Worker : work'[w] = IdleWorker
    BY <1>1 DEF StopProcess, IdleTick
  <2>2. Single(x)' /\ ~Held(x)'
    BY <2>1, NothingHeldNext
  <2> QED BY <2>2 DEF Once, HeldIsDue
<1>2. CASE Restart
  <2>1. chan' = <<>> /\ tick'.jobs = {} /\ \A w \in Worker : work'[w] = IdleWorker
    BY <1>2 DEF Restart, DownIsEmpty, IdleTick
  <2>2. Single(x)' /\ ~Held(x)'
    BY <2>1, NothingHeldNext
  <2> QED BY <2>2 DEF Once, HeldIsDue
<1>3. CASE Signal \/ Stop
  <2>1. UNCHANGED <<tasks, moves, chan, tick, work>>
    BY <1>3 DEF Signal, Stop, history
  <2>2. Single(x)' = Single(x) /\ Held(x)' = Held(x)
    BY <2>1, SameHolders
  <2> QED BY <2>1, <2>2 DEF Once, HeldIsDue, UnderWay
<1> QED BY <1>1, <1>2, <1>3 DEF Lifecycle, Exit, Panic, Crash

\* Every step keeps OnceInv.
LEMMA OnceStep == TypeOK /\ OnceInv /\ [Next]_vars => OnceInv'
<1> SUFFICES ASSUME TypeOK, OnceInv, [Next]_vars PROVE OnceInv'
  OBVIOUS
<1>1. DownIsEmpty'
  BY DownStep DEF OnceInv
<1>2. ASSUME NEW x \in Task PROVE Once(x)'
  <2>1. Once(x) /\ DownIsEmpty
    BY DEF OnceInv
  <2>2. CASE Handler
    BY <2>1, <2>2, HandlerOnce
  <2>3. CASE TickLoop
    BY <2>1, <2>3, TickOnce
  <2>4. ASSUME NEW w \in Worker, WorkerStep(w) PROVE Once(x)'
    BY <2>1, <2>4, WorkerOnce, TakeOnce
  <2>5. CASE Lifecycle
    BY <2>1, <2>5, LifecycleOnce
  <2>6. ASSUME NEW t \in Task, TimePasses(t) PROVE Once(x)'
    <3>1. UNCHANGED <<moves, chan, tick, work>>
      BY <2>6 DEF TimePasses, history
    <3>2. Single(x)' = Single(x) /\ Held(x)' = Held(x)
      BY <3>1, SameHolders
    <3>3. tasks'[x].status = tasks[x].status
      BY <2>6, TimePassesType
    <3>4. tasks[x].due => tasks'[x].due
      BY <2>6 DEF TimePasses, TypeOK, StoreType, Row
    <3> QED BY <2>1, <3>1, <3>2, <3>3, <3>4 DEF Once, HeldIsDue, UnderWay
  <2>7. CASE UNCHANGED vars
    <3>1. UNCHANGED <<tasks, moves, chan, tick, work>>
      BY <2>7 DEF vars
    <3>2. Single(x)' = Single(x) /\ Held(x)' = Held(x)
      BY <3>1, SameHolders
    <3> QED BY <2>1, <3>1, <3>2 DEF Once, HeldIsDue, UnderWay
  <2> QED BY <2>2, <2>3, <2>4, <2>5, <2>6, <2>7 DEF Next
<1> QED BY <1>1, <1>2 DEF OnceInv

\* Initially nothing is held.
LEMMA OnceInit == Init => OnceInv
<1> SUFFICES ASSUME Init PROVE OnceInv
  OBVIOUS
<1>1. /\ chan = <<>> /\ tick.jobs = {} /\ phase = "up"
      /\ \A w \in Worker : work[w] = IdleWorker
  BY DEF Init, IdleTick
<1>2. \A x \in Task : Single(x) /\ ~Held(x)
  BY <1>1, NothingHeld
<1> QED BY <1>1, <1>2 DEF OnceInv, DownIsEmpty, Once, HeldIsDue

LEMMA OnceAlways == Spec => []OnceInv
<1> QED BY OnceInit, OnceStep, TypeCorrect, PTL DEF Spec

\* No task is rescheduled more often than the bound says.
LEMMA MovesBounded == Spec => [](\A t \in Task : moves[t] <= MaxMoves)
<1> DEFINE Bounded == \A t \in Task : moves[t] <= MaxMoves
<1>1. Init => Bounded
  BY SchedulerAssumption DEF Init
<1>2. TypeOK /\ Bounded /\ [Next]_vars => Bounded'
  <2> SUFFICES ASSUME TypeOK, Bounded, [Next]_vars PROVE Bounded'
    OBVIOUS
  <2>0. moves \in [Task -> Nat]
    BY DEF TypeOK, HistoryType
  <2>1. CASE UNCHANGED moves
    BY <2>1
  <2>2. CASE moves' = [t \in Task |-> 0]
    BY <2>2, SchedulerAssumption
  <2>3. ASSUME NEW c \in Client, NEW t \in Task, UpdateTask(c, t) PROVE Bounded'
    <3>1. \/ UNCHANGED moves
          \/ moves[t] < MaxMoves /\ moves' = [moves EXCEPT ![t] = @ + 1]
      BY <2>3 DEF UpdateTask
    <3> QED BY <2>0, <3>1, SchedulerAssumption
  <2>4. Handler => UNCHANGED moves \/ \E c \in Client, t \in Task : UpdateTask(c, t)
    BY DEF Handler, CreateTask, CacheExpires, GetTask, GetTaskFill, UpdateTaskDel, history
  <2>5. TickLoop => UNCHANGED moves
    BY DEF TickLoop, TickRead, TickClaim, TickClaimLost, TickPush, TickExit, history
  <2>6. ASSUME NEW w \in Worker, WorkerStep(w) PROVE UNCHANGED moves
    BY <2>6 DEF WorkerStep, Take, WorkerExit, Start, ExecuteCallback, Complete,
       HandleFailure, WorkerDel, FetchCached, FetchRow, FetchFill, Archive, history
  <2>7. Lifecycle => UNCHANGED moves \/ moves' = [t \in Task |-> 0]
    BY DEF Lifecycle, Signal, Stop, Exit, Panic, Crash, Restart, StopProcess, history
  <2>8. ASSUME NEW t \in Task, TimePasses(t) PROVE UNCHANGED moves
    BY <2>8 DEF TimePasses, history
  <2>9. UNCHANGED vars => UNCHANGED moves
    BY DEF vars
  <2> HIDE DEF Bounded
  <2> QED BY <2>1, <2>2, <2>3, <2>4, <2>5, <2>6, <2>7, <2>8, <2>9 DEF Next
<1> QED BY <1>1, <1>2, TypeCorrect, PTL DEF Spec

\* Two workers execute one task at the same time only after a client has
\* rescheduled it, for any number of tasks, workers and processes that crash
\* and recover.
ExclusiveUnlessMoved ==
  \A v, w \in Worker :
    v # w /\ Executes(v) /\ Executes(w) /\ work[v].id = work[w].id => moves[work[v].id] > 0

\* OnceInv forbids it.
LEMMA OnceIsExclusive ==
  ASSUME TypeOK, OnceInv
  PROVE  ExclusiveUnlessMoved
<1> SUFFICES ASSUME NEW v \in Worker, NEW w \in Worker, v # w, Executes(v), Executes(w),
                    work[v].id = work[w].id, ~(moves[work[v].id] > 0)
             PROVE  FALSE
  BY DEF ExclusiveUnlessMoved
<1>1. PICK x \in Task : x = work[v].id
  BY HoldsTask DEF Executes, TypeOK
<1>2. moves[x] = 0
  BY <1>1 DEF TypeOK, HistoryType
<1>3. Single(x)
  BY <1>2 DEF OnceInv, Once
<1>4. Holding(v) /\ Holding(w)
  BY DEF Holding, Executes
<1> QED BY <1>1, <1>3, <1>4 DEF Single

\* Two workers execute one task at a time only if a client has rescheduled it
\* since the process started.
THEOREM ExecutionExclusiveUnlessMoved == Spec => []ExclusiveUnlessMoved
<1>1. TypeOK /\ OnceInv => ExclusiveUnlessMoved
  BY OnceIsExclusive
<1> QED BY <1>1, TypeCorrect, OnceAlways, PTL

\* While no client changes execute_at of a task under way, no two workers
\* execute one task at the same time: for any number of tasks and workers, any
\* capacity and retry limit, with or without Redis, and whatever statements
\* fail and processes stop or crash.
THEOREM ExecutionExclusive ==
  ASSUME MaxMoves = 0
  PROVE  Spec => []ExclusiveExecution
<1>1. TypeOK /\ OnceInv /\ (\A t \in Task : moves[t] <= MaxMoves) => ExclusiveExecution
  <2> SUFFICES ASSUME TypeOK, OnceInv, \A t \in Task : moves[t] <= MaxMoves,
                      NEW v \in Worker, NEW w \in Worker, v # w, Executes(v), Executes(w),
                      work[v].id = work[w].id
               PROVE  FALSE
    BY DEF ExclusiveExecution
  <2>1. moves[work[v].id] > 0
    BY OnceIsExclusive DEF ExclusiveUnlessMoved
  <2>2. work[v].id \in Task
    BY HoldsTask DEF Executes, TypeOK
  <2>3. moves[work[v].id] \in Nat /\ moves[work[v].id] <= 0
    BY <2>2 DEF TypeOK, HistoryType
  <2> QED BY <2>1, <2>3
<1> QED BY <1>1, TypeCorrect, OnceAlways, MovesBounded, PTL

\* A worker never starts on a task before its execute_at, unless a client has
\* moved that date since: the claim looked at it, and nobody else changes it.
THEOREM TasksNeverEarly ==
  ASSUME MaxMoves = 0
  PROVE  Spec => NeverEarly
<1> DEFINE OnTime == \A w \in Worker : work[w].pc = "start" /\ work'[w].pc \in {"call", "del"} =>
                       tasks[work[w].id].due
<1>1. TypeOK /\ OnceInv /\ (\A t \in Task : moves[t] <= MaxMoves) => OnTime
  <2> SUFFICES ASSUME TypeOK, OnceInv, \A t \in Task : moves[t] <= MaxMoves,
                      NEW w \in Worker, work[w].pc = "start"
               PROVE  tasks[work[w].id].due
    OBVIOUS
  <2>1. PICK x \in Task : x = work[w].id
    BY HoldsTask DEF TypeOK
  <2>2. moves[x] = 0
    BY DEF TypeOK, HistoryType
  <2>3. Held(x)
    BY <2>1 DEF Held, InWork
  <2> QED BY <2>1, <2>2, <2>3 DEF OnceInv, Once, HeldIsDue
<1> QED BY <1>1, TypeCorrect, OnceAlways, MovesBounded, PTL DEF Spec, NeverEarly

-----------------------------------------------------------------------------
(* The archive                                                             *)

Kept(x) == x \in archive \/ Archiving(x) \/ x \in lost

\* A step that leaves the workers alone forgets no archiving.
LEMMA SameArchiving ==
  ASSUME UNCHANGED <<work, archive>>, lost \subseteq lost', NEW x, Kept(x)
  PROVE  Kept(x)'
BY DEF Kept, Archiving

\* Without Redis handleFailure reads the row itself: a worker that finds the
\* status is not FAILED may go, because the next one to write FAILED fetches
\* the task in turn.
LEMMA WorkerArchives ==
  ASSUME TypeOK, ~Cached, NEW w \in Worker, WorkerStep(w), NEW x \in Task,
         tasks[x].status = "FAILED" => Kept(x), tasks'[x].status = "FAILED"
  PROVE  Kept(x)'
<1>0. tasks \in [Task -> Row] /\ WorkType /\ lost \subseteq Task
  BY DEF TypeOK, StoreType, HistoryType
\* The task of another worker.
<1>1. ASSUME tasks'[x] = tasks[x], work[w].id # x,
             \A v \in Worker : v # w => work'[v] = work[v],
             archive \subseteq archive', lost \subseteq lost'
      PROVE  Kept(x)'
  BY <1>1 DEF Kept, Archiving
\* A worker that is not archiving.
<1>2. ASSUME tasks'[x] = tasks[x], work[w].pc \in {"range", "start", "call", "done"},
             \A v \in Worker : v # w => work'[v] = work[v],
             archive \subseteq archive', lost \subseteq lost'
      PROVE  Kept(x)'
  BY <1>2 DEF Kept, Archiving
<1>3. CASE Take(w) \/ WorkerExit(w) \/ ExecuteCallback(w)
  BY <1>0, <1>2, <1>3 DEF Take, WorkerExit, ExecuteCallback, SetWork, WorkType, history
<1>4. CASE Start(w) \/ Complete(w) \/ HandleFailure(w)
  <2>1. PICK t \in Task, row \in Row :
           /\ t = work[w].id
           /\ tasks' = tasks \/ tasks' = [tasks EXCEPT ![t] = row]
           /\ \/ Start(w) /\ row.status = "PROCESSING"
              \/ Complete(w) /\ row.status = "COMPLETED"
              \/ HandleFailure(w) /\ row.status \in {"PENDING", "FAILED"}
    BY <1>4, WorkerUpdateEffect
  <2>2. work[w].pc \in {"start", "done", "fail"} /\ archive' = archive
    BY <1>4 DEF Start, Complete, HandleFailure
  <2>3. CASE UpdateFailed(w)
    <3>1. /\ lost' = lost \cup {t} /\ work'[w] = IdleWorker
          /\ \A v \in Worker : v # w => work'[v] = work[v]
      BY <1>0, <2>1, <2>2, <2>3, UpdateFailedEffect
    <3>2. x # t => tasks'[x] = tasks[x]
      BY <1>0, <2>1
    <3>3. x = t => Kept(x)'
      BY <3>1 DEF Kept
    <3> QED BY <1>1, <2>1, <2>2, <3>1, <3>2, <3>3
  <2>4. CASE ~UpdateFailed(w)
    <3>1. PICK next \in {"range", "call", "get"} :
            Committed(w, next) /\ (HandleFailure(w) => next = "get")
      BY <1>4, <2>4 DEF Start, Complete, HandleFailure
    <3>2. /\ lost' = lost /\ \A v \in Worker : v # w => work'[v] = work[v]
          /\ \/ work'[w] = IdleWorker /\ next = "range"
             \/ /\ work'[w].id = work[w].id
                /\ work'[w].pc = "del" /\ work'[w].next = next
             \/ work'[w].id = work[w].id /\ work'[w].pc = next /\ next # "range"
      BY <1>0, <2>2, <3>1, CommittedEffect
    <3>3. x # t => tasks'[x] = tasks[x]
      BY <1>0, <2>1
    <3>4. CASE HandleFailure(w) /\ x = t
      <4>1. Archiving(x)'
        BY <2>1, <3>1, <3>2, <3>4 DEF Archiving
      <4> QED BY <4>1 DEF Kept
    <3>5. CASE ~HandleFailure(w) /\ x = t
      <4>1. tasks'[x] = tasks[x]
        BY <1>0, <2>1, <3>5
      <4>2. work[w].pc \in {"start", "done"}
        BY <1>4, <3>5 DEF Start, Complete
      <4> QED BY <1>2, <2>2, <3>2, <4>1, <4>2
    <3> QED BY <1>1, <2>1, <2>2, <3>2, <3>3, <3>4, <3>5
  <2> QED BY <2>3, <2>4
<1>5. CASE WorkerDel(w) \/ FetchFill(w) \/ Archive(w) \/ FetchRow(w)
  <2>1. PICK t \in Task : t = work[w].id
    BY <1>0, <1>5, HoldsTask DEF WorkerDel, FetchFill, Archive, FetchRow
  <2>2. /\ tasks' = tasks /\ archive \subseteq archive' /\ lost \subseteq lost'
        /\ \A v \in Worker : v # w => work'[v] = work[v]
    BY <1>0, <1>5 DEF WorkerDel, FetchFill, Archive, FetchRow, Inspect, EndWork,
       SetWork, UpdateFailed, WorkType
  <2>3. CASE x # t
    BY <1>1, <2>1, <2>2, <2>3
  <2>4. CASE x = t
    <3>0. tasks[x].status = "FAILED" /\ Kept(x)
      BY <2>2
    <3>1. CASE WorkerDel(w)
      <4>1. PICK next \in {"range", "call", "get"} : next = work[w].next
        BY <1>0 DEF WorkType
      <4>2. next = "get" => work'[w].id = t /\ work'[w].pc = "get"
        BY <1>0, <2>1, <3>1, <4>1 DEF WorkerDel, SetWork, WorkType
      <4>3. work[w].pc = "del"
        BY <3>1 DEF WorkerDel
      <4> QED BY <2>2, <2>4, <3>0, <4>1, <4>2, <4>3 DEF Kept, Archiving
    <3>2. CASE FetchFill(w)
      <4>1. work[w].seen = "FAILED" => work'[w].id = t /\ work'[w].pc = "archive"
        BY <1>0, <2>1, <3>2 DEF FetchFill, Inspect, SetWork, WorkType
      <4>2. work[w].pc = "fill"
        BY <3>2 DEF FetchFill
      <4> QED BY <2>2, <2>4, <3>0, <4>1, <4>2 DEF Kept, Archiving
    <3>3. CASE Archive(w)
      BY <2>1, <2>4, <3>3 DEF Archive, UpdateFailed, Kept
    <3>4. CASE FetchRow(w) /\ UpdateFailed(w)
      BY <2>1, <2>4, <3>4 DEF UpdateFailed, Kept
    <3>5. CASE FetchRow(w) /\ ~UpdateFailed(w)
      <4>1. Inspect(w, tasks[t].status)
        BY <2>1, <3>5 DEF FetchRow
      <4>2. work'[w].id = t /\ work'[w].pc = "archive"
        BY <1>0, <2>1, <2>4, <3>0, <4>1 DEF Inspect, SetWork, WorkType
      <4>3. Archiving(x)'
        BY <2>4, <4>2 DEF Archiving
      <4> QED BY <4>3 DEF Kept
    <3> QED BY <1>5, <3>1, <3>2, <3>3, <3>4, <3>5
  <2> QED BY <2>3, <2>4
<1>6. ~FetchCached(w)
  BY DEF FetchCached
<1> QED BY <1>3, <1>4, <1>5, <1>6 DEF WorkerStep

\* Without Redis every FAILED task is archived, about to be, or was lost to a
\* failed statement or the end of a process: for any number of tasks, workers
\* and reschedulings and whatever fails.
THEOREM FailedTasksArchived ==
  ASSUME ~Cached
  PROVE  Spec => []FailedIsArchived
<1>1. Init => FailedIsArchived
  BY DEF Init, FailedIsArchived, NoRow
<1>2. TypeOK /\ FailedIsArchived /\ [Next]_vars => FailedIsArchived'
  <2> SUFFICES ASSUME TypeOK, FailedIsArchived, [Next]_vars, NEW x \in Task,
                      tasks'[x].status = "FAILED"
               PROVE  Kept(x)'
    BY DEF FailedIsArchived, Kept
  <2>0. tasks \in [Task -> Row] /\ (tasks[x].status = "FAILED" => Kept(x))
    BY DEF TypeOK, StoreType, FailedIsArchived, Kept
  <2>1. CASE UNCHANGED <<work, archive>> /\ lost \subseteq lost' /\ tasks[x].status = "FAILED"
    BY <2>0, <2>1, SameArchiving
  <2>2. ASSUME NEW t \in Task, NEW due \in BOOLEAN,
               SetRow(t, [status |-> "PENDING", retry |-> 0, due |-> due])
        PROVE  tasks[x].status = "FAILED"
    BY <2>0, <2>2 DEF SetRow
  <2>3. CASE Handler
    <3>1. UNCHANGED <<work, archive, lost>>
      BY <2>3 DEF Handler, CreateTask, CacheExpires, GetTask, UpdateTask, GetTaskFill, UpdateTaskDel
    <3>2. \/ UNCHANGED tasks
          \/ \E t \in Task, due \in BOOLEAN :
               SetRow(t, [status |-> "PENDING", retry |-> 0, due |-> due])
      BY <2>3 DEF Handler, CreateTask, CacheExpires, GetTask, UpdateTask, GetTaskFill, UpdateTaskDel
    <3> QED BY <2>1, <2>2, <3>1, <3>2
  <2>4. CASE TickLoop
    <3>1. UNCHANGED <<work, archive>> /\ lost \subseteq lost'
      BY <2>4 DEF TickLoop, TickRead, TickClaim, TickClaimLost, TickPush, TickExit
    <3>2. UNCHANGED tasks \/ \E S \in SUBSET Task : ClaimRows(S)
      BY <2>4 DEF TickLoop, TickRead, TickClaim, TickClaimLost, TickPush, TickExit
    <3>3. ASSUME NEW S \in SUBSET Task, ClaimRows(S) PROVE tasks[x].status = "FAILED"
      BY <2>0, <3>3 DEF ClaimRows, Row
    <3> QED BY <2>1, <3>1, <3>2, <3>3
  <2>5. ASSUME NEW w \in Worker, WorkerStep(w) PROVE Kept(x)'
    BY <2>0, <2>5, WorkerArchives
  <2>6. CASE StopProcess
    <3>1. tasks[x].status = "FAILED" /\ archive' = archive
      BY <2>6 DEF StopProcess
    <3>2. Archiving(x) => x \in lost'
      BY <2>6, SchedulerAssumption DEF StopProcess, Archiving
    <3>3. lost \subseteq lost'
      BY <2>6 DEF StopProcess
    <3> QED BY <2>0, <3>1, <3>2, <3>3 DEF Kept
  <2>7. CASE Signal \/ Stop \/ Restart
    <3>1. tasks' # [t \in Task |-> NoRow]
      BY DEF NoRow
    <3>2. UNCHANGED <<work, archive, lost>>
      BY <2>7, <3>1 DEF Signal, Stop, Restart
    <3>3. tasks[x].status = "FAILED"
      BY <2>0, <2>7, <3>1 DEF Signal, Stop, Restart, Recovered, Row
    <3> QED BY <2>1, <3>2, <3>3
  <2>8. CASE Lifecycle
    BY <2>6, <2>7, <2>8 DEF Lifecycle, Exit, Panic, Crash
  <2>9. ASSUME NEW t \in Task, TimePasses(t) PROVE Kept(x)'
    <3>1. tasks[x].status = "FAILED"
      BY <2>9, TimePassesType
    <3> QED BY <2>1, <2>9, <3>1 DEF TimePasses
  <2>10. CASE UNCHANGED vars
    BY <2>1, <2>10 DEF vars
  <2> QED BY <2>3, <2>4, <2>5, <2>8, <2>9, <2>10 DEF Next
<1> QED BY <1>1, <1>2, TypeCorrect, PTL DEF Spec

-----------------------------------------------------------------------------
(* The callback budget                                                     *)

\* Where x may be waiting for a callback: positions of the channel, the hands
\* of tickLoop, and workers that have not posted it yet.
Queued(x) == {i \in 1 .. Len(chan) : chan[i] = x}
Picked(x) == IF x \in tick.jobs THEN 1 ELSE 0
Executing(x) == {w \in Worker : Executes(w) /\ work[w].id = x}

\* Callbacks the row may still lead to: one if it is PENDING, and one for each
\* retry that handleFailure has left.
Open(x) == IF tasks[x].status = "PENDING" THEN 1 ELSE 0
Spare(x) == IF tasks[x].retry >= MaxRetries THEN 0 ELSE MaxRetries - tasks[x].retry

\* No step adds to the callbacks made, waiting and possible together, except
\* a rescheduling, which is granted MaxRetries + 1 of them.
InBudget(x) ==
  /\ IsFiniteSet(Executing(x))
  /\ calls[x] + Cardinality(Queued(x)) + Picked(x) + Cardinality(Executing(x))
       + Open(x) + Spare(x) <= (moves[x] + 1) * (MaxRetries + 1)
  /\ tasks[x].status = "NONE" =>
       calls[x] = 0 /\ Queued(x) = {} /\ Picked(x) = 0 /\ Executing(x) = {}

BudgetInv == \A x \in Task : InBudget(x)

\* The terms are natural numbers.
LEMMA BudgetTypes ==
  ASSUME TypeOK, NEW x \in Task
  PROVE  /\ calls[x] \in Nat /\ moves[x] \in Nat /\ MaxRetries \in Nat
         /\ IsFiniteSet(Queued(x)) /\ Cardinality(Queued(x)) \in Nat
         /\ Picked(x) \in {0, 1} /\ Open(x) \in {0, 1}
         /\ Spare(x) \in 0 .. MaxRetries
         /\ (moves[x] + 1) * (MaxRetries + 1) \in Nat
<1>1. calls[x] \in Nat /\ moves[x] \in Nat /\ MaxRetries \in Nat
  BY SchedulerAssumption DEF TypeOK, HistoryType
<1>2. IsFiniteSet(1 .. Len(chan))
  BY FS_Interval DEF TypeOK, ChanType
<1>3. Queued(x) \in SUBSET (1 .. Len(chan))
  BY DEF Queued
<1>4. IsFiniteSet(Queued(x)) /\ Cardinality(Queued(x)) \in Nat
  BY <1>2, <1>3, FS_Subset, FS_CardinalityType
<1>5. tasks[x].retry \in Nat
  BY DEF TypeOK, StoreType, Row
<1>6. Spare(x) \in 0 .. MaxRetries
  BY <1>1, <1>5 DEF Spare
<1>7. (moves[x] + 1) * (MaxRetries + 1) \in Nat
  BY <1>1
<1> QED BY <1>1, <1>4, <1>6, <1>7 DEF Picked, Open

\* A step that adds to no term and does not take the row out of the table.
LEMMA BudgetKept ==
  ASSUME TypeOK, TypeOK', NEW x \in Task, InBudget(x),
         calls'[x] = calls[x], moves'[x] = moves[x],
         Queued(x)' \subseteq Queued(x), Picked(x)' <= Picked(x),
         Executing(x)' \subseteq Executing(x),
         Open(x)' + Spare(x)' <= Open(x) + Spare(x),
         tasks'[x].status = "NONE" => tasks[x].status = "NONE"
  PROVE  InBudget(x)'
<1>1. /\ calls[x] \in Nat /\ moves[x] \in Nat
      /\ IsFiniteSet(Queued(x)) /\ Cardinality(Queued(x)) \in Nat
      /\ Picked(x) \in {0, 1} /\ Open(x) \in Nat /\ Spare(x) \in Nat
      /\ (moves[x] + 1) * (MaxRetries + 1) \in Nat
  BY BudgetTypes, SchedulerAssumption
<1>2. IsFiniteSet(Executing(x)) /\ Cardinality(Executing(x)) \in Nat
  BY FS_CardinalityType DEF InBudget
<1>3. /\ IsFiniteSet(Queued(x)') /\ Cardinality(Queued(x)') <= Cardinality(Queued(x))
      /\ Cardinality(Queued(x)') \in Nat
  BY <1>1, FS_Subset, FS_CardinalityType
<1>4. /\ IsFiniteSet(Executing(x)') /\ Cardinality(Executing(x)') <= Cardinality(Executing(x))
      /\ Cardinality(Executing(x)') \in Nat
  BY <1>2, FS_Subset, FS_CardinalityType
<1>5. Picked(x)' \in {0, 1} /\ Open(x)' \in Nat /\ Spare(x)' \in Nat
  <2>1. Spare(x)' \in Nat
    BY SchedulerAssumption DEF Spare, TypeOK, StoreType, Row
  <2> QED BY <2>1 DEF Picked, Open
<1>6. calls'[x] + Cardinality(Queued(x)') + Picked(x)' + Cardinality(Executing(x)')
        + Open(x)' + Spare(x)' <= (moves'[x] + 1) * (MaxRetries + 1)
  <2>1. PICK b \in Nat : b = (moves[x] + 1) * (MaxRetries + 1)
    BY <1>1
  <2>2. calls[x] + Cardinality(Queued(x)) + Picked(x) + Cardinality(Executing(x))
          + Open(x) + Spare(x) <= b
    BY <2>1 DEF InBudget
  <2>3. calls'[x] + Cardinality(Queued(x)') + Picked(x)' + Cardinality(Executing(x)')
          + Open(x)' + Spare(x)' <= b
    BY <1>1, <1>2, <1>3, <1>4, <1>5, <2>2
  <2> QED BY <2>1, <2>3
<1>7. tasks'[x].status = "NONE" =>
        calls'[x] = 0 /\ Queued(x)' = {} /\ Picked(x)' = 0 /\ Executing(x)' = {}
  BY <1>1, <1>5 DEF InBudget
<1> QED BY <1>4, <1>6, <1>7 DEF InBudget

\* What a row may lead to depends on its status and retries only.
LEMMA SameRowWeight ==
  ASSUME NEW x \in Task, tasks'[x].status = tasks[x].status, tasks'[x].retry = tasks[x].retry
  PROVE  Open(x)' = Open(x) /\ Spare(x)' = Spare(x)
BY DEF Open, Spare

\* handleFailure trades a retry for PENDING, or fails the task.
LEMMA FailedWeight ==
  ASSUME TypeOK, NEW x \in Task, tasks' = [tasks EXCEPT ![x] = Failed(tasks[x])]
  PROVE  Open(x)' + Spare(x)' <= Open(x) + Spare(x)
<1>1. PICK row \in Row : row = tasks[x] /\ tasks \in [Task -> Row]
  BY DEF TypeOK, StoreType
<1>2. row.retry \in Nat /\ MaxRetries \in Nat
  BY SchedulerAssumption DEF Row
<1>3. tasks'[x] = Failed(row)
  BY <1>1
<1>4. CASE row.retry + 1 > MaxRetries
  <2>1. Failed(row).status = "FAILED" /\ Failed(row).retry = row.retry + 1
    BY <1>4 DEF Failed, Row
  <2>2. Open(x)' = 0 /\ Spare(x)' = 0
    BY <1>2, <1>3, <1>4, <2>1 DEF Open, Spare
  <2>3. Open(x) \in Nat /\ Spare(x) \in Nat
    BY <1>1, <1>2 DEF Open, Spare
  <2> QED BY <2>2, <2>3
<1>5. CASE ~(row.retry + 1 > MaxRetries)
  <2>1. Failed(row).status = "PENDING" /\ Failed(row).retry = row.retry + 1
    BY <1>5 DEF Failed
  <2>2. Open(x)' = 1 /\ Spare(x)' = MaxRetries - (row.retry + 1)
    BY <1>2, <1>3, <1>5, <2>1 DEF Open, Spare
  <2>3. Spare(x) = MaxRetries - row.retry
    BY <1>1, <1>2, <1>5 DEF Spare
  <2>4. Open(x) \in Nat
    BY DEF Open
  <2> QED BY <1>2, <2>2, <2>3, <2>4
<1> QED BY <1>4, <1>5

\* The Updates of a worker: what they write leads to no more callbacks.
LEMMA UpdateWeight ==
  ASSUME TypeOK, NEW w \in Worker, Start(w) \/ Complete(w) \/ HandleFailure(w), NEW x \in Task
  PROVE  /\ Open(x)' + Spare(x)' <= Open(x) + Spare(x)
         /\ tasks'[x].status = "NONE" => tasks[x].status = "NONE"
<1>0. tasks \in [Task -> Row] /\ WorkType
  BY DEF TypeOK, StoreType
<1>1. PICK t \in Task : t = work[w].id
  BY <1>0, HoldsTask DEF Start, Complete, HandleFailure
<1>2. Open(x) \in Nat /\ Spare(x) \in Nat
  BY BudgetTypes, SchedulerAssumption
<1>3. CASE tasks'[x] = tasks[x]
  BY <1>2, <1>3, SameRowWeight
<1>4. ASSUME NEW st \in {"PROCESSING", "COMPLETED"}, SetStatus(t, st), x = t
      PROVE  /\ Open(x)' + Spare(x)' <= Open(x) + Spare(x)
             /\ tasks'[x].status # "NONE"
  <2>1. tasks'[x].status = st /\ tasks'[x].retry = tasks[x].retry
    BY <1>0, <1>4, SetStatusEffect
  <2>2. Open(x)' = 0 /\ Spare(x)' = Spare(x)
    BY <2>1 DEF Open, Spare
  <2> QED BY <1>2, <2>1, <2>2
<1>5. ASSUME SetRow(t, Failed(tasks[t])), x = t
      PROVE  /\ Open(x)' + Spare(x)' <= Open(x) + Spare(x)
             /\ tasks'[x].status # "NONE"
  <2>1. tasks' = [tasks EXCEPT ![x] = Failed(tasks[x])]
    BY <1>5 DEF SetRow
  <2>2. tasks'[x] = Failed(tasks[x]) /\ Failed(tasks[x]).status \in {"PENDING", "FAILED"}
    BY <1>0, <2>1, FailedType
  <2> QED BY <2>1, <2>2, FailedWeight
<1>6. \/ tasks'[x] = tasks[x]
      \/ x = t /\ \E st \in {"PROCESSING", "COMPLETED"} : SetStatus(t, st)
      \/ x = t /\ SetRow(t, Failed(tasks[t]))
  <2>1. \/ UNCHANGED tasks
        \/ \E st \in {"PROCESSING", "COMPLETED"} : SetStatus(t, st)
        \/ SetRow(t, Failed(tasks[t]))
    BY <1>1 DEF Start, Complete, HandleFailure
  <2>2. x # t => tasks'[x] = tasks[x]
    BY <1>0, <2>1, SetStatusEffect DEF SetRow
  <2> QED BY <2>1, <2>2
<1> QED BY <1>3, <1>4, <1>5, <1>6

\* A worker that neither receives nor posts a callback.
LEMMA WorkerBudget ==
  ASSUME TypeOK, TypeOK', NEW w \in Worker, WorkerStep(w), ~Take(w), ~ExecuteCallback(w),
         NEW x \in Task, InBudget(x)
  PROVE  InBudget(x)'
<1>0. tasks \in [Task -> Row] /\ WorkType /\ lost \subseteq Task
  BY DEF TypeOK, StoreType, HistoryType
<1>1. /\ \A v \in Worker : v # w => work'[v] = work[v]
      /\ UNCHANGED <<chan, tick, moves>>
      /\ Holding(w)' => Holding(w) /\ work'[w].id = work[w].id
  BY WorkerShape
<1>2. UNCHANGED calls
  BY DEF WorkerStep, WorkerExit, Start, Complete, HandleFailure, WorkerDel, FetchCached,
     FetchRow, FetchFill, Archive, history
<1>3. Executes(w)' => Executes(w)
  <2>1. CASE Start(w)
    BY <2>1 DEF Start, Executes
  <2>2. CASE WorkerDel(w)
    <3>1. PICK next \in {"range", "call", "get"} : next = work[w].next
      BY <1>0 DEF WorkType
    <3>2. /\ next # "range" => work'[w].pc = next
          /\ next = "range" => work'[w] = IdleWorker
      BY <1>0, <2>2, <3>1 DEF WorkerDel, EndWork, SetWork, WorkType
    <3> QED BY <2>2, <3>1, <3>2 DEF WorkerDel, Executes, IdleWorker
  <2>3. CASE Complete(w) \/ HandleFailure(w)
    <3>1. work[w].pc \in {"done", "fail"}
      BY <2>3 DEF Complete, HandleFailure
    <3>2. UpdateFailed(w) \/ \E next \in {"range", "get"} : Committed(w, next)
      BY <2>3 DEF Complete, HandleFailure
    <3>3. CASE UpdateFailed(w)
      BY <1>0, <3>1, <3>3, UpdateFailedEffect DEF Executes, IdleWorker
    <3>4. ASSUME NEW next \in {"range", "get"}, Committed(w, next) PROVE ~Executes(w)'
      BY <1>0, <3>1, <3>4, CommittedEffect DEF Executes, IdleWorker
    <3> QED BY <3>2, <3>3, <3>4
  <2>4. CASE WorkerExit(w) \/ FetchCached(w) \/ FetchRow(w) \/ FetchFill(w) \/ Archive(w)
    <3>1. work'[w].pc \in {"range", "exited", "fill", "archive"}
      BY <2>4, <1>0 DEF WorkerExit, FetchCached, FetchRow, FetchFill, Archive, Inspect,
         EndWork, SetWork, UpdateFailed, WorkType, IdleWorker
    <3> QED BY <3>1 DEF Executes
  <2> QED BY <2>1, <2>2, <2>3, <2>4 DEF WorkerStep
<1>4. Executes(w)' => work'[w].id = work[w].id
  BY <1>1 DEF Executes, Holding
<1>5. Executing(x)' \subseteq Executing(x)
  BY <1>1, <1>3, <1>4 DEF Executing, Executes
<1>6. Queued(x)' = Queued(x) /\ Picked(x)' = Picked(x)
  BY <1>1 DEF Queued, Picked
<1>7. /\ Open(x)' + Spare(x)' <= Open(x) + Spare(x)
      /\ tasks'[x].status = "NONE" => tasks[x].status = "NONE"
  <2>1. CASE Start(w) \/ Complete(w) \/ HandleFailure(w)
    BY <2>1, UpdateWeight
  <2>2. CASE UNCHANGED tasks
    <3>1. Open(x) + Spare(x) \in Nat
      BY BudgetTypes, SchedulerAssumption
    <3> QED BY <2>2, <3>1, SameRowWeight
  <2> QED BY <2>1, <2>2 DEF WorkerStep, WorkerExit, WorkerDel, FetchCached, FetchRow, FetchFill, Archive
<1>8. Picked(x)' <= Picked(x)
  BY <1>6, BudgetTypes
<1> QED BY <1>1, <1>2, <1>5, <1>6, <1>7, <1>8, BudgetKept

\* A callback: one more made, one less waiting.
LEMMA CallBudget ==
  ASSUME TypeOK, NEW w \in Worker, ExecuteCallback(w), NEW x \in Task, InBudget(x)
  PROVE  InBudget(x)'
<1>0. /\ calls \in [Task -> Nat] /\ WorkType
      /\ UNCHANGED <<tasks, chan, tick, moves>>
  BY DEF TypeOK, HistoryType, ExecuteCallback
<1>1. PICK t \in Task : t = work[w].id
  BY <1>0, HoldsTask DEF ExecuteCallback
<1>2. /\ Executes(w) /\ ~Executes(w)'
      /\ \A v \in Worker : v # w => work'[v] = work[v]
  BY <1>0 DEF ExecuteCallback, Executes, SetWork, WorkType
<1>3. /\ calls'[t] = calls[t] + 1
      /\ \A y \in Task : y # t => calls'[y] = calls[y]
  BY <1>0, <1>1 DEF ExecuteCallback
<1>4. /\ Queued(x)' = Queued(x) /\ Picked(x)' = Picked(x)
      /\ Open(x)' = Open(x) /\ Spare(x)' = Spare(x)
  BY <1>0 DEF Queued, Picked, Open, Spare
<1>5. Executing(x)' = Executing(x) \ {w}
  BY <1>2 DEF Executing, Executes
<1>6. w \in Executing(x) <=> x = t
  BY <1>1, <1>2 DEF Executing
<1>7. /\ IsFiniteSet(Executing(x)')
      /\ Cardinality(Executing(x)') = IF x = t THEN Cardinality(Executing(x)) - 1
                                               ELSE Cardinality(Executing(x))
      /\ Cardinality(Executing(x)) \in Nat
  BY <1>5, <1>6, FS_RemoveElement, FS_CardinalityType DEF InBudget
<1>8. calls'[x] + Cardinality(Executing(x)') = calls[x] + Cardinality(Executing(x))
  BY <1>0, <1>3, <1>7
<1>9. calls'[x] + Cardinality(Queued(x)') + Picked(x)' + Cardinality(Executing(x)')
        + Open(x)' + Spare(x)' <= (moves'[x] + 1) * (MaxRetries + 1)
  <2>1. PICK b \in Nat : b = (moves[x] + 1) * (MaxRetries + 1)
    BY BudgetTypes
  <2>2. /\ calls[x] \in Nat /\ calls'[x] \in Nat /\ Cardinality(Queued(x)) \in Nat
        /\ Picked(x) \in Nat /\ Open(x) \in Nat /\ Spare(x) \in Nat
        /\ Cardinality(Executing(x)') \in Nat
    <3>1. calls[x] \in Nat /\ calls'[x] \in Nat
      BY <1>0, <1>1, <1>3
    <3>2. Cardinality(Queued(x)) \in Nat /\ Picked(x) \in Nat /\ Open(x) \in Nat /\ Spare(x) \in Nat
      BY BudgetTypes, SchedulerAssumption
    <3>3. Cardinality(Executing(x)') \in Nat
      BY <1>7, FS_CardinalityType
    <3> QED BY <3>1, <3>2, <3>3
  <2>3. calls[x] + Cardinality(Queued(x)) + Picked(x) + Cardinality(Executing(x))
          + Open(x) + Spare(x) <= b
    BY <2>1 DEF InBudget
  <2>4. calls'[x] + Cardinality(Queued(x)') + Picked(x)' + Cardinality(Executing(x)')
          + Open(x)' + Spare(x)' <= b
    BY <1>4, <1>7, <1>8, <2>2, <2>3
  <2> QED BY <1>0, <2>1, <2>4
<1>10. tasks[x].status = "NONE" => x # t
  BY <1>6 DEF InBudget
<1>11. tasks'[x].status = "NONE" =>
         calls'[x] = 0 /\ Queued(x)' = {} /\ Picked(x)' = 0 /\ Executing(x)' = {}
  BY <1>0, <1>3, <1>4, <1>5, <1>10 DEF InBudget
<1> QED BY <1>7, <1>9, <1>11 DEF InBudget

\* Receiving: one position less in the channel, one worker more.
LEMMA TakeBudget ==
  ASSUME TypeOK, NEW w \in Worker, Take(w), NEW x \in Task, InBudget(x)
  PROVE  InBudget(x)'
<1>0. UNCHANGED <<tasks, tick, moves, calls>> /\ WorkType
  BY DEF Take, history, TypeOK
<1>1. PICK h \in Task : h = Head(chan) /\ h = chan[1]
  BY DEF Take, TypeOK, ChanType
<1>2. /\ work'[w].id = h /\ Executes(w)' /\ ~Executes(w)
      /\ \A v \in Worker : v # w => work'[v] = work[v]
  BY <1>0, <1>1 DEF Take, SetWork, WorkType, Executes
<1>3. /\ chan' = Tail(chan) /\ chan \in Seq(Task) /\ Len(chan) \in Nat /\ Len(chan) # 0
      /\ Len(chan') = Len(chan) - 1
      /\ \A i \in 1 .. Len(chan') : i + 1 \in 1 .. Len(chan) /\ chan'[i] = chan[i + 1]
  BY DEF Take, TypeOK, ChanType
<1>4. IsFiniteSet(Queued(x)) /\ Cardinality(Queued(x)) \in Nat
  BY BudgetTypes
<1> DEFINE rest == Queued(x) \ {1}
           shift == [i \in Queued(x)' |-> i + 1]
<1>5. /\ IsFiniteSet(rest)
      /\ Cardinality(rest) = IF 1 \in Queued(x) THEN Cardinality(Queued(x)) - 1
                                                ELSE Cardinality(Queued(x))
  BY <1>4, FS_RemoveElement
<1>6. 1 \in Queued(x) <=> x = h
  BY <1>1, <1>3 DEF Queued
<1>7. shift \in Injection(Queued(x)', rest)
  <2>1. \A i \in Queued(x)' : i \in Nat /\ i > 0 /\ i + 1 \in Queued(x)
    BY <1>3 DEF Queued
  <2>2. shift \in [Queued(x)' -> rest]
    BY <2>1
  <2>3. \A i, j \in Queued(x)' : shift[i] = shift[j] => i = j
    BY <2>1
  <2> QED BY <2>2, <2>3 DEF Injection, IsInjective
<1>8. IsFiniteSet(Queued(x)') /\ Cardinality(Queued(x)') <= Cardinality(rest)
  BY <1>5, <1>7, FS_Injection
<1>9. Cardinality(Queued(x)') \in Nat /\ Cardinality(rest) \in Nat
  BY <1>5, <1>8, FS_CardinalityType
<1>10. Executing(x)' = IF x = h THEN Executing(x) \cup {w} ELSE Executing(x)
  BY <1>2 DEF Executing, Executes
<1>11. w \notin Executing(x) /\ IsFiniteSet(Executing(x))
  BY <1>2 DEF Executing, InBudget
<1>12. /\ IsFiniteSet(Executing(x)')
       /\ Cardinality(Executing(x)') = IF x = h THEN Cardinality(Executing(x)) + 1
                                                ELSE Cardinality(Executing(x))
       /\ Cardinality(Executing(x)) \in Nat
  BY <1>10, <1>11, FS_AddElement, FS_CardinalityType
<1> HIDE DEF rest, shift
<1>13. Cardinality(Queued(x)') + Cardinality(Executing(x)')
         <= Cardinality(Queued(x)) + Cardinality(Executing(x))
  BY <1>4, <1>5, <1>6, <1>8, <1>9, <1>12
<1>14. Picked(x)' = Picked(x) /\ Open(x)' = Open(x) /\ Spare(x)' = Spare(x)
  BY <1>0 DEF Picked, Open, Spare
<1>15. calls'[x] + Cardinality(Queued(x)') + Picked(x)' + Cardinality(Executing(x)')
         + Open(x)' + Spare(x)' <= (moves'[x] + 1) * (MaxRetries + 1)
  <2>1. PICK b \in Nat : b = (moves[x] + 1) * (MaxRetries + 1)
    BY BudgetTypes
  <2>2. /\ calls[x] \in Nat /\ Picked(x) \in Nat /\ Open(x) \in Nat /\ Spare(x) \in Nat
    BY BudgetTypes, SchedulerAssumption
  <2>3. calls[x] + Cardinality(Queued(x)) + Picked(x) + Cardinality(Executing(x))
          + Open(x) + Spare(x) <= b
    BY <2>1 DEF InBudget
  <2>4. Cardinality(Executing(x)') \in Nat
    BY <1>12, FS_CardinalityType
  <2>5. calls[x] + Cardinality(Queued(x)') + Picked(x) + Cardinality(Executing(x)')
          + Open(x) + Spare(x) <= b
    BY <1>4, <1>9, <1>12, <1>13, <2>2, <2>3, <2>4
  <2> QED BY <1>0, <1>14, <2>1, <2>5
<1>16. tasks[x].status = "NONE" => x # h /\ Queued(x)' = {}
  <2>1. tasks[x].status = "NONE" => Queued(x) = {}
    BY DEF InBudget
  <2>2. \A i \in Queued(x)' : i + 1 \in Queued(x)
    BY <1>3 DEF Queued
  <2> QED BY <1>6, <2>1, <2>2
<1>17. tasks'[x].status = "NONE" =>
         calls'[x] = 0 /\ Queued(x)' = {} /\ Picked(x)' = 0 /\ Executing(x)' = {}
  BY <1>0, <1>10, <1>14, <1>16 DEF InBudget
<1> QED BY <1>12, <1>15, <1>17 DEF InBudget

\* tickLoop: a claim turns PENDING into a task in hand, a send puts it in the
\* channel.
LEMMA TickBudget ==
  ASSUME TypeOK, TypeOK', TickLoop, NEW x \in Task, InBudget(x)
  PROVE  InBudget(x)'
<1>0. UNCHANGED <<work, moves, calls>> /\ tasks \in [Task -> Row]
  BY DEF TickLoop, TickRead, TickClaim, TickClaimLost, TickPush, TickExit, history, TypeOK, StoreType
<1>1. Executing(x)' = Executing(x)
  BY <1>0 DEF Executing, Executes
<1>2. /\ calls[x] \in Nat /\ Cardinality(Queued(x)) \in Nat /\ IsFiniteSet(Queued(x))
      /\ Picked(x) \in {0, 1} /\ Open(x) \in {0, 1} /\ Spare(x) \in Nat
  BY BudgetTypes, SchedulerAssumption
<1>3. IsFiniteSet(Executing(x)) /\ Cardinality(Executing(x)) \in Nat
  BY FS_CardinalityType DEF InBudget
\* The terms tickLoop can change.
<1>4. ASSUME Cardinality(Queued(x)') \in Nat, Picked(x)' \in Nat, Open(x)' \in Nat,
             Spare(x)' = Spare(x),
             Cardinality(Queued(x)') + Picked(x)' + Open(x)'
               <= Cardinality(Queued(x)) + Picked(x) + Open(x),
             tasks'[x].status = "NONE" =>
               tasks[x].status = "NONE" /\ Queued(x)' = {} /\ Picked(x)' = 0
      PROVE  InBudget(x)'
  <2>1. PICK b \in Nat : b = (moves[x] + 1) * (MaxRetries + 1)
    BY BudgetTypes
  <2>2. calls[x] + Cardinality(Queued(x)) + Picked(x) + Cardinality(Executing(x))
          + Open(x) + Spare(x) <= b
    BY <2>1 DEF InBudget
  <2>3. calls[x] + Cardinality(Queued(x)') + Picked(x)' + Cardinality(Executing(x))
          + Open(x)' + Spare(x) <= b
    BY <1>2, <1>3, <1>4, <2>2
  <2>4. calls'[x] + Cardinality(Queued(x)') + Picked(x)' + Cardinality(Executing(x)')
          + Open(x)' + Spare(x)' <= (moves'[x] + 1) * (MaxRetries + 1)
    BY <1>0, <1>1, <1>4, <2>1, <2>3
  <2>5. tasks'[x].status = "NONE" => calls'[x] = 0 /\ Executing(x)' = {}
    BY <1>0, <1>1, <1>4 DEF InBudget
  <2> QED BY <1>1, <1>3, <1>4, <2>4, <2>5 DEF InBudget
<1>5. CASE TickClaim \/ TickClaimLost
  <2>1. PICK S \in SUBSET Task : /\ Claimable(S, tick.room) /\ ClaimRows(S)
                                 /\ tick'.jobs = S \/ tick'.jobs = {}
    BY <1>5 DEF TickClaim, TickClaimLost, SetTick
  <2>2. Queued(x)' = Queued(x)
    BY <1>5 DEF TickClaim, TickClaimLost, Queued
  <2>3. CASE x \in S
    <3>1. tasks[x].status = "PENDING" /\ Open(x) = 1
      BY <2>1, <2>3 DEF Claimable, Due, Open
    <3>2. tasks'[x].status = "QUEUED" /\ tasks'[x].retry = tasks[x].retry
      BY <1>0, <2>1, <2>3 DEF ClaimRows, Row
    <3>3. Open(x)' = 0 /\ Spare(x)' = Spare(x) /\ Picked(x)' \in {0, 1}
      BY <3>2 DEF Open, Spare, Picked
    <3> QED BY <1>2, <1>4, <2>2, <3>1, <3>2, <3>3
  <2>4. CASE x \notin S
    <3>1. tasks'[x] = tasks[x]
      BY <2>1, <2>4 DEF ClaimRows
    <3>2. Open(x)' = Open(x) /\ Spare(x)' = Spare(x) /\ Picked(x)' = 0
      BY <2>1, <2>4, <3>1 DEF Open, Spare, Picked
    <3>3. tasks'[x].status = "NONE" => Queued(x)' = {}
      BY <2>2, <3>1 DEF InBudget
    <3> QED BY <1>2, <1>4, <2>2, <3>1, <3>2, <3>3
  <2> QED BY <2>3, <2>4
<1>6. CASE TickPush
  <2>1. PICK t \in tick.jobs :
          /\ chan' = IF Len(chan) < QueueCapacity THEN Append(chan, t) ELSE chan
          /\ SetTick(IF tick.jobs = {t} THEN "wait" ELSE "push", 0, tick.jobs \ {t})
    BY <1>6 DEF TickPush
  <2>2. t \in Task /\ tick'.jobs = tick.jobs \ {t} /\ UNCHANGED tasks
    BY <1>6, <2>1 DEF TickPush, SetTick, TypeOK, TickType
  <2>3. Open(x)' = Open(x) /\ Spare(x)' = Spare(x)
    BY <2>2 DEF Open, Spare
  <2>4. Picked(x)' = IF x = t THEN 0 ELSE Picked(x)
    BY <2>2 DEF Picked
  <2>5. x = t => Picked(x) = 1
    BY <2>1 DEF Picked
  <2>6. Queued(x)' = IF x = t /\ chan' # chan THEN Queued(x) \cup {Len(chan) + 1} ELSE Queued(x)
    <3>1. CASE chan' = chan
      BY <3>1 DEF Queued
    <3>2. CASE chan' = Append(chan, t)
      <4>1. /\ chan \in Seq(Task) /\ Len(chan) \in Nat /\ Len(chan') = Len(chan) + 1
            /\ chan'[Len(chan) + 1] = t
            /\ \A i \in 1 .. Len(chan) : chan'[i] = chan[i]
        BY <2>2, <3>2 DEF TypeOK, ChanType
      <4>2. chan' # chan
        BY <4>1
      <4>3. 1 .. Len(chan') = (1 .. Len(chan)) \cup {Len(chan) + 1}
        BY <4>1
      <4> QED BY <4>1, <4>2, <4>3 DEF Queued
    <3> QED BY <2>1, <3>1, <3>2
  <2>7. /\ Cardinality(Queued(x)') \in Nat
        /\ Cardinality(Queued(x)') <= IF x = t THEN Cardinality(Queued(x)) + 1
                                               ELSE Cardinality(Queued(x))
    <3>1. PICK Q : Q = Queued(x) /\ IsFiniteSet(Q) /\ Cardinality(Q) \in Nat
      BY <1>2
    <3>2. PICK n : n = Len(chan) + 1
      OBVIOUS
    <3>3. Cardinality(Q \cup {n}) = Cardinality(Q) \/ Cardinality(Q \cup {n}) = Cardinality(Q) + 1
      BY <3>1, FS_AddElement
    <3>4. Queued(x)' = Q \/ (x = t /\ Queued(x)' = Q \cup {n})
      BY <2>6, <3>1, <3>2
    <3>5. CASE Queued(x)' = Q
      BY <3>1, <3>5
    <3>6. CASE x = t /\ Queued(x)' = Q \cup {n}
      BY <3>1, <3>3, <3>6
    <3> QED BY <3>4, <3>5, <3>6
  <2>8. tasks'[x].status = "NONE" => x # t /\ Queued(x)' = {} /\ Picked(x)' = 0
    BY <2>2, <2>4, <2>5, <2>6 DEF InBudget
  <2>9. Picked(x)' \in Nat
    BY <1>2, <2>4
  <2>10. Cardinality(Queued(x)') + Picked(x)' + Open(x)'
           <= Cardinality(Queued(x)) + Picked(x) + Open(x)
    BY <1>2, <2>3, <2>4, <2>5, <2>7
  <2> QED BY <1>2, <1>4, <2>2, <2>3, <2>7, <2>8, <2>9, <2>10
<1>7. CASE TickRead \/ TickExit
  <2>1. UNCHANGED <<tasks, chan>> /\ tick'.jobs = {} /\ tick.jobs = {}
    BY <1>7 DEF TickRead, TickExit, SetTick, TypeOK, TickType
  <2>2. /\ Queued(x)' = Queued(x) /\ Picked(x)' = Picked(x) /\ Picked(x) = 0
        /\ Open(x)' = Open(x) /\ Spare(x)' = Spare(x)
    BY <2>1 DEF Queued, Picked, Open, Spare
  <2>3. tasks'[x].status = "NONE" => tasks[x].status = "NONE" /\ Queued(x)' = {} /\ Picked(x)' = 0
    BY <2>1, <2>2 DEF InBudget
  <2> QED BY <1>2, <1>4, <2>2, <2>3
<1> QED BY <1>5, <1>6, <1>7 DEF TickLoop

\* The handlers: a new row brings the first MaxRetries + 1 callbacks, a
\* rescheduling as many again.
LEMMA HandlerBudget ==
  ASSUME TypeOK, TypeOK', Handler, NEW x \in Task, InBudget(x)
  PROVE  InBudget(x)'
<1>0. /\ UNCHANGED <<chan, tick, work, calls>> /\ tasks \in [Task -> Row]
      /\ moves \in [Task -> Nat]
  BY DEF Handler, CreateTask, CacheExpires, GetTask, UpdateTask, GetTaskFill, UpdateTaskDel,
     history, TypeOK, StoreType, HistoryType
<1>1. Queued(x)' = Queued(x) /\ Picked(x)' = Picked(x) /\ Executing(x)' = Executing(x)
  BY <1>0 DEF Queued, Picked, Executing, Executes
<1>2. /\ calls[x] \in Nat /\ Cardinality(Queued(x)) \in Nat /\ IsFiniteSet(Queued(x))
      /\ Picked(x) \in Nat /\ Open(x) \in Nat /\ Spare(x) \in Nat /\ MaxRetries \in Nat
  BY BudgetTypes, SchedulerAssumption
<1>3. IsFiniteSet(Executing(x)) /\ Cardinality(Executing(x)) \in Nat
  BY FS_CardinalityType DEF InBudget
<1>4. CASE tasks'[x] = tasks[x] /\ moves'[x] = moves[x]
  <2>1. Open(x)' = Open(x) /\ Spare(x)' = Spare(x)
    BY <1>4, SameRowWeight
  <2>2. Picked(x)' <= Picked(x) /\ Open(x)' + Spare(x)' <= Open(x) + Spare(x)
    BY <1>1, <1>2, <2>1
  <2> QED BY <1>0, <1>1, <1>4, <2>2, BudgetKept
<1>5. ASSUME NEW due \in BOOLEAN,
             SetRow(x, [status |-> "PENDING", retry |-> 0, due |-> due])
      PROVE  Open(x)' = 1 /\ Spare(x)' = MaxRetries /\ tasks'[x].status # "NONE"
  <2>1. tasks'[x] = [status |-> "PENDING", retry |-> 0, due |-> due]
    BY <1>0, <1>5 DEF SetRow
  <2>2. MaxRetries > 0
    BY SchedulerAssumption
  <2> QED BY <1>2, <2>1, <2>2 DEF Open, Spare
<1>6. CASE CreateTask(x)
  <2>1. tasks[x].status = "NONE" /\ UNCHANGED moves
    BY <1>6 DEF CreateTask
  <2>2. Open(x)' = 1 /\ Spare(x)' = MaxRetries /\ tasks'[x].status # "NONE"
    BY <1>5, <1>6 DEF CreateTask
  <2>3. calls[x] = 0 /\ Queued(x) = {} /\ Picked(x) = 0 /\ Executing(x) = {}
    BY <2>1 DEF InBudget
  <2>4. Cardinality(Queued(x)) = 0 /\ Cardinality(Executing(x)) = 0
    BY <2>3, FS_EmptySet
  <2>5. moves[x] \in Nat
    BY <1>0
  <2>6. (moves[x] + 1) * (MaxRetries + 1) >= MaxRetries + 1
    BY <1>2, <2>5
  <2>7. calls'[x] + Cardinality(Queued(x)') + Picked(x)' + Cardinality(Executing(x)')
          + Open(x)' + Spare(x)' = 1 + MaxRetries
    BY <1>0, <1>1, <1>2, <2>2, <2>3, <2>4
  <2>8. 1 + MaxRetries <= (moves'[x] + 1) * (MaxRetries + 1)
    BY <1>2, <2>1, <2>5, <2>6
  <2> QED BY <1>1, <1>3, <2>2, <2>7, <2>8 DEF InBudget
<1>7. ASSUME NEW c \in Client, UpdateTask(c, x), ~UNCHANGED <<tasks, moves>>
      PROVE  InBudget(x)'
  <2>1. /\ moves' = [moves EXCEPT ![x] = @ + 1]
        /\ Open(x)' = 1 /\ Spare(x)' = MaxRetries /\ tasks'[x].status # "NONE"
    BY <1>5, <1>7 DEF UpdateTask
  <2>2. moves[x] \in Nat /\ moves'[x] = moves[x] + 1
    BY <1>0, <2>1
  <2>3. PICK b \in Nat : b = (moves[x] + 1) * (MaxRetries + 1)
    BY BudgetTypes
  <2>4. (moves'[x] + 1) * (MaxRetries + 1) = b + MaxRetries + 1
    BY <1>2, <2>2, <2>3
  <2>5. calls[x] + Cardinality(Queued(x)) + Picked(x) + Cardinality(Executing(x))
          + Open(x) + Spare(x) <= b
    BY <2>3 DEF InBudget
  <2>6. calls[x] + Cardinality(Queued(x)) + Picked(x) + Cardinality(Executing(x))
          + 1 + MaxRetries <= b + MaxRetries + 1
    BY <1>2, <1>3, <2>5
  <2>7. calls'[x] + Cardinality(Queued(x)') + Picked(x)' + Cardinality(Executing(x)')
          + Open(x)' + Spare(x)' <= (moves'[x] + 1) * (MaxRetries + 1)
    BY <1>0, <1>1, <2>1, <2>4, <2>6
  <2> QED BY <1>1, <1>3, <2>1, <2>7 DEF InBudget
<1>8. \/ tasks'[x] = tasks[x] /\ moves'[x] = moves[x]
      \/ CreateTask(x)
      \/ \E c \in Client : UpdateTask(c, x) /\ ~UNCHANGED <<tasks, moves>>
  <2>1. ASSUME NEW t \in Task, CreateTask(t), t # x
        PROVE  tasks'[x] = tasks[x] /\ moves'[x] = moves[x]
    BY <1>0, <2>1 DEF CreateTask, SetRow
  <2>2. ASSUME NEW c \in Client, NEW t \in Task, UpdateTask(c, t), t # x
        PROVE  tasks'[x] = tasks[x] /\ moves'[x] = moves[x]
    <3>1. CASE UNCHANGED <<tasks, moves>>
      BY <3>1
    <3>2. CASE ~UNCHANGED <<tasks, moves>>
      BY <1>0, <2>2, <3>2 DEF UpdateTask, SetRow
    <3> QED BY <3>1, <3>2
  <2>3. \/ UNCHANGED <<tasks, moves>>
        \/ \E t \in Task : CreateTask(t) \/ \E c \in Client : UpdateTask(c, t)
    BY DEF Handler, CacheExpires, GetTask, GetTaskFill, UpdateTaskDel, history
  <2> QED BY <2>1, <2>2, <2>3
<1> QED BY <1>4, <1>6, <1>7, <1>8

\* A process that ends makes no more callbacks; one that starts counts anew,
\* and no row grants more than the first MaxRetries + 1.
LEMMA LifecycleBudget ==
  ASSUME TypeOK, TypeOK', DownIsEmpty, Lifecycle, NEW x \in Task, InBudget(x)
  PROVE  InBudget(x)'
<1>0. Open(x) + Spare(x) \in Nat /\ Picked(x) \in {0, 1}
  BY BudgetTypes, SchedulerAssumption
<1>1. ASSUME chan' = <<>>, tick'.jobs = {}, \A w \in Worker : work'[w] = IdleWorker
      PROVE  Queued(x)' = {} /\ Picked(x)' = 0 /\ Executing(x)' = {}
  <2>1. 1 .. Len(chan') = {}
    BY <1>1
  <2> QED BY <1>1, <2>1 DEF Queued, Picked, Executing, Executes, IdleWorker
<1>2. CASE StopProcess
  <2>1. chan' = <<>> /\ tick'.jobs = {} /\ \A w \in Worker : work'[w] = IdleWorker
    BY <1>2 DEF StopProcess, IdleTick
  <2>2. UNCHANGED <<tasks, calls, moves>>
    BY <1>2 DEF StopProcess, history
  <2>3. Queued(x)' = {} /\ Picked(x)' = 0 /\ Executing(x)' = {}
    BY <1>1, <2>1
  <2>4. Open(x)' = Open(x) /\ Spare(x)' = Spare(x)
    BY <2>2, SameRowWeight
  <2>5. Picked(x)' <= Picked(x) /\ Open(x)' + Spare(x)' <= Open(x) + Spare(x)
    BY <1>0, <2>3, <2>4
  <2> QED BY <2>2, <2>3, <2>5, BudgetKept
<1>3. CASE Restart
  <2>1. chan' = <<>> /\ tick'.jobs = {} /\ \A w \in Worker : work'[w] = IdleWorker
    BY <1>3 DEF Restart, DownIsEmpty, IdleTick
  <2>2. Queued(x)' = {} /\ Picked(x)' = 0 /\ Executing(x)' = {}
    BY <1>1, <2>1
  <2>3. calls'[x] = 0 /\ moves'[x] = 0
    BY <1>3 DEF Restart
  <2>4. /\ IsFiniteSet(Executing(x)') /\ Cardinality(Executing(x)') = 0
        /\ Cardinality(Queued(x)') = 0
    BY <2>2, FS_EmptySet
  <2>5. Open(x)' \in {0, 1} /\ Spare(x)' \in 0 .. MaxRetries /\ MaxRetries \in Nat
    <3>1. tasks'[x].retry \in Nat /\ MaxRetries \in Nat
      BY SchedulerAssumption DEF TypeOK, StoreType, Row
    <3> QED BY <3>1 DEF Open, Spare
  <2>6. (moves'[x] + 1) * (MaxRetries + 1) = MaxRetries + 1
    BY <2>3, <2>5
  <2>7. calls'[x] + Cardinality(Queued(x)') + Picked(x)' + Cardinality(Executing(x)')
          + Open(x)' + Spare(x)' <= (moves'[x] + 1) * (MaxRetries + 1)
    BY <2>2, <2>3, <2>4, <2>5, <2>6
  <2> QED BY <2>2, <2>3, <2>4, <2>7 DEF InBudget
<1>4. CASE Signal \/ Stop
  <2>1. UNCHANGED <<tasks, calls, moves, chan, tick, work>>
    BY <1>4 DEF Signal, Stop, history
  <2>2. Queued(x)' = Queued(x) /\ Picked(x)' = Picked(x) /\ Executing(x)' = Executing(x)
    BY <2>1 DEF Queued, Picked, Executing, Executes
  <2>3. Open(x)' = Open(x) /\ Spare(x)' = Spare(x)
    BY <2>1, SameRowWeight
  <2>4. Picked(x)' <= Picked(x) /\ Open(x)' + Spare(x)' <= Open(x) + Spare(x)
    BY <1>0, <2>2, <2>3
  <2> QED BY <2>1, <2>2, <2>4, BudgetKept
<1> QED BY <1>2, <1>3, <1>4 DEF Lifecycle, Exit, Panic, Crash

\* Every step keeps the budget of every task.
LEMMA BudgetStep == TypeOK /\ TypeOK' /\ DownIsEmpty /\ BudgetInv /\ [Next]_vars => BudgetInv'
<1> SUFFICES ASSUME TypeOK, TypeOK', DownIsEmpty, BudgetInv, [Next]_vars, NEW x \in Task
             PROVE  InBudget(x)'
  BY DEF BudgetInv
<1>1. InBudget(x)
  BY DEF BudgetInv
<1>2. CASE Handler
  BY <1>1, <1>2, HandlerBudget
<1>3. CASE TickLoop
  BY <1>1, <1>3, TickBudget
<1>4. ASSUME NEW w \in Worker, WorkerStep(w) PROVE InBudget(x)'
  BY <1>1, <1>4, WorkerBudget, TakeBudget, CallBudget
<1>5. CASE Lifecycle
  BY <1>1, <1>5, LifecycleBudget
<1>6. ASSUME UNCHANGED <<calls, moves, chan, tick, work>>,
             tasks'[x].status = tasks[x].status, tasks'[x].retry = tasks[x].retry
      PROVE  InBudget(x)'
  <2>1. Queued(x)' = Queued(x) /\ Picked(x)' = Picked(x) /\ Executing(x)' = Executing(x)
    BY <1>6 DEF Queued, Picked, Executing, Executes
  <2>2. Open(x)' = Open(x) /\ Spare(x)' = Spare(x)
    BY <1>6, SameRowWeight
  <2>3. Open(x) + Spare(x) \in Nat /\ Picked(x) \in {0, 1}
    BY BudgetTypes, SchedulerAssumption
  <2>4. Picked(x)' <= Picked(x) /\ Open(x)' + Spare(x)' <= Open(x) + Spare(x)
    BY <2>1, <2>2, <2>3
  <2> QED BY <1>1, <1>6, <2>1, <2>4, BudgetKept
<1>7. ASSUME NEW t \in Task, TimePasses(t) PROVE InBudget(x)'
  <2>1. UNCHANGED <<calls, moves, chan, tick, work>>
    BY <1>7 DEF TimePasses, history
  <2>2. tasks'[x].status = tasks[x].status
    BY <1>7, TimePassesType
  <2>3. tasks'[x].retry = tasks[x].retry
    BY <1>7 DEF TimePasses, TypeOK, StoreType, Row
  <2> QED BY <1>6, <2>1, <2>2, <2>3
<1>8. CASE UNCHANGED vars
  BY <1>6, <1>8 DEF vars
<1> QED BY <1>2, <1>3, <1>4, <1>5, <1>7, <1>8 DEF Next

LEMMA BudgetInit == Init => BudgetInv
<1> SUFFICES ASSUME Init, NEW x \in Task PROVE InBudget(x)
  BY DEF BudgetInv
<1>1. 1 .. Len(chan) = {}
  BY DEF Init
<1>2. Queued(x) = {} /\ Picked(x) = 0 /\ Executing(x) = {} /\ calls[x] = 0 /\ moves[x] = 0
  BY <1>1 DEF Init, Queued, Picked, Executing, Executes, IdleTick, IdleWorker
<1>3. IsFiniteSet(Executing(x)) /\ Cardinality(Executing(x)) = 0 /\ Cardinality(Queued(x)) = 0
  BY <1>2, FS_EmptySet
<1>4. tasks[x].status = "NONE" /\ tasks[x].retry = 0
  BY DEF Init, NoRow
<1>5. Open(x) = 0 /\ Spare(x) = MaxRetries /\ MaxRetries \in Nat
  BY <1>4, SchedulerAssumption DEF Open, Spare
<1>6. (moves[x] + 1) * (MaxRetries + 1) = MaxRetries + 1
  BY <1>2, <1>5
<1>7. calls[x] + Cardinality(Queued(x)) + Picked(x) + Cardinality(Executing(x))
        + Open(x) + Spare(x) <= (moves[x] + 1) * (MaxRetries + 1)
  BY <1>2, <1>3, <1>5, <1>6
<1> QED BY <1>2, <1>3, <1>7 DEF InBudget

\* A task gets at most MaxRetries + 1 callbacks from one process, and as many
\* again each time a client reschedules it, although a rescheduled task may be
\* in several workers' hands: for any number of tasks, workers and
\* reschedulings, with or without Redis, and whatever fails.
THEOREM CallbacksBounded == Spec => []CallbackBound
<1>1. TypeOK /\ BudgetInv => CallbackBound
  <2> SUFFICES ASSUME TypeOK, BudgetInv, NEW x \in Task
               PROVE  calls[x] <= (moves[x] + 1) * (MaxRetries + 1)
    BY DEF CallbackBound
  <2>1. /\ calls[x] \in Nat /\ Cardinality(Queued(x)) \in Nat
        /\ Picked(x) \in Nat /\ Open(x) \in Nat /\ Spare(x) \in Nat
    BY BudgetTypes, SchedulerAssumption
  <2>2. Cardinality(Executing(x)) \in Nat
    BY FS_CardinalityType DEF BudgetInv, InBudget
  <2>3. PICK b \in Nat : b = (moves[x] + 1) * (MaxRetries + 1)
    BY BudgetTypes
  <2>4. calls[x] + Cardinality(Queued(x)) + Picked(x) + Cardinality(Executing(x))
          + Open(x) + Spare(x) <= b
    BY <2>3 DEF BudgetInv, InBudget
  <2>5. calls[x] <= b
    BY <2>1, <2>2, <2>4
  <2> QED BY <2>3, <2>5
<1>2. OnceInv => DownIsEmpty
  BY DEF OnceInv
<1> QED BY <1>1, <1>2, BudgetInit, BudgetStep, TypeCorrect, OnceAlways, PTL DEF Spec

=============================================================================
