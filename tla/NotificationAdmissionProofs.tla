--------------------- MODULE NotificationAdmissionProofs ---------------------
(***************************************************************************)
(* What CreateNotification lets in: how far the table can exceed the       *)
(* threshold, and what releases a notification with an execute_at.  Both   *)
(* follow the ids through the system: where a row, a copy in the pipeline  *)
(* or a copy of a handler can have come from.                              *)
(*                                                                         *)
(* And what becomes of it: how many copies of a notification there can be, *)
(* and how often the provider can receive it.  Every copy has a place (an  *)
(* index of a channel, a worker, a job of a poller, a handler, its PENDING *)
(* row, or one of the two that a callback stands for), and a step gives    *)
(* each new place an old one of its own that has made no more attempts.    *)
(***************************************************************************)
EXTENDS NotificationBudgetProofs

-----------------------------------------------------------------------------
(* The flow of copies                                                      *)

\* A channel, a worker or a poller holds a copy of id.
Held(id) ==
  \E s \in Server :
    \/ \E n \in Queued(s) : n.id = id
    \/ \E w \in Worker : work[s][w].pc \notin {"select", "exited"} /\ work[s][w].n.id = id
    \/ \E n \in poll[s].jobs : n.id = id

\* A handler at one of the program points pcs holds a copy of id.
AtHandler(pcs, id) ==
  \E s \in Server, r \in Request : req[s][r].pc \in pcs /\ req[s][r].n.id = id

\* The names of the handlers' steps, for the frame conditions below.
LEMMA HandlerFrame ==
  ASSUME NEW s \in Server, NEW r \in Request, Handler(s, r)
  PROVE  UNCHANGED <<work, poll>>
BY DEF Handler, CreateCheck, CreateReject, CreateSave, CreatePush, CreateAbandon,
   DelegatePost, DelegateOk, DelegateFail, DelegateUndo, DispatchRead, DispatchUpdate, DispatchPush

\* One handler moves on.
LEMMA OneHandler ==
  ASSUME TypeOK, NEW s \in Server, NEW r \in Request, Handler(s, r)
  PROVE  \A t \in Server, q \in Request : <<t, q>> # <<s, r>> => req'[t][q] = req[t][q]
<1>0. ReqType
  BY DEF TypeOK
<1>1. CASE EndReq(s, r)
  BY <1>0, <1>1, EndReqEffect
<1>2. CASE \E pc, mode, n : SetReq(s, r, pc, mode, n)
  BY <1>0, <1>2 DEF SetReq, ReqType
<1>3. EndReq(s, r) \/ \E pc, mode, n : SetReq(s, r, pc, mode, n)
  BY DEF Handler, CreateCheck, CreateReject, CreateSave, CreatePush, CreateAbandon,
     DelegatePost, DelegateOk, DelegateFail, DelegateUndo, DispatchRead, DispatchUpdate, DispatchPush
<1> QED BY <1>1, <1>2, <1>3

\* Copies enter the pipeline from a handler that enqueues or from a claim.
LEMMA HeldFlow ==
  ASSUME TypeOK, Next, NEW id \in Id, Held(id)'
  PROVE  Held(id) \/ AtHandler({"push", "trypush"}, id) \/ rows[id].status = "PENDING"
<1>0. StoreType /\ ChanType /\ WorkType /\ PollType
  BY DEF TypeOK
<1>1. ASSUME NEW s \in Server, NEW r \in Request, Handler(s, r)
      PROVE  Held(id) \/ AtHandler({"push", "trypush"}, id)
  <2>1. UNCHANGED <<work, poll>>
    BY <1>1, HandlerFrame
  <2>2. CASE UNCHANGED chan
    BY <2>1, <2>2 DEF Held, Queued
  <2>3. CASE CreatePush(s, r) \/ DispatchPush(s, r)
    <3>1. PICK n \in Copy : n = req[s][r].n
      BY <2>3, HoldsCopy DEF CreatePush, DispatchPush
    <3>2. UNCHANGED chan \/ Enqueue(s, n)
      BY <2>3, <3>1 DEF CreatePush, DispatchPush
    <3>3. CASE Enqueue(s, n)
      <4>1. \A t \in Server : Queued(t)' \subseteq Queued(t) \cup {n}
        BY <1>0, <3>3, EnqueueQueued
      <4>2. Held(id) \/ n.id = id
        BY <2>1, <4>1 DEF Held
      <4> QED BY <2>3, <3>1, <4>2 DEF AtHandler, CreatePush, DispatchPush
    <3> QED BY <2>2, <3>2, <3>3
  <2> QED BY <1>1, <2>2, <2>3 DEF Handler, CreateCheck, CreateReject, CreateSave, CreateAbandon,
             DelegatePost, DelegateOk, DelegateFail, DelegateUndo, DispatchRead, DispatchUpdate
<1>2. ASSUME NEW s \in Server, NEW w \in Worker, WorkerTake(s, w) \/ WorkerExit(s, w) \/ Process(s, w)
      PROVE  Held(id)
  <2> USE NoCopyIsNoCopy
  <2>1. UNCHANGED poll
    BY <1>2 DEF WorkerTake, WorkerExit, Process, ProcessPanic, ProcessStart, ProcessSend, ProcessSent,
       ProcessRetry, ProcessDead, ProcessArchive
  <2>2. CASE WorkerTake(s, w)
    <3>1. PICK n \in Copy : n = Head(chan[s])
      BY <1>0, <2>2 DEF WorkerTake, ChanType
    <3>2. n \in Queued(s) /\ \A t \in Server : Queued(t)' \subseteq Queued(t)
      BY <1>0, <2>2, <3>1, TakeQueued DEF WorkerTake
    <3>3. /\ work'[s][w].pc = "start" /\ work'[s][w].n = n
          /\ \A t \in Server, v \in Worker : <<t, v>> # <<s, w>> => work'[t][v] = work[t][v]
      BY <1>0, <2>2, <3>1, SetWorkEffect DEF WorkerTake, WorkerPc
    <3> QED BY <2>1, <3>2, <3>3 DEF Held
  <2>3. CASE WorkerExit(s, w) \/ Process(s, w)
    <3>1. UNCHANGED chan
      BY <2>3 DEF WorkerExit, Process, ProcessPanic, ProcessStart, ProcessSend, ProcessSent, ProcessRetry,
         ProcessDead, ProcessArchive
    <3>2. /\ work'[s][w].pc \notin {"select", "exited"} =>
               work[s][w].pc \notin {"select", "exited"} /\ work'[s][w].n.id = work[s][w].n.id
          /\ \A t \in Server, v \in Worker : <<t, v>> # <<s, w>> => work'[t][v] = work[t][v]
      <4>1. CASE WorkerExit(s, w)
        BY <1>0, <4>1, SetWorkEffect DEF WorkerExit, WorkerPc
      <4>2. CASE ProcessStart(s, w) \/ ProcessDead(s, w)
        <5>1. PICK n \in Copy : n = work[s][w].n
          BY <4>2, HoldsCopy DEF ProcessStart, ProcessDead
        <5>2. PICK pc \in {"send", "archive"} : SetWork(s, w, pc, n)
          BY <4>2, <5>1 DEF ProcessStart, ProcessDead
        <5>3. /\ work'[s][w].n = n
              /\ \A t \in Server, v \in Worker : <<t, v>> # <<s, w>> => work'[t][v] = work[t][v]
          BY <1>0, <5>2, SetWorkEffect DEF WorkerPc
        <5> QED BY <4>2, <5>1, <5>3 DEF ProcessStart, ProcessDead
      <4>3. CASE \/ ProcessPanic(s, w) \/ ProcessSent(s, w) \/ ProcessRetry(s, w)
                 \/ ProcessArchive(s, w)
        <5>1. SetWork(s, w, "select", NoCopy)
          BY <4>3 DEF ProcessPanic, ProcessSent, ProcessRetry, ProcessArchive
        <5> QED BY <1>0, <5>1, SetWorkEffect DEF WorkerPc
      <4>4. CASE ProcessSend(s, w)
        <5>1. PICK pc \in {"sent", "retry", "dead"}, n \in Copy :
                SetWork(s, w, pc, n) /\ n.id = work[s][w].n.id
          BY <4>4, ProcessSendEffect
        <5>2. /\ work'[s][w].n = n
              /\ \A t \in Server, v \in Worker : <<t, v>> # <<s, w>> => work'[t][v] = work[t][v]
          BY <1>0, <5>1, SetWorkEffect DEF WorkerPc
        <5> QED BY <4>4, <5>1, <5>2 DEF ProcessSend
      <4> QED BY <2>3, <4>1, <4>2, <4>3, <4>4 DEF Process
    <3> QED BY <2>1, <3>1, <3>2 DEF Held, Queued
  <2> QED BY <1>2, <2>2, <2>3
<1>3. ASSUME NEW s \in Server, RetryScheduler(s)
      PROVE  Held(id) \/ rows[id].status = "PENDING"
  <2>1. UNCHANGED work
    BY <1>3 DEF RetryScheduler, PollClaim, PollClaimLost, PollNext, PollPush, PollExit
  <2>2. CASE PollClaim(s)
    <3>1. PICK S \in SUBSET Id :
            /\ \A x \in S : rows[x].status = "PENDING"
            /\ poll'[s].jobs = {CopyOf(x) : x \in S}
            /\ \A t \in Server : t # s => poll'[t] = poll[t]
      BY <2>2, PollClaimEffect
    <3>2. \A n \in poll'[s].jobs : rows[n.id].status = "PENDING"
      BY <3>1 DEF CopyOf
    <3> QED BY <2>1, <2>2, <3>1, <3>2 DEF Held, Queued, PollClaim
  <2>3. CASE PollClaimLost(s) \/ PollNext(s) \/ PollExit(s)
    <3>1. \A t \in Server : poll'[t].jobs \subseteq poll[t].jobs
      BY <2>3, PollOtherEffect
    <3> QED BY <2>1, <2>3, <3>1 DEF Held, Queued, PollClaimLost, PollNext, PollExit
  <2>4. CASE PollPush(s)
    <3>1. \A t \in Server : poll'[t].jobs \subseteq poll[t].jobs
      BY <2>4, PollOtherEffect
    <3>2. PICK n \in Copy : n = poll[s].job /\ n \in poll[s].jobs
      BY <1>0, <2>4, HoldsCopy DEF PollPush, PollType
    <3>3. \A t \in Server : Queued(t)' \subseteq Queued(t) \cup {n}
      BY <1>0, <2>4, <3>2, EnqueueQueued DEF PollPush
    <3> QED BY <2>1, <3>1, <3>2, <3>3 DEF Held
  <2> QED BY <1>3, <2>2, <2>3, <2>4 DEF RetryScheduler
<1>4. ASSUME NEW s \in Server, Lifecycle(s)
      PROVE  Held(id)
  <2>1. CASE Exit(s) \/ Crash(s)
    BY <2>1, StopProcessEffect DEF Exit, Crash, Held
  <2>2. CASE Signal(s) \/ BeginShutdown(s) \/ CloseChannel(s) \/ Restart(s)
    BY <2>2 DEF Signal, BeginShutdown, CloseChannel, Restart, Held, Queued
  <2> QED BY <1>4, <2>1, <2>2 DEF Lifecycle
<1>5. ASSUME NEW x \in Id, Environment(x)
      PROVE  Held(id)
  BY <1>5 DEF Environment, BackoffElapses, TaskStored, TaskRefused, Held, Queued
<1> QED BY <1>1, <1>2, <1>3, <1>4, <1>5 DEF Next

\* Where the copy of a handler comes from.
LEMMA ReqFlow ==
  ASSUME TypeOK, Next, NEW s \in Server, NEW r \in Request
  PROVE  \/ req'[s][r] = req[s][r]
         \/ req'[s][r].pc = "idle"
         \/ CreateCheck(s, r) /\ req'[s][r].pc = "checked" /\ req'[s][r].mode \in Modes
         \/ CreateSave(s, r)
         \/ /\ <<req[s][r].pc, req'[s][r].pc>> \in {<<"delegate", "wait">>, <<"wait", "undo">>, <<"update", "trypush">>}
            /\ req'[s][r].n = req[s][r].n
         \/ \E id \in Id : /\ id \in tasks /\ rows[id].status = "SCHEDULED"
                           /\ req'[s][r].pc = "update" /\ req'[s][r].n.id = id
<1> USE NoCopyIsNoCopy
<1>0. ReqType /\ StoreType
  BY DEF TypeOK
<1>00. req[s][r].mode \in {"now", "later"}
  BY <1>0 DEF ReqType
<1>1. ASSUME NEW t \in Server, NEW q \in Request, Handler(t, q), <<t, q>> # <<s, r>>
      PROVE  req'[s][r] = req[s][r]
  BY <1>1, OneHandler
<1>2. CASE EndReq(s, r)
  BY <1>0, <1>2, EndReqEffect
<1>3. CASE CreateCheck(s, r)
  <2>1. PICK mode \in Modes : SetReq(s, r, "checked", mode, NoCopy)
    BY <1>3 DEF CreateCheck
  <2>2. mode \in {"now", "later"}
    BY ConstantsAssumption
  <2>3. req'[s][r].pc = "checked" /\ req'[s][r].mode = mode
    BY <1>0, <2>1, <2>2, SetReqEffect DEF ReqPc
  <2> QED BY <1>3, <2>3
<1>4. CASE DelegatePost(s, r) \/ DelegateFail(s, r)
  <2>1. PICK n \in Copy : n = req[s][r].n
    BY <1>4, HoldsCopy DEF DelegatePost, DelegateFail
  <2>2. PICK pc \in {"wait", "undo"} : SetReq(s, r, pc, req[s][r].mode, n) /\ req[s][r].pc =
          IF pc = "wait" THEN "delegate" ELSE "wait"
    BY <1>4, <2>1 DEF DelegatePost, DelegateFail
  <2>3. req'[s][r].pc = pc /\ req'[s][r].n = n
    BY <1>0, <1>00, <2>1, <2>2, SetReqEffect DEF ReqPc
  <2> QED BY <2>1, <2>2, <2>3
<1>5. CASE \E id \in Id : DispatchRead(s, r, id)
  <2>1. PICK id \in Id : DispatchRead(s, r, id)
    BY <1>5
  <2>2. PICK n \in Copy : n = CopyOf(id)
    BY <1>0, CopyOfType
  <2>3. req'[s][r].pc = "update" /\ req'[s][r].n = n
    BY <1>0, <2>1, <2>2, SetReqEffect DEF DispatchRead, ReqPc
  <2> QED BY <2>1, <2>2, <2>3 DEF DispatchRead, CopyOf
<1>6. CASE DispatchUpdate(s, r)
  <2>1. PICK n \in Copy : n = req[s][r].n
    BY <1>6, HoldsCopy DEF DispatchUpdate
  <2>2. CASE SetReq(s, r, "trypush", "later", n)
    <3>1. req'[s][r].pc = "trypush" /\ req'[s][r].n = n
      BY <1>0, <2>2, SetReqEffect DEF ReqPc
    <3> QED BY <1>6, <2>1, <3>1 DEF DispatchUpdate
  <2> QED BY <1>2, <1>6, <2>1, <2>2 DEF DispatchUpdate
<1>7. CASE Handler(s, r)
  BY <1>2, <1>3, <1>4, <1>5, <1>6, <1>7 DEF Handler, CreateReject, CreatePush, CreateAbandon,
     DelegateOk, DelegateUndo, DispatchPush
<1>8. ASSUME NEW t \in Server, NEW w \in Worker, WorkerTake(t, w) \/ WorkerExit(t, w) \/ Process(t, w)
      PROVE  UNCHANGED req
  BY <1>8 DEF WorkerTake, WorkerExit, Process, ProcessPanic, ProcessStart, ProcessSend, ProcessSent,
     ProcessRetry, ProcessDead, ProcessArchive
<1>9. ASSUME NEW t \in Server, RetryScheduler(t) PROVE UNCHANGED req
  BY <1>9 DEF RetryScheduler, PollClaim, PollClaimLost, PollNext, PollPush, PollExit
<1>10. ASSUME NEW t \in Server, Lifecycle(t)
       PROVE  req'[s][r] = req[s][r] \/ req'[s][r].pc = "idle"
  <2>1. CASE Exit(t) \/ Crash(t)
    BY <2>1, StopProcessEffect DEF Exit, Crash
  <2> QED BY <1>10, <2>1 DEF Lifecycle, Signal, BeginShutdown, CloseChannel, Restart
<1>11. ASSUME NEW x \in Id, Environment(x) PROVE UNCHANGED req
  BY <1>11 DEF Environment, BackoffElapses, TaskStored, TaskRefused
<1>12. ASSUME NEW t \in Server, NEW q \in Request, Handler(t, q)
       PROVE  Handler(s, r) \/ req'[s][r] = req[s][r]
  BY <1>1, <1>12
<1> QED BY <1>7, <1>8, <1>9, <1>10, <1>11, <1>12 DEF Next

\* The INSERT of CreateNotification, in detail.
LEMMA CreateSaveEffect ==
  ASSUME TypeOK, NEW s \in Server, NEW r \in Request, CreateSave(s, r)
  PROVE  \E id \in Id \ Stored :
           /\ \A x \in Id : x # id => rows'[x] = rows[x]
           /\ rows'[id].status = IF req[s][r].mode = "later" THEN "SCHEDULED" ELSE "PENDING"
           /\ req'[s][r].pc = IF req[s][r].mode = "later" THEN "delegate" ELSE "push"
           /\ req'[s][r].n.id = id
           /\ \A t \in Server, q \in Request : <<t, q>> # <<s, r>> => req'[t][q] = req[t][q]
<1>0. ReqType /\ StoreType
  BY DEF TypeOK
<1>1. PICK id \in Id \ Stored :
        LET n == [id |-> id, retry |-> 0]
            later == req[s][r].mode = "later"
        IN  /\ WriteRow(n, IF later THEN "SCHEDULED" ELSE "PENDING", ~later)
            /\ SetReq(s, r, IF later THEN "delegate" ELSE "push", req[s][r].mode, n)
  BY DEF CreateSave
<1>2. PICK n \in Copy : n = [id |-> id, retry |-> 0]
  BY DEF Copy
<1>3. PICK status \in {"SCHEDULED", "PENDING"} :
        status = IF req[s][r].mode = "later" THEN "SCHEDULED" ELSE "PENDING"
  OBVIOUS
<1>4. PICK pc \in {"delegate", "push"} :
        pc = IF req[s][r].mode = "later" THEN "delegate" ELSE "push"
  OBVIOUS
<1>5. PICK due \in BOOLEAN : due = ~(req[s][r].mode = "later")
  OBVIOUS
<1>6. WriteRow(n, status, due) /\ SetReq(s, r, pc, req[s][r].mode, n) /\ n.id = id
  BY <1>1, <1>2, <1>3, <1>4, <1>5
<1>7. rows'[id].status = status /\ \A x \in Id : x # id => rows'[x] = rows[x]
  BY <1>0, <1>6, WriteRowEffect DEF Status
<1>8. req[s][r].mode \in {"now", "later"}
  BY <1>0 DEF ReqType
<1>9. /\ req'[s][r].pc = pc /\ req'[s][r].n = n
      /\ \A t \in Server, q \in Request : <<t, q>> # <<s, r>> => req'[t][q] = req[t][q]
  BY <1>0, <1>6, <1>8, NoCopyIsNoCopy, SetReqEffect DEF ReqPc
<1> QED BY <1>3, <1>4, <1>6, <1>7, <1>9

\* Who changes the status of a row.
LEMMA RowFlow ==
  ASSUME TypeOK, Next, NEW id \in Id, rows'[id].status # rows[id].status
  PROVE  \/ \E s \in Server, r \in Request :
              /\ CreateSave(s, r) /\ rows[id].status = "NONE"
              /\ rows'[id].status = IF req[s][r].mode = "later" THEN "SCHEDULED" ELSE "PENDING"
         \/ rows'[id].status = "DLQ" /\ AtHandler({"undo"}, id)
         \/ rows'[id].status = "PENDING" /\ AtHandler({"update"}, id)
         \/ rows'[id].status \notin {"NONE", "SCHEDULED"} /\ Held(id)
         \/ rows[id].status = "PENDING" /\ rows'[id].status = "PROCESSING"
<1>0. StoreType
  BY DEF TypeOK
<1>1. ASSUME NEW n \in Copy, NEW status \in Status, NEW due \in BOOLEAN,
             WriteRow(n, status, due)
      PROVE  rows'[id].status = status /\ n.id = id
  BY <1>0, <1>1, WriteRowEffect
<1>2. rows' # rows
  OBVIOUS
<1>3. CASE \E s \in Server, r \in Request : CreateSave(s, r)
  <2>1. PICK s \in Server, r \in Request : CreateSave(s, r)
    BY <1>3
  <2>2. PICK x \in Id \ Stored :
          /\ \A y \in Id : y # x => rows'[y] = rows[y]
          /\ rows'[x].status = IF req[s][r].mode = "later" THEN "SCHEDULED" ELSE "PENDING"
    BY <2>1, CreateSaveEffect
  <2>3. x = id /\ rows[id].status = "NONE"
    BY <2>2 DEF Stored
  <2> QED BY <2>1, <2>2, <2>3
<1>4. ASSUME NEW s \in Server, NEW r \in Request, Handler(s, r), ~CreateSave(s, r)
      PROVE  \/ rows'[id].status = "DLQ" /\ AtHandler({"undo"}, id)
             \/ rows'[id].status = "PENDING" /\ AtHandler({"update"}, id)
  <2>1. CASE DelegateUndo(s, r)
    <3>1. PICK n \in Copy : n = req[s][r].n
      BY <2>1, HoldsCopy DEF DelegateUndo
    <3>2. WriteRow(n, "DLQ", FALSE)
      BY <1>2, <2>1, <3>1 DEF DelegateUndo, UpdateFails
    <3>3. rows'[id].status = "DLQ" /\ n.id = id
      BY <1>1, <3>2 DEF Status
    <3> QED BY <2>1, <3>1, <3>3 DEF AtHandler, DelegateUndo
  <2>2. CASE DispatchUpdate(s, r)
    <3>1. PICK n \in Copy : n = req[s][r].n
      BY <2>2, HoldsCopy DEF DispatchUpdate
    <3>2. WriteRow(n, "PENDING", TRUE)
      BY <1>2, <2>2, <3>1 DEF DispatchUpdate
    <3>3. rows'[id].status = "PENDING" /\ n.id = id
      BY <1>1, <3>2 DEF Status
    <3> QED BY <2>2, <3>1, <3>3 DEF AtHandler, DispatchUpdate
  <2> QED BY <1>2, <1>4, <2>1, <2>2 DEF Handler, CreateCheck, CreateReject, CreatePush,
             CreateAbandon, DelegatePost, DelegateOk, DelegateFail, DispatchRead, DispatchPush
<1>5. ASSUME NEW s \in Server, NEW w \in Worker, WorkerTake(s, w) \/ WorkerExit(s, w) \/ Process(s, w)
      PROVE  rows'[id].status \notin {"NONE", "SCHEDULED"} /\ Held(id)
  <2>1. CASE ProcessStart(s, w) \/ ProcessRetry(s, w) \/ ProcessDead(s, w) \/ ProcessSent(s, w)
    <3>1. work[s][w].pc \notin {"select", "exited"}
      BY <2>1 DEF ProcessStart, ProcessRetry, ProcessDead, ProcessSent
    <3>2. PICK n \in Copy : n = work[s][w].n
      BY <3>1, HoldsCopy
    <3>3. PICK status \in Status \ {"SCHEDULED"}, due \in BOOLEAN : WriteRow(n, status, due)
      BY <1>2, <2>1, <3>2 DEF ProcessStart, ProcessRetry, ProcessDead, ProcessSent, UpdateFails, Status
    <3>4. rows'[id].status = status /\ n.id = id
      BY <1>1, <3>3
    <3>5. status \notin {"NONE", "SCHEDULED"}
      BY DEF Status
    <3> QED BY <3>1, <3>2, <3>4, <3>5 DEF Held
  <2> QED BY <1>2, <1>5, <2>1 DEF WorkerTake, WorkerExit, Process, ProcessPanic, ProcessSend, ProcessArchive
<1>6. ASSUME NEW s \in Server, RetryScheduler(s)
      PROVE  rows[id].status = "PENDING" /\ rows'[id].status = "PROCESSING"
  <2>1. ASSUME NEW S \in SUBSET Id, ClaimRows(S), \A x \in S : rows[x].status = "PENDING"
        PROVE  rows[id].status = "PENDING" /\ rows'[id].status = "PROCESSING"
    BY <1>0, <2>1, ClaimRowsEffect
  <2>2. CASE PollClaim(s)
    BY <2>1, <2>2, PollClaimEffect
  <2>3. CASE PollClaimLost(s)
    BY <2>1, <2>3 DEF PollClaimLost, Claimable, Ready
  <2> QED BY <1>2, <1>6, <2>2, <2>3 DEF RetryScheduler, PollNext, PollPush, PollExit
<1>7. ASSUME NEW s \in Server, Lifecycle(s) PROVE FALSE
  BY <1>2, <1>7 DEF Lifecycle, Signal, BeginShutdown, CloseChannel, Restart, Exit, Crash, StopProcess
<1>8. ASSUME NEW x \in Id, Environment(x) PROVE FALSE
  BY <1>8, BackoffEffect
<1> QED BY <1>3, <1>4, <1>5, <1>6, <1>7, <1>8 DEF Next

-----------------------------------------------------------------------------
(* The threshold                                                           *)

\* The program points at which a handler holds a copy.
Holding == ReqPc \ {"idle", "checked"}

\* Every copy is a copy of a row in the table, so an Update never inserts.
StoredInv == \A id \in Id : Held(id) \/ AtHandler(Holding, id) => id \in Stored

\* Rows are never deleted.
LEMMA StoredGrows ==
  ASSUME TypeOK, Next
  PROVE  Stored \subseteq Stored'
<1> SUFFICES ASSUME NEW id \in Id, rows[id].status # "NONE" PROVE rows'[id].status # "NONE"
  BY DEF Stored
<1> QED BY RowFlow

\* The copies of a handler after a step.
LEMMA AtHandlerFlow ==
  ASSUME TypeOK, Next, NEW id \in Id, AtHandler(Holding, id)'
  PROVE  AtHandler(Holding, id) \/ rows'[id].status # "NONE"
<1>1. PICK s \in Server, r \in Request : req'[s][r].pc \in Holding /\ req'[s][r].n.id = id
  BY DEF AtHandler, Holding
<1>2. CASE req'[s][r] = req[s][r]
  BY <1>1, <1>2 DEF AtHandler
<1>3. CASE CreateSave(s, r)
  <2>1. PICK x \in Id : /\ req'[s][r].n.id = x
                        /\ rows'[x].status = IF req[s][r].mode = "later" THEN "SCHEDULED" ELSE "PENDING"
    BY <1>3, CreateSaveEffect
  <2> QED BY <1>1, <2>1
<1>4. CASE /\ <<req[s][r].pc, req'[s][r].pc>> \in {<<"delegate", "wait">>, <<"wait", "undo">>, <<"update", "trypush">>}
           /\ req'[s][r].n = req[s][r].n
  <2>1. req[s][r].pc \in Holding
    BY <1>4 DEF Holding, ReqPc
  <2> QED BY <1>1, <1>4, <2>1 DEF AtHandler
<1>5. CASE \E x \in Id : rows[x].status = "SCHEDULED" /\ req'[s][r].n.id = x
  <2>1. rows[id].status = "SCHEDULED"
    BY <1>1, <1>5
  <2>2. id \in Stored'
    BY <2>1, StoredGrows DEF Stored
  <2> QED BY <2>2 DEF Stored
<1> QED BY <1>1, <1>2, <1>3, <1>4, <1>5, ReqFlow DEF Holding

\* Every copy anywhere in the system is a copy of a stored row.
LEMMA StoredStep == TypeOK /\ StoredInv /\ [Next]_vars => StoredInv'
<1> SUFFICES ASSUME TypeOK, StoredInv, [Next]_vars PROVE StoredInv'
  OBVIOUS
<1>1. CASE UNCHANGED vars
  BY <1>1 DEF vars, StoredInv, Held, Queued, AtHandler, Stored
<1>2. CASE Next
  <2>0. \A id \in Id : AtHandler({"push", "trypush"}, id) => AtHandler(Holding, id)
    BY DEF AtHandler, Holding, ReqPc
  <2>1. ASSUME NEW id \in Id, Held(id)' PROVE id \in Stored
    <3>1. Held(id) \/ AtHandler({"push", "trypush"}, id) \/ rows[id].status = "PENDING"
      BY <1>2, <2>1, HeldFlow
    <3> QED BY <2>0, <3>1 DEF StoredInv, Stored
  <2>2. ASSUME NEW id \in Id, AtHandler(Holding, id)' PROVE id \in Stored'
    <3>1. AtHandler(Holding, id) \/ rows'[id].status # "NONE"
      BY <1>2, <2>2, AtHandlerFlow
    <3>2. id \in Stored => id \in Stored'
      BY <1>2, StoredGrows
    <3> QED BY <3>1, <3>2 DEF StoredInv, Stored
  <2> QED BY <1>2, <2>1, <2>2, StoredGrows DEF StoredInv
<1> QED BY <1>1, <1>2

\* The handlers that counted the rows and have not inserted yet.
Checked == {p \in Server \X Request : req[p[1]][p[2]].pc = "checked"}

\* The inductive strengthening of ThresholdSlack: every handler that passed
\* the check may still add a row.
ThresholdInv ==
  Cardinality(Stored) + Cardinality(Checked)
    <= MaxTotal - 1 + Cardinality(Server \X Request)

\* The sets that are counted are finite.
LEMMA CountedFinite ==
  /\ IsFiniteSet(Stored) /\ IsFiniteSet(Checked) /\ IsFiniteSet(Server \X Request)
  /\ Cardinality(Stored) \in Nat /\ Cardinality(Checked) \in Nat
  /\ Cardinality(Server \X Request) \in Nat
  /\ Cardinality(Checked) <= Cardinality(Server \X Request)
<1>1. IsFiniteSet(Stored)
  BY ConstantsAssumption, FS_Subset DEF Stored
<1>2. IsFiniteSet(Server \X Request)
  BY ConstantsAssumption, FS_Product
<1>3. IsFiniteSet(Checked) /\ Cardinality(Checked) <= Cardinality(Server \X Request)
  BY <1>2, FS_Subset DEF Checked
<1> QED BY <1>1, <1>2, <1>3, FS_CardinalityType

\* A step that stores nothing and adds no checked handler keeps the bound.
LEMMA ThresholdFrame ==
  ASSUME ThresholdInv, Stored' \subseteq Stored, Checked' \subseteq Checked
  PROVE  ThresholdInv'
<1>1. /\ Cardinality(Stored') <= Cardinality(Stored) /\ Cardinality(Stored') \in Nat
      /\ Cardinality(Checked') <= Cardinality(Checked) /\ Cardinality(Checked') \in Nat
  BY CountedFinite, FS_Subset, FS_CardinalityType
<1> QED BY <1>1, CountedFinite, ConstantsAssumption DEF ThresholdInv

\* The check: the count is below the threshold, whoever else is checked.
LEMMA ThresholdCheck ==
  ASSUME NEW s \in Server, NEW r \in Request, CreateCheck(s, r)
  PROVE  ThresholdInv'
<1>1. Stored' = Stored
  BY DEF CreateCheck, Stored
<1>2. Cardinality(Stored) <= MaxTotal - 1
  BY CountedFinite, ConstantsAssumption DEF CreateCheck, UnderThreshold
<1>3. Checked' \subseteq Server \X Request
  BY DEF Checked
<1>4. Cardinality(Checked') \in Nat /\ Cardinality(Checked') <= Cardinality(Server \X Request)
  BY <1>3, CountedFinite, FS_Subset, FS_CardinalityType
<1> QED BY <1>1, <1>2, <1>4, CountedFinite, ConstantsAssumption DEF ThresholdInv

\* The INSERT: one row more, one checked handler less.
LEMMA ThresholdSave ==
  ASSUME TypeOK, ThresholdInv, NEW s \in Server, NEW r \in Request, CreateSave(s, r)
  PROVE  ThresholdInv'
<1>1. PICK id \in Id \ Stored :
        /\ \A x \in Id : x # id => rows'[x] = rows[x]
        /\ req'[s][r].pc = IF req[s][r].mode = "later" THEN "delegate" ELSE "push"
        /\ \A t \in Server, q \in Request : <<t, q>> # <<s, r>> => req'[t][q] = req[t][q]
  BY CreateSaveEffect
<1>2. Stored' \subseteq Stored \cup {id}
  BY <1>1 DEF Stored
<1>3. Cardinality(Stored') <= Cardinality(Stored) + 1 /\ Cardinality(Stored') \in Nat
  <2>1. PICK T : T = Stored \cup {id}
    OBVIOUS
  <2>2. IsFiniteSet(T) /\ Cardinality(T) = Cardinality(Stored) + 1
    BY <1>1, <2>1, CountedFinite, FS_AddElement
  <2>3. Stored' \subseteq T
    BY <1>2, <2>1
  <2>4. Cardinality(Stored') <= Cardinality(T) /\ IsFiniteSet(Stored')
    BY <2>2, <2>3, FS_Subset
  <2> QED BY <2>2, <2>4, FS_CardinalityType
<1>4. <<s, r>> \in Checked /\ Checked' \subseteq Checked \ {<<s, r>>}
  BY <1>1 DEF CreateSave, Checked
<1>5. Cardinality(Checked') <= Cardinality(Checked) - 1 /\ Cardinality(Checked') \in Nat
  BY <1>4, CountedFinite, FS_RemoveElement, FS_Subset, FS_CardinalityType
<1> QED BY <1>3, <1>5, CountedFinite, ConstantsAssumption DEF ThresholdInv

\* The threshold of CreateNotification bounds the table up to the number of
\* handlers that can run at the same time, for any number of replicas.
THEOREM ThresholdHolds == Spec => []ThresholdSlack
<1>1. Init => StoredInv /\ ThresholdInv
  <2> SUFFICES ASSUME Init PROVE StoredInv /\ ThresholdInv
    OBVIOUS
  <2>1. StoredInv
    BY DEF Init, StoredInv, Held, Queued, AtHandler, Holding, IdleWorker, IdlePoller, IdleRequest
  <2>2. Stored = {} /\ Checked = {}
    BY DEF Init, Stored, Checked, IdleRequest
  <2>3. Cardinality(Stored) = 0 /\ Cardinality(Checked) = 0
    BY <2>2, FS_EmptySet
  <2>4. ThresholdInv
    BY <2>3, CountedFinite, ConstantsAssumption DEF ThresholdInv
  <2> QED BY <2>1, <2>4
<1>2. TypeOK /\ StoredInv /\ ThresholdInv /\ [Next]_vars => ThresholdInv'
  <2> SUFFICES ASSUME TypeOK, StoredInv, ThresholdInv, [Next]_vars PROVE ThresholdInv'
    OBVIOUS
  <2>1. CASE UNCHANGED vars
    BY <2>1, ThresholdFrame DEF vars, Stored, Checked
  <2>2. CASE \E s \in Server, r \in Request : CreateCheck(s, r)
    BY <2>2, ThresholdCheck
  <2>3. CASE \E s \in Server, r \in Request : CreateSave(s, r)
    BY <2>3, ThresholdSave
  <2>4. CASE Next /\ \A s \in Server, r \in Request : ~CreateCheck(s, r) /\ ~CreateSave(s, r)
    <3>1. ASSUME NEW id \in Id, rows'[id].status # "NONE" PROVE rows[id].status # "NONE"
      <4>1. SUFFICES ASSUME rows'[id].status # rows[id].status PROVE rows[id].status # "NONE"
        BY <3>1
      <4>2. AtHandler({"undo"}, id) \/ AtHandler({"update"}, id) => AtHandler(Holding, id)
        BY DEF AtHandler, Holding, ReqPc
      <4> QED BY <2>4, <4>1, <4>2, RowFlow DEF StoredInv, Stored
    <3>2. Stored' \subseteq Stored
      BY <3>1 DEF Stored
    <3>3. ASSUME NEW s \in Server, NEW r \in Request, req'[s][r].pc = "checked"
          PROVE  req[s][r].pc = "checked"
      BY <2>4, <3>3, ReqFlow
    <3>4. Checked' \subseteq Checked
      BY <3>3 DEF Checked
    <3> QED BY <3>2, <3>4, ThresholdFrame
  <2> QED BY <2>1, <2>2, <2>3, <2>4
<1>3. ThresholdInv => ThresholdSlack
  BY CountedFinite, ConstantsAssumption DEF ThresholdInv, ThresholdSlack
<1> QED BY <1>1, <1>2, <1>3, StoredStep, TypeCorrect, PTL DEF Spec

-----------------------------------------------------------------------------
(* Scheduled notifications                                                 *)

\* The inductive strengthening of DeliveredWasTriggered.
TriggerInv ==
  /\ \A s \in Server, r \in Request : req[s][r].pc = "checked" => req[s][r].mode = "later"
  /\ \A id \in Id :
       \/ Held(id)
       \/ AtHandler({"push", "update", "trypush"}, id)
       \/ rows[id].status = "PENDING"
       \/ delivered[id] > 0
       => id \in tasks

\* The scheduler never withdraws a task.
LEMMA TasksGrow ==
  ASSUME Next
  PROVE  tasks \subseteq tasks'
<1>1. ASSUME NEW s \in Server, NEW r \in Request, Handler(s, r) PROVE tasks \subseteq tasks'
  BY <1>1 DEF Handler, CreateCheck, CreateReject, CreateSave, CreatePush, CreateAbandon,
     DelegatePost, DelegateOk, DelegateFail, DelegateUndo, DispatchRead, DispatchUpdate, DispatchPush
<1>2. ASSUME NEW s \in Server, NEW w \in Worker, WorkerTake(s, w) \/ WorkerExit(s, w) \/ Process(s, w)
      PROVE  tasks \subseteq tasks'
  BY <1>2 DEF WorkerTake, WorkerExit, Process, ProcessPanic, ProcessStart, ProcessSend, ProcessSent,
     ProcessRetry, ProcessDead, ProcessArchive
<1>3. ASSUME NEW s \in Server, RetryScheduler(s) \/ Lifecycle(s) PROVE tasks \subseteq tasks'
  BY <1>3 DEF RetryScheduler, PollClaim, PollClaimLost, PollNext, PollPush, PollExit,
     Lifecycle, Signal, BeginShutdown, CloseChannel, Restart, Exit, Crash, StopProcess
<1>4. ASSUME NEW id \in Id, Environment(id) PROVE tasks \subseteq tasks'
  BY <1>4 DEF Environment, BackoffElapses, TaskStored, TaskRefused
<1> QED BY <1>1, <1>2, <1>3, <1>4 DEF Next

\* A delivery is an attempt of a worker.
LEMMA SendFlow ==
  ASSUME TypeOK, Next, NEW id \in Id, delivered'[id] # delivered[id]
  PROVE  \E s \in Server, w \in Worker :
           /\ ProcessSend(s, w) /\ work[s][w].n.id = id
           /\ delivered'[id] = delivered[id] + 1
<1>1. ASSUME NEW s \in Server, NEW w \in Worker, ProcessSend(s, w)
      PROVE  work[s][w].n.id = id /\ delivered'[id] = delivered[id] + 1
  <2>1. PICK n \in Copy : n.id = work[s][w].n.id /\ (Deliver(n.id) \/ UNCHANGED delivered)
    BY <1>1, ProcessSendEffect
  <2> QED BY <2>1 DEF Deliver, TypeOK, StoreType
<1>2. ASSUME NEW s \in Server, NEW r \in Request, Handler(s, r) PROVE UNCHANGED delivered
  BY <1>2 DEF Handler, CreateCheck, CreateReject, CreateSave, CreatePush, CreateAbandon,
     DelegatePost, DelegateOk, DelegateFail, DelegateUndo, DispatchRead, DispatchUpdate, DispatchPush
<1>3. ASSUME NEW s \in Server, NEW w \in Worker, ~ProcessSend(s, w),
             WorkerTake(s, w) \/ WorkerExit(s, w) \/ Process(s, w)
      PROVE  UNCHANGED delivered
  BY <1>3 DEF WorkerTake, WorkerExit, Process, ProcessPanic, ProcessStart, ProcessSent, ProcessRetry,
     ProcessDead, ProcessArchive
<1>4. ASSUME NEW s \in Server, RetryScheduler(s) \/ Lifecycle(s) PROVE UNCHANGED delivered
  BY <1>4 DEF RetryScheduler, PollClaim, PollClaimLost, PollNext, PollPush, PollExit,
     Lifecycle, Signal, BeginShutdown, CloseChannel, Restart, Exit, Crash, StopProcess
<1>5. ASSUME NEW x \in Id, Environment(x) PROVE UNCHANGED delivered
  BY <1>5 DEF Environment, BackoffElapses, TaskStored, TaskRefused
<1> QED BY <1>1, <1>2, <1>3, <1>4, <1>5 DEF Next

\* Only what a worker holds is delivered.
LEMMA DeliverFlow ==
  ASSUME TypeOK, Next, NEW id \in Id, delivered'[id] # delivered[id]
  PROVE  Held(id)
BY SendFlow DEF ProcessSend, Held

\* A service whose clients only schedule sends nothing that the Task Scheduler
\* did not accept a task for.
THEOREM DeliveredTriggered == Spec => []DeliveredWasTriggered
<1>0. CASE Modes # {"later"}
  <2>1. DeliveredWasTriggered
    BY <1>0 DEF DeliveredWasTriggered
  <2> QED BY <2>1, PTL
<1>1. CASE Modes = {"later"}
  <2>1. Init => TriggerInv
    BY DEF Init, TriggerInv, Held, Queued, AtHandler, IdleWorker, IdlePoller, IdleRequest
  <2>2. TypeOK /\ TriggerInv /\ [Next]_vars => TriggerInv'
    <3> SUFFICES ASSUME TypeOK, TriggerInv, [Next]_vars PROVE TriggerInv'
      OBVIOUS
    <3>1. CASE UNCHANGED vars
      BY <3>1 DEF vars, TriggerInv, Held, Queued, AtHandler
    <3>2. CASE Next
      <4>0. tasks \subseteq tasks'
        BY <3>2, TasksGrow
      <4>1. ASSUME NEW s \in Server, NEW r \in Request, req'[s][r].pc = "checked"
            PROVE  req'[s][r].mode = "later"
        <5>1. CASE CreateSave(s, r)
          BY <4>1, <5>1, CreateSaveEffect
        <5> QED BY <1>1, <3>2, <4>1, <5>1, ReqFlow DEF TriggerInv
      <4>2. ASSUME NEW id \in Id, Held(id)' PROVE id \in tasks
        <5>1. AtHandler({"push", "trypush"}, id) => AtHandler({"push", "update", "trypush"}, id)
          BY DEF AtHandler
        <5> QED BY <3>2, <4>2, <5>1, HeldFlow DEF TriggerInv
      <4>3. ASSUME NEW id \in Id, AtHandler({"push", "update", "trypush"}, id)' PROVE id \in tasks
        <5>1. PICK s \in Server, r \in Request :
                req'[s][r].pc \in {"push", "update", "trypush"} /\ req'[s][r].n.id = id
          BY <4>3 DEF AtHandler
        <5>2. CASE req'[s][r] = req[s][r]
          BY <5>1, <5>2 DEF AtHandler, TriggerInv
        <5>3. CASE CreateSave(s, r)
          <6>1. req[s][r].mode = "later"
            BY <5>3 DEF CreateSave, TriggerInv
          <6> QED BY <5>1, <5>3, <6>1, CreateSaveEffect
        <5>4. CASE /\ <<req[s][r].pc, req'[s][r].pc>> \in {<<"delegate", "wait">>, <<"wait", "undo">>, <<"update", "trypush">>}
                   /\ req'[s][r].n = req[s][r].n
          <6>1. req[s][r].pc = "update"
            BY <5>1, <5>4
          <6> QED BY <5>1, <5>4, <6>1 DEF AtHandler, TriggerInv
        <5> QED BY <3>2, <5>1, <5>2, <5>3, <5>4, ReqFlow
      <4>4. ASSUME NEW id \in Id, rows'[id].status = "PENDING" PROVE id \in tasks
        <5>1. CASE rows[id].status = "PENDING"
          BY <5>1 DEF TriggerInv
        <5>2. CASE rows[id].status # "PENDING"
          <6>1. \A s \in Server, r \in Request : CreateSave(s, r) => req[s][r].mode = "later"
            BY DEF CreateSave, TriggerInv
          <6>2. Held(id) \/ AtHandler({"update"}, id)
            BY <3>2, <4>4, <5>2, <6>1, RowFlow
          <6>3. AtHandler({"update"}, id) => AtHandler({"push", "update", "trypush"}, id)
            BY DEF AtHandler
          <6> QED BY <6>2, <6>3 DEF TriggerInv
        <5> QED BY <5>1, <5>2
      <4>5. ASSUME NEW id \in Id, delivered'[id] > 0 PROVE id \in tasks
        BY <3>2, <4>5, DeliverFlow DEF TriggerInv
      <4> QED BY <4>0, <4>1, <4>2, <4>3, <4>4, <4>5 DEF TriggerInv
    <3> QED BY <3>1, <3>2
  <2>3. TriggerInv => DeliveredWasTriggered
    BY DEF TriggerInv, DeliveredWasTriggered
  <2> QED BY <2>1, <2>2, <2>3, TypeCorrect, PTL DEF Spec
<1> QED BY <1>0, <1>1

-----------------------------------------------------------------------------
(* Places and tickets, as functions from places to the attempts made there *)

\* The attempts the retry policy allows: the first one and the retries.
Attempts == 0 .. MaxRetryCount

\* A place of h has its origin in a place of f of its own, where the copy was
\* tried no more often.
Fits(f, h) ==
  \E g \in Injection(DOMAIN h, DOMAIN f) : \A q \in DOMAIN h : f[g[q]] <= h[q]

\* The attempts that places with the uses f may still make.
Tickets(f) == {x \in (DOMAIN f) \X Attempts : f[x[1]] <= x[2]}

\* What fits is no more, and makes no more attempts.
LEMMA FitsCounts ==
  ASSUME NEW P, NEW Q, NEW f \in [P -> Nat], NEW h \in [Q -> Nat], Fits(f, h),
         IsFiniteSet(P), IsFiniteSet(Tickets(f))
  PROVE  /\ IsFiniteSet(Q) /\ Cardinality(Q) <= Cardinality(P)
         /\ IsFiniteSet(Tickets(h)) /\ Cardinality(Tickets(h)) <= Cardinality(Tickets(f))
<1>1. PICK g \in Injection(Q, P) : \A q \in Q : f[g[q]] <= h[q]
  BY DEF Fits
<1>2. IsFiniteSet(Q) /\ Cardinality(Q) <= Cardinality(P)
  BY <1>1, FS_Injection
<1> DEFINE move == [x \in Tickets(h) |-> <<g[x[1]], x[2]>>]
<1>3. /\ g \in [Q -> P]
      /\ \A x, y \in Q : g[x] = g[y] => x = y
  BY <1>1 DEF Injection, IsInjective
<1>4. ASSUME NEW x \in Tickets(h)
      PROVE  /\ <<g[x[1]], x[2]>> \in Tickets(f)
             /\ x[1] \in Q /\ x = <<x[1], x[2]>>
  <2>1. x[1] \in Q /\ x[2] \in Attempts /\ h[x[1]] <= x[2] /\ x = <<x[1], x[2]>>
    BY DEF Tickets
  <2>2. g[x[1]] \in P /\ f[g[x[1]]] <= x[2]
    <3>1. g[x[1]] \in P /\ f[g[x[1]]] <= h[x[1]]
      BY <1>1, <1>3, <2>1
    <3>2. f[g[x[1]]] \in Nat /\ h[x[1]] \in Nat /\ x[2] \in Nat
      BY <2>1, <3>1 DEF Attempts
    <3> QED BY <2>1, <3>1, <3>2
  <2> QED BY <2>1, <2>2 DEF Tickets
<1>5. ASSUME NEW x \in Tickets(h), NEW y \in Tickets(h),
             <<g[x[1]], x[2]>> = <<g[y[1]], y[2]>>
      PROVE  x = y
  <2>1. g[x[1]] = g[y[1]] /\ x[2] = y[2]
    BY <1>4, <1>5
  <2> QED BY <1>3, <1>4, <2>1
<1>6. move \in Injection(Tickets(h), Tickets(f))
  <2>1. move \in [Tickets(h) -> Tickets(f)]
    BY <1>4
  <2>2. \A x \in Tickets(h) : move[x] = <<g[x[1]], x[2]>>
    OBVIOUS
  <2> HIDE DEF move
  <2> QED BY <1>5, <2>1, <2>2 DEF Injection, IsInjective
<1>7. IsFiniteSet(Tickets(h)) /\ Cardinality(Tickets(h)) <= Cardinality(Tickets(f))
  BY <1>6, FS_Injection
<1> QED BY <1>2, <1>7

\* Every place makes at most MaxRetryCount + 1 attempts.
LEMMA TicketsBound ==
  ASSUME NEW P, NEW f \in [P -> Nat], IsFiniteSet(P)
  PROVE  /\ IsFiniteSet(Tickets(f))
         /\ Cardinality(Tickets(f)) <= Cardinality(P) * (MaxRetryCount + 1)
<1>1. IsFiniteSet(Attempts) /\ Cardinality(Attempts) = MaxRetryCount + 1
  BY FS_Interval, ConstantsAssumption DEF Attempts
<1>2. IsFiniteSet(P \X Attempts) /\ Cardinality(P \X Attempts) = Cardinality(P) * Cardinality(Attempts)
  BY <1>1, FS_Product
<1>3. Tickets(f) \in SUBSET (P \X Attempts)
  BY DEF Tickets
<1> QED BY <1>1, <1>2, <1>3, FS_Subset

\* An attempt uses up a ticket.
LEMMA TicketSpent ==
  ASSUME NEW P, NEW Q \in SUBSET P, NEW f \in [P -> Nat], NEW h \in [Q -> Nat], NEW a \in P,
         f[a] <= MaxRetryCount, a \in Q => f[a] + 1 <= h[a], \A q \in Q \ {a} : f[q] <= h[q],
         IsFiniteSet(Tickets(f))
  PROVE  /\ IsFiniteSet(Tickets(h))
         /\ Cardinality(Tickets(h)) + 1 <= Cardinality(Tickets(f))
<1> DEFINE t == <<a, f[a]>>
<1>1. t \in Tickets(f)
  <2>1. f[a] \in Attempts
    BY ConstantsAssumption DEF Attempts
  <2> QED BY <2>1 DEF Tickets
<1>2. ASSUME NEW x \in Tickets(h) PROVE x \in Tickets(f) \ {t}
  <2>1. x[1] \in Q /\ x[2] \in Attempts /\ h[x[1]] <= x[2] /\ x = <<x[1], x[2]>>
    BY DEF Tickets
  <2>2. f[x[1]] \in Nat /\ h[x[1]] \in Nat /\ x[2] \in Nat
    BY <2>1 DEF Attempts
  <2>3. CASE x[1] = a
    <3>1. f[x[1]] <= x[2] /\ x[2] # f[a]
      BY <2>1, <2>2, <2>3
    <3> QED BY <2>1, <2>3, <3>1 DEF Tickets
  <2>4. CASE x[1] # a
    <3>1. f[x[1]] <= x[2]
      BY <2>1, <2>2, <2>4
    <3> QED BY <2>1, <2>4, <3>1 DEF Tickets
  <2> QED BY <2>3, <2>4
<1>3. IsFiniteSet(Tickets(f) \ {t}) /\ Cardinality(Tickets(f) \ {t}) = Cardinality(Tickets(f)) - 1
  BY <1>1, FS_RemoveElement
<1>4. Tickets(h) \in SUBSET (Tickets(f) \ {t})
  BY <1>2
<1>5. IsFiniteSet(Tickets(h)) /\ Cardinality(Tickets(h)) <= Cardinality(Tickets(f) \ {t})
  BY <1>3, <1>4, FS_Subset
<1>6. Cardinality(Tickets(h)) \in Nat /\ Cardinality(Tickets(f)) \in Nat
  BY <1>5, FS_CardinalityType
<1> QED BY <1>3, <1>5, <1>6

\* Places that stay where they are.
LEMMA StayFits ==
  ASSUME NEW f, NEW h, \A q \in DOMAIN h : q \in DOMAIN f /\ f[q] <= h[q]
  PROVE  Fits(f, h)
<1> DEFINE g == [q \in DOMAIN h |-> q]
<1>1. g \in [DOMAIN h -> DOMAIN f] /\ \A q \in DOMAIN h : g[q] = q
  OBVIOUS
<1> HIDE DEF g
<1> QED BY <1>1 DEF Fits, Injection, IsInjective

\* Places that stay, but for one copy that moves from a to b.
LEMMA MoveFits ==
  ASSUME NEW f, NEW h, NEW a, NEW b,
         \A q \in DOMAIN h : q = b \/ (q # a /\ q \in DOMAIN f /\ f[q] <= h[q]),
         b \in DOMAIN h => a \in DOMAIN f /\ f[a] <= h[b]
  PROVE  Fits(f, h)
<1> DEFINE g == [q \in DOMAIN h |-> IF q = b THEN a ELSE q]
<1>1. g \in [DOMAIN h -> DOMAIN f]
  OBVIOUS
<1>2. ASSUME NEW x \in DOMAIN h, NEW y \in DOMAIN h, g[x] = g[y] PROVE x = y
  BY <1>2
<1>3. \A q \in DOMAIN h : f[g[q]] <= h[q]
  OBVIOUS
<1> HIDE DEF g
<1> QED BY <1>1, <1>2, <1>3 DEF Fits, Injection, IsInjective

\* One copy moves from a to b, one from c to d, the others stay.
TwoMoves(f, h, a, b, c, d) ==
  /\ a # c /\ b # d
  /\ \A q \in DOMAIN h :
       q = b \/ q = d \/ (q # a /\ q # c /\ q \in DOMAIN f /\ f[q] <= h[q])
  /\ b \in DOMAIN h => a \in DOMAIN f /\ f[a] <= h[b]
  /\ d \in DOMAIN h => c \in DOMAIN f /\ f[c] <= h[d]

\* Two copies move at once.
LEMMA TwoMoveFits ==
  ASSUME NEW f, NEW h, NEW a, NEW b, NEW c, NEW d, TwoMoves(f, h, a, b, c, d)
  PROVE  Fits(f, h)
<1> USE DEF TwoMoves
<1> DEFINE g == [q \in DOMAIN h |-> IF q = b THEN a ELSE IF q = d THEN c ELSE q]
<1>1. g \in [DOMAIN h -> DOMAIN f]
  OBVIOUS
<1>2. ASSUME NEW x \in DOMAIN h, NEW y \in DOMAIN h, g[x] = g[y] PROVE x = y
  BY <1>2
<1>3. \A q \in DOMAIN h : f[g[q]] <= h[q]
  OBVIOUS
<1> HIDE DEF g
<1> QED BY <1>1, <1>2, <1>3 DEF Fits, Injection, IsInjective

-----------------------------------------------------------------------------
(* The places of the copies                                                *)

\* The places of InFlight, kind by kind; and where a copy is still to come
\* from: a PENDING row, and a callback that has read SCHEDULED, which makes two.
ChanPlaces(id) ==
  {p \in {"chan"} \X Server \X Nat : p[3] \in 1 .. Len(chan[p[2]]) /\ chan[p[2]][p[3]].id = id}
WorkPlaces(id) ==
  {p \in {"work"} \X Server \X Worker :
     work[p[2]][p[3]].pc \in Busy /\ work[p[2]][p[3]].n.id = id}
PollPlaces(id) ==
  {p \in {"poll"} \X Server \X Copy : p[3] \in poll[p[2]].jobs /\ p[3].id = id}
PushPlaces(id) ==
  {p \in {"req"} \X Server \X Request :
     req[p[2]][p[3]].pc \in {"push", "trypush"} /\ req[p[2]][p[3]].n.id = id}
RowPlaces(id) ==
  {p \in {"row"} \X {id} \X {0} : rows[id].status = "PENDING"}
CallPlaces(id) ==
  {p \in {"first", "second"} \X Server \X Request :
     req[p[2]][p[3]].pc = "update" /\ req[p[2]][p[3]].n.id = id}

Places(id) ==
  ChanPlaces(id) \cup WorkPlaces(id) \cup PollPlaces(id)
    \cup PushPlaces(id) \cup RowPlaces(id) \cup CallPlaces(id)

\* The attempts a copy has used up.
Used(p) ==
  CASE p[1] = "chan" -> chan[p[2]][p[3]].retry
    [] p[1] = "work" -> IF work[p[2]][p[3]].pc = "sent"
                          THEN work[p[2]][p[3]].n.retry + 1 ELSE work[p[2]][p[3]].n.retry
    [] p[1] = "poll" -> p[3].retry
    [] p[1] = "row"  -> rows[p[2]].retry
    [] OTHER         -> req[p[2]][p[3]].n.retry

Uses(id) == [p \in Places(id) |-> Used(p)]

\* The uses are numbers.
UsesTyped == \A id \in Id : Uses(id) \in [Places(id) -> Nat]

\* After a step p is a place that it was before, no less used.
Kept(p, id) == p \in Places(id) /\ Used(p) <= Used(p)'

\* What a place says, by its tag.
LEMMA PlaceNow ==
  ASSUME NEW id, NEW p
  PROVE  p \in Places(id) <=>
           \/ /\ p \in {"chan"} \X Server \X Nat /\ p[3] \in 1 .. Len(chan[p[2]])
              /\ chan[p[2]][p[3]].id = id
           \/ /\ p \in {"work"} \X Server \X Worker /\ work[p[2]][p[3]].pc \in Busy
              /\ work[p[2]][p[3]].n.id = id
           \/ /\ p \in {"poll"} \X Server \X Copy /\ p[3] \in poll[p[2]].jobs /\ p[3].id = id
           \/ /\ p \in {"req"} \X Server \X Request /\ req[p[2]][p[3]].pc \in {"push", "trypush"}
              /\ req[p[2]][p[3]].n.id = id
           \/ p \in {"row"} \X {id} \X {0} /\ rows[id].status = "PENDING"
           \/ /\ p \in {"first", "second"} \X Server \X Request /\ req[p[2]][p[3]].pc = "update"
              /\ req[p[2]][p[3]].n.id = id
BY DEF Places, ChanPlaces, WorkPlaces, PollPlaces, PushPlaces, RowPlaces, CallPlaces

\* ... and after a step.
LEMMA PlaceNext ==
  ASSUME NEW id, NEW p
  PROVE  p \in Places(id)' <=>
           \/ /\ p \in {"chan"} \X Server \X Nat /\ p[3] \in 1 .. Len(chan'[p[2]])
              /\ chan'[p[2]][p[3]].id = id
           \/ /\ p \in {"work"} \X Server \X Worker /\ work'[p[2]][p[3]].pc \in Busy
              /\ work'[p[2]][p[3]].n.id = id
           \/ /\ p \in {"poll"} \X Server \X Copy /\ p[3] \in poll'[p[2]].jobs /\ p[3].id = id
           \/ /\ p \in {"req"} \X Server \X Request /\ req'[p[2]][p[3]].pc \in {"push", "trypush"}
              /\ req'[p[2]][p[3]].n.id = id
           \/ p \in {"row"} \X {id} \X {0} /\ rows'[id].status = "PENDING"
           \/ /\ p \in {"first", "second"} \X Server \X Request /\ req'[p[2]][p[3]].pc = "update"
              /\ req'[p[2]][p[3]].n.id = id
BY DEF Places, ChanPlaces, WorkPlaces, PollPlaces, PushPlaces, RowPlaces, CallPlaces

\* The uses are numbers.
LEMMA UsesType == TypeOK => UsesTyped
<1> SUFFICES ASSUME TypeOK, NEW id \in Id PROVE Uses(id) \in [Places(id) -> Nat]
  BY DEF UsesTyped
<1>1. ASSUME NEW p \in ChanPlaces(id) PROVE Used(p) \in Nat
  <2>1. p[1] = "chan" /\ chan[p[2]][p[3]] \in Copy
    BY DEF ChanPlaces, TypeOK, ChanType
  <2> QED BY <2>1, CopyFields DEF Used
<1>2. ASSUME NEW p \in WorkPlaces(id) PROVE Used(p) \in Nat
  <2>1. p[1] = "work" /\ work[p[2]][p[3]].n \in Copy
    BY HoldsCopy DEF WorkPlaces, Busy
  <2> QED BY <2>1, CopyFields DEF Used
<1>3. ASSUME NEW p \in PollPlaces(id) PROVE Used(p) \in Nat
  <2>1. p[1] = "poll" /\ p[3] \in Copy
    BY DEF PollPlaces
  <2> QED BY <2>1, CopyFields DEF Used
<1>4. ASSUME NEW p \in PushPlaces(id) \cup CallPlaces(id) PROVE Used(p) \in Nat
  <2>1. p[1] \notin {"chan", "work", "poll", "row"} /\ req[p[2]][p[3]].n \in Copy
    BY HoldsCopy DEF PushPlaces, CallPlaces
  <2> QED BY <2>1, CopyFields DEF Used
<1>5. ASSUME NEW p \in RowPlaces(id) PROVE Used(p) \in Nat
  <2>1. p[1] = "row" /\ p[2] = id /\ rows[id].retry \in Nat
    BY DEF RowPlaces, TypeOK, StoreType, Row
  <2> QED BY <2>1 DEF Used
<1> QED BY <1>1, <1>2, <1>3, <1>4, <1>5 DEF Uses, Places

\* What does not change stays a place.
LEMMA PlaceKept ==
  ASSUME UsesTyped, NEW id \in Id, NEW p \in Places(id)',
         p[1] = "chan" => p[3] <= Len(chan[p[2]]) /\ chan'[p[2]][p[3]] = chan[p[2]][p[3]],
         p[1] = "work" => work'[p[2]][p[3]] = work[p[2]][p[3]],
         p[1] = "poll" => p[3] \in poll[p[2]].jobs,
         p[1] = "row" => rows'[id].status = rows[id].status /\ rows'[id].retry = rows[id].retry,
         p[1] \in {"req", "first", "second"} => req'[p[2]][p[3]] = req[p[2]][p[3]]
  PROVE  Kept(p, id)
<1>0. \A q \in Places(id) : Used(q) \in Nat
  BY DEF Uses, UsesTyped
<1>1. CASE p[1] = "chan"
  <2>1. p \in ChanPlaces(id)
    BY <1>1, PlaceNext DEF ChanPlaces
  <2>2. Used(p)' = Used(p)
    BY <1>1 DEF Used
  <2> QED BY <1>0, <2>1, <2>2 DEF Kept, Places
<1>2. CASE p[1] = "work"
  <2>1. p \in WorkPlaces(id)
    BY <1>2, PlaceNext DEF WorkPlaces
  <2>2. Used(p)' = Used(p)
    BY <1>2 DEF Used
  <2> QED BY <1>0, <2>1, <2>2 DEF Kept, Places
<1>3. CASE p[1] = "poll"
  <2>1. p \in PollPlaces(id)
    BY <1>3, PlaceNext DEF PollPlaces
  <2>2. Used(p)' = Used(p)
    BY <1>3 DEF Used
  <2> QED BY <1>0, <2>1, <2>2 DEF Kept, Places
<1>4. CASE p[1] = "row"
  <2>1. p \in RowPlaces(id) /\ p[2] = id
    BY <1>4, PlaceNext DEF RowPlaces
  <2>2. Used(p)' = Used(p)
    BY <1>4, <2>1 DEF Used
  <2> QED BY <1>0, <2>1, <2>2 DEF Kept, Places
<1>5. CASE p[1] = "req"
  <2>1. p \in PushPlaces(id)
    BY <1>5, PlaceNext DEF PushPlaces
  <2>2. Used(p)' = Used(p)
    BY <1>5 DEF Used
  <2> QED BY <1>0, <2>1, <2>2 DEF Kept, Places
<1>6. CASE p[1] \in {"first", "second"}
  <2>1. p \in CallPlaces(id)
    BY <1>6, PlaceNext DEF CallPlaces
  <2>2. Used(p)' = Used(p)
    BY <1>6 DEF Used
  <2> QED BY <1>0, <2>1, <2>2 DEF Kept, Places
<1> QED BY <1>1, <1>2, <1>3, <1>4, <1>5, <1>6, PlaceNext

\* All places stay where they are.
LEMMA KeptFits ==
  ASSUME NEW id \in Id, \A p \in Places(id)' : Kept(p, id)
  PROVE  Fits(Uses(id), Uses(id)')
<1>1. /\ DOMAIN Uses(id) = Places(id) /\ \A q \in Places(id) : Uses(id)[q] = Used(q)
      /\ DOMAIN Uses(id)' = Places(id)' /\ \A q \in Places(id)' : Uses(id)'[q] = Used(q)'
  BY DEF Uses
<1>2. \A q \in DOMAIN Uses(id)' : q \in DOMAIN Uses(id) /\ Uses(id)[q] <= Uses(id)'[q]
  BY <1>1 DEF Kept
<1> HIDE DEF Uses
<1> QED BY <1>2, StayFits

\* One copy moves from a to b, the others stay.
LEMMA MoveStep ==
  ASSUME NEW id \in Id, NEW a, NEW b,
         \A p \in Places(id)' : p = b \/ (p # a /\ Kept(p, id)),
         b \in Places(id)' => a \in Places(id) /\ Used(a) <= Used(b)'
  PROVE  Fits(Uses(id), Uses(id)')
<1>1. /\ DOMAIN Uses(id) = Places(id) /\ \A q \in Places(id) : Uses(id)[q] = Used(q)
      /\ DOMAIN Uses(id)' = Places(id)' /\ \A q \in Places(id)' : Uses(id)'[q] = Used(q)'
  BY DEF Uses
<1>2. \A q \in DOMAIN Uses(id)' :
        q = b \/ (q # a /\ q \in DOMAIN Uses(id) /\ Uses(id)[q] <= Uses(id)'[q])
  BY <1>1 DEF Kept
<1>3. b \in DOMAIN Uses(id)' => a \in DOMAIN Uses(id) /\ Uses(id)[a] <= Uses(id)'[b]
  BY <1>1
<1> HIDE DEF Uses
<1> QED BY <1>2, <1>3, MoveFits

-----------------------------------------------------------------------------
(* The steps                                                               *)

\* A handler that ends up with nothing to enqueue for id adds no place.
LEMMA HandlerKept ==
  ASSUME TypeOK, UsesTyped, NEW id \in Id, NEW s \in Server, NEW r \in Request,
         Handler(s, r), UNCHANGED chan,
         rows'[id] = rows[id] \/ rows'[id].status # "PENDING",
         req'[s][r].pc \in {"push", "trypush", "update"} => req'[s][r].n.id # id
  PROVE  Fits(Uses(id), Uses(id)')
<1> SUFFICES ASSUME NEW p \in Places(id)' PROVE Kept(p, id)
  BY KeptFits
<1>1. UNCHANGED <<work, poll>>
  BY HandlerFrame
<1>2. \A t \in Server, q \in Request :
        req'[t][q].pc \in {"push", "trypush", "update"} /\ req'[t][q].n.id = id => req'[t][q] = req[t][q]
  BY OneHandler
<1>3. p[1] \in {"req", "first", "second"} => req'[p[2]][p[3]] = req[p[2]][p[3]]
  BY <1>2, PlaceNext
<1>4. p[1] = "row" => rows'[id].status = rows[id].status /\ rows'[id].retry = rows[id].retry
  BY PlaceNext
<1>5. p[1] = "chan" => p[3] <= Len(chan[p[2]]) /\ chan'[p[2]][p[3]] = chan[p[2]][p[3]]
  BY PlaceNext
<1>6. p[1] = "poll" => p[3] \in poll[p[2]].jobs
  BY <1>1, PlaceNext
<1> QED BY <1>1, <1>3, <1>4, <1>5, <1>6, PlaceKept

\* A send moves a copy from a to the end of a channel.
LEMMA EnqueueMoves ==
  ASSUME TypeOK, UsesTyped, NEW id \in Id, NEW s \in Server, NEW n \in Copy, Enqueue(s, n),
         NEW a, n.id = id => a \in Places(id) /\ Used(a) <= n.retry,
         \A p \in Places(id)' : p[1] # "chan" => p # a /\ Kept(p, id),
         a[1] # "chan"
  PROVE  Fits(Uses(id), Uses(id)')
<1> DEFINE b == <<"chan", s, Len(chan[s]) + 1>>
<1>1. /\ chan'[s] = Append(chan[s], n)
      /\ \A t \in Server : t # s => chan'[t] = chan[t]
  BY EnqueueEffect DEF TypeOK
<1>2. chan \in [Server -> Seq(Copy)]
  BY DEF TypeOK, ChanType
<1>3. /\ Len(chan'[s]) = Len(chan[s]) + 1
      /\ chan'[s][Len(chan[s]) + 1] = n
      /\ \A i \in 1 .. Len(chan[s]) : chan'[s][i] = chan[s][i]
  BY <1>1, <1>2
<1>4. ASSUME NEW p \in Places(id)', p[1] = "chan", p # b
      PROVE  Kept(p, id)
  <2>1. PICK t \in Server, i \in Nat : p = <<"chan", t, i>> /\ i \in 1 .. Len(chan'[t])
    BY <1>4, PlaceNext
  <2>2. i <= Len(chan[t]) /\ chan'[t][i] = chan[t][i]
    <3>1. CASE t = s
      <4>1. i # Len(chan[s]) + 1
        BY <1>4, <2>1, <3>1
      <4> QED BY <1>2, <1>3, <2>1, <3>1, <4>1
    <3>2. CASE t # s
      BY <1>1, <1>2, <2>1, <3>2
    <3> QED BY <3>1, <3>2
  <2> QED BY <2>1, <2>2, PlaceKept
<1>5. PICK c : c = b
  OBVIOUS
<1>6. c \in Places(id)' => n.id = id
  BY <1>3, <1>5, PlaceNext
<1>7. Used(c)' = n.retry
  BY <1>3, <1>5 DEF Used
<1>8. \A p \in Places(id)' : p = c \/ (p # a /\ Kept(p, id))
  BY <1>4, <1>5
<1>9. c \in Places(id)' => a \in Places(id) /\ Used(a) <= Used(c)'
  BY <1>6, <1>7
<1> QED BY <1>8, <1>9, MoveStep

\* A handler that sends its copy and ends.
LEMMA PushMoves ==
  ASSUME TypeOK, UsesTyped, NEW id \in Id, NEW s \in Server, NEW r \in Request,
         Handler(s, r), req[s][r].pc \in {"push", "trypush"}, UNCHANGED rows,
         Enqueue(s, req[s][r].n), EndReq(s, r)
  PROVE  Fits(Uses(id), Uses(id)')
<1>1. PICK n \in Copy : n = req[s][r].n
  BY HoldsCopy
<1>2. PICK a : a = <<"req", s, r>>
  OBVIOUS
<1>3. UNCHANGED <<work, poll>>
  BY HandlerFrame
<1>4. req'[s][r].pc = "idle"
  BY EndReqEffect DEF TypeOK
<1>5. Used(a) = n.retry /\ n.retry \in Nat
  BY <1>1, <1>2, CopyFields DEF Used
<1>6. n.id = id => a \in Places(id)
  BY <1>1, <1>2, PlaceNow
<1>7. ASSUME NEW p \in Places(id)', p[1] # "chan" PROVE p # a /\ Kept(p, id)
  <2>1. p[1] \in {"req", "first", "second"} => <<p[2], p[3]>> # <<s, r>>
    BY <1>4, PlaceNext
  <2>2. p[1] \in {"req", "first", "second"} => req'[p[2]][p[3]] = req[p[2]][p[3]]
    BY <2>1, PlaceNext, OneHandler
  <2>3. p[1] = "poll" => p[3] \in poll[p[2]].jobs
    BY <1>3, PlaceNext
  <2>4. Kept(p, id)
    BY <1>3, <1>7, <2>2, <2>3, PlaceKept
  <2> QED BY <1>2, <2>1, <2>4
<1> QED BY <1>1, <1>2, <1>5, <1>6, <1>7, EnqueueMoves

\* The callback's Update: what it had read becomes the PENDING row and the
\* copy it is about to enqueue.
LEMMA CallbackMoves ==
  ASSUME TypeOK, UsesTyped, NEW id \in Id, NEW s \in Server, NEW r \in Request,
         DispatchUpdate(s, r)
  PROVE  Fits(Uses(id), Uses(id)')
<1>0. StoreType /\ ReqType
  BY DEF TypeOK
<1>1. PICK n \in Copy : n = req[s][r].n
  BY HoldsCopy DEF DispatchUpdate
<1>2. Handler(s, r) /\ UNCHANGED <<chan, work, poll>>
  BY DEF Handler, DispatchUpdate
<1>3. EndReq(s, r) => req'[s][r].pc = "idle"
  BY <1>0, EndReqEffect
<1>4. SetReq(s, r, "trypush", "later", n) => req'[s][r].pc = "trypush" /\ req'[s][r].n = n
  BY <1>0, NoCopyIsNoCopy, SetReqEffect DEF ReqPc
<1>5. CASE UNCHANGED rows /\ EndReq(s, r)
  BY <1>2, <1>3, <1>5, HandlerKept
<1>6. CASE WriteRow(n, "PENDING", TRUE) /\ (EndReq(s, r) \/ SetReq(s, r, "trypush", "later", n))
  <2>1. /\ rows'[n.id].status = "PENDING" /\ rows'[n.id].retry = n.retry
        /\ \A x \in Id : x # n.id => rows'[x] = rows[x]
    BY <1>0, <1>6, WriteRowEffect DEF Status
  <2>2. CASE n.id # id
    <3>1. rows'[id] = rows[id]
      BY <2>1, <2>2
    <3> QED BY <1>2, <1>3, <1>4, <1>6, <2>2, <3>1, HandlerKept
  <2>3. CASE n.id = id
    <3>1. PICK a, b, c, d : /\ a = <<"first", s, r>> /\ b = <<"row", id, 0>>
                            /\ c = <<"second", s, r>> /\ d = <<"req", s, r>>
      OBVIOUS
    <3>2. ASSUME NEW p \in Places(id)', p # b, p # d PROVE p # a /\ p # c /\ Kept(p, id)
      <4>1. p[1] # "row"
        BY <3>1, <3>2, PlaceNext
      <4>2. p[1] \in {"req", "first", "second"} => <<p[2], p[3]>> # <<s, r>>
        BY <1>3, <1>4, <1>6, <3>1, <3>2, PlaceNext
      <4>3. p[1] \in {"req", "first", "second"} => req'[p[2]][p[3]] = req[p[2]][p[3]]
        BY <1>2, <4>2, PlaceNext, OneHandler
      <4>4. p[1] = "poll" => p[3] \in poll[p[2]].jobs
        BY <1>2, PlaceNext
      <4>5. p[1] = "chan" => p[3] <= Len(chan[p[2]]) /\ chan'[p[2]][p[3]] = chan[p[2]][p[3]]
        BY <1>2, PlaceNext
      <4>6. Kept(p, id)
        BY <1>2, <4>1, <4>3, <4>4, <4>5, PlaceKept
      <4> QED BY <3>1, <4>2, <4>6
    <3>3. a \in Places(id) /\ c \in Places(id)
      BY <1>1, <2>3, <3>1, PlaceNow DEF DispatchUpdate
    <3>4. Used(a) = n.retry /\ Used(c) = n.retry /\ n.retry \in Nat
      BY <1>1, <3>1, CopyFields DEF Used
    <3>5. Used(b)' = n.retry
      BY <2>1, <2>3, <3>1 DEF Used
    <3>6. d \in Places(id)' => Used(d)' = n.retry
      <4>1. d \in Places(id)' => req'[s][r].n = n
        BY <1>3, <1>4, <1>6, <3>1, PlaceNext
      <4> QED BY <3>1, <4>1 DEF Used
    <3>7. a # c /\ b # d
      BY <3>1
    <3>8. b \in Places(id)' => a \in Places(id) /\ Used(a) <= Used(b)'
      BY <3>3, <3>4, <3>5
    <3>9. d \in Places(id)' => c \in Places(id) /\ Used(c) <= Used(d)'
      BY <3>3, <3>4, <3>6
    <3>10. /\ DOMAIN Uses(id) = Places(id) /\ \A q \in Places(id) : Uses(id)[q] = Used(q)
           /\ DOMAIN Uses(id)' = Places(id)' /\ \A q \in Places(id)' : Uses(id)'[q] = Used(q)'
      BY DEF Uses
    <3> HIDE DEF Uses
    <3>11. TwoMoves(Uses(id), Uses(id)', a, b, c, d)
      BY <3>2, <3>7, <3>8, <3>9, <3>10 DEF TwoMoves, Kept
    <3> QED BY <3>11, TwoMoveFits
  <2> QED BY <2>2, <2>3
<1> QED BY <1>1, <1>5, <1>6 DEF DispatchUpdate

\* The HTTP handlers make no copy of a notification that is in the pipeline.
LEMMA HandlerFits ==
  ASSUME TypeOK, UsesTyped, NEW id \in Id, NEW s \in Server, NEW r \in Request, Handler(s, r),
         rows[id].status # "NONE", rows'[id].status # "SCHEDULED"
  PROVE  Fits(Uses(id), Uses(id)')
<1> USE NoCopyIsNoCopy
<1>0. StoreType /\ ReqType /\ req[s][r].mode \in {"now", "later"}
  BY DEF TypeOK, ReqType
<1>1. CASE CreateReject(s, r) \/ CreateAbandon(s, r) \/ DelegateOk(s, r)
  <2>1. req'[s][r].pc = "idle"
    BY <1>0, <1>1, EndReqEffect DEF CreateReject, CreateAbandon, DelegateOk
  <2>2. UNCHANGED <<rows, chan>>
    BY <1>1 DEF CreateReject, CreateAbandon, DelegateOk
  <2> QED BY <2>1, <2>2, HandlerKept
<1>2. CASE CreateCheck(s, r)
  <2>1. PICK mode \in {"now", "later"} : SetReq(s, r, "checked", mode, NoCopy)
    BY <1>2, ConstantsAssumption DEF CreateCheck
  <2>2. req'[s][r].pc = "checked"
    BY <1>0, <2>1, SetReqEffect DEF ReqPc
  <2>3. UNCHANGED <<rows, chan>>
    BY <1>2 DEF CreateCheck
  <2> QED BY <2>2, <2>3, HandlerKept
<1>3. CASE DelegatePost(s, r) \/ DelegateFail(s, r)
  <2>1. PICK n \in Copy : n = req[s][r].n
    BY <1>3, HoldsCopy DEF DelegatePost, DelegateFail
  <2>2. PICK pc \in {"wait", "undo"} : SetReq(s, r, pc, req[s][r].mode, n)
    BY <1>3, <2>1 DEF DelegatePost, DelegateFail
  <2>3. req'[s][r].pc \in {"wait", "undo"}
    BY <1>0, <2>2, SetReqEffect DEF ReqPc
  <2>4. UNCHANGED <<rows, chan>>
    BY <1>3 DEF DelegatePost, DelegateFail
  <2> QED BY <2>3, <2>4, HandlerKept
<1>4. CASE DelegateUndo(s, r)
  <2>1. PICK n \in Copy : n = req[s][r].n
    BY <1>4, HoldsCopy DEF DelegateUndo
  <2>2. req'[s][r].pc = "idle"
    BY <1>0, <1>4, EndReqEffect DEF DelegateUndo
  <2>3. WriteRow(n, "DLQ", FALSE) \/ UNCHANGED rows
    BY <1>4, <2>1 DEF DelegateUndo, UpdateFails
  <2>4. rows'[id] = rows[id] \/ rows'[id].status # "PENDING"
    BY <1>0, <2>3, WriteRowEffect DEF Status
  <2>5. UNCHANGED chan
    BY <1>4 DEF DelegateUndo
  <2> QED BY <2>2, <2>4, <2>5, HandlerKept
<1>5. CASE CreateSave(s, r)
  <2>1. PICK x \in Id \ Stored : (\A y \in Id : y # x => rows'[y] = rows[y]) /\ req'[s][r].n.id = x
    BY <1>5, CreateSaveEffect
  <2>2. x # id
    BY <2>1 DEF Stored
  <2>3. rows'[id] = rows[id] /\ UNCHANGED chan
    BY <1>5, <2>1, <2>2 DEF CreateSave
  <2> QED BY <2>1, <2>2, <2>3, HandlerKept
<1>6. ASSUME NEW x \in Id, DispatchRead(s, r, x) PROVE Fits(Uses(id), Uses(id)')
  <2>1. PICK n \in Copy : n = CopyOf(x)
    BY <1>0, CopyOfType
  <2>2. req'[s][r].n = n
    BY <1>0, <1>6, <2>1, SetReqEffect DEF DispatchRead, ReqPc
  <2>3. n.id # id /\ UNCHANGED <<rows, chan>>
    BY <1>6, <2>1 DEF DispatchRead, CopyOf
  <2> QED BY <2>2, <2>3, HandlerKept
<1>7. CASE CreatePush(s, r)
  BY <1>7, PushMoves DEF CreatePush
<1>8. CASE DispatchPush(s, r)
  <2>1. CASE Enqueue(s, req[s][r].n)
    BY <1>8, <2>1, PushMoves DEF DispatchPush
  <2>2. CASE UNCHANGED chan
    <3>1. req'[s][r].pc = "idle" /\ UNCHANGED rows
      BY <1>0, <1>8, EndReqEffect DEF DispatchPush
    <3> QED BY <2>2, <3>1, HandlerKept
  <2> QED BY <1>8, <2>1, <2>2 DEF DispatchPush
<1> QED BY <1>1, <1>2, <1>3, <1>4, <1>5, <1>6, <1>7, <1>8, CallbackMoves DEF Handler

\* A worker that lets go of its copy, or goes on with it, moves no other.
LEMMA WorkerKept ==
  ASSUME TypeOK, UsesTyped, NEW id \in Id, NEW s \in Server, NEW w \in Worker,
         UNCHANGED <<chan, poll, req>>,
         \A t \in Server, v \in Worker : <<t, v>> # <<s, w>> => work'[t][v] = work[t][v],
         NEW p \in Places(id)', p # <<"work", s, w>>, p[1] # "row"
  PROVE  Kept(p, id)
<1>1. p[1] = "work" => work'[p[2]][p[3]] = work[p[2]][p[3]]
  BY PlaceNext
<1>2. p[1] = "poll" => p[3] \in poll[p[2]].jobs
  BY PlaceNext
<1>3. p[1] = "chan" => p[3] <= Len(chan[p[2]]) /\ chan'[p[2]][p[3]] = chan[p[2]][p[3]]
  BY PlaceNext
<1> QED BY <1>1, <1>2, <1>3, PlaceKept

LEMMA WorkerLeaves ==
  ASSUME TypeOK, UsesTyped, NEW id \in Id, NEW s \in Server, NEW w \in Worker,
         UNCHANGED <<chan, poll, req>>,
         \A t \in Server, v \in Worker : <<t, v>> # <<s, w>> => work'[t][v] = work[t][v],
         work'[s][w].pc \notin Busy,
         rows'[id] = rows[id] \/ rows'[id].status # "PENDING"
  PROVE  Fits(Uses(id), Uses(id)')
<1> SUFFICES ASSUME NEW p \in Places(id)' PROVE Kept(p, id)
  BY KeptFits
<1>1. p # <<"work", s, w>>
  BY PlaceNext
<1>2. CASE p[1] = "row"
  <2>1. rows'[id] = rows[id]
    BY <1>2, PlaceNext
  <2> QED BY <1>2, <2>1, PlaceKept
<1>3. CASE p[1] # "row"
  BY <1>1, <1>3, WorkerKept
<1> QED BY <1>2, <1>3

\* A worker that takes the head of its channel: the queue moves up.
LEMMA TakeFits ==
  ASSUME TypeOK, UsesTyped, NEW id \in Id, NEW s \in Server, NEW w \in Worker, WorkerTake(s, w)
  PROVE  Fits(Uses(id), Uses(id)')
<1>0. chan[s] \in Seq(Copy) /\ chan \in [Server -> Seq(Copy)] /\ chan[s] # <<>> /\ Len(chan[s]) \in Nat
  BY DEF TypeOK, ChanType, WorkerTake
<1>1. PICK n \in Copy : n = Head(chan[s]) /\ n = chan[s][1]
  BY <1>0
<1>2. /\ work'[s][w].pc = "start" /\ work'[s][w].n = n
      /\ \A t \in Server, v \in Worker : <<t, v>> # <<s, w>> => work'[t][v] = work[t][v]
  BY <1>1, SetWorkEffect, NoCopyIsNoCopy DEF WorkerTake, WorkerPc, TypeOK
<1>3. /\ Len(chan'[s]) = Len(chan[s]) - 1
      /\ \A i \in 1 .. Len(chan'[s]) : chan'[s][i] = chan[s][i + 1]
      /\ \A t \in Server : t # s => chan'[t] = chan[t]
  BY <1>0 DEF WorkerTake
<1>4. UNCHANGED <<rows, poll, req>> /\ work[s][w].pc = "select"
  BY DEF WorkerTake
<1> DEFINE from(p) == IF p = <<"work", s, w>> THEN <<"chan", s, 1>>
                      ELSE IF p[1] = "chan" /\ p[2] = s THEN <<"chan", s, p[3] + 1>>
                      ELSE p
           g == [p \in Places(id)' |-> from(p)]
<1>5. ASSUME NEW p \in Places(id)'
      PROVE  from(p) \in Places(id) /\ Used(from(p)) <= Used(p)'
  <2>1. CASE p = <<"work", s, w>>
    <3>1. n.id = id
      BY <1>2, <2>1, PlaceNext
    <3>2. from(p) = <<"chan", s, 1>> /\ 1 \in 1 .. Len(chan[s])
      BY <1>0, <2>1
    <3>3. from(p) \in Places(id)
      BY <1>1, <3>1, <3>2, PlaceNow
    <3>4. Used(from(p)) = n.retry
      BY <1>1, <3>2 DEF Used
    <3>5. Used(p)' = n.retry
      BY <1>2, <2>1 DEF Used
    <3> QED BY <3>3, <3>4, <3>5, CopyFields
  <2>2. CASE p[1] = "chan" /\ p[2] = s
    <3>1. PICK i \in 1 .. Len(chan'[s]) : p = <<"chan", s, i>> /\ chan'[s][i].id = id
      BY <2>2, PlaceNext
    <3>2. from(p) = <<"chan", s, i + 1>> /\ i + 1 \in 1 .. Len(chan[s]) /\ chan'[s][i] = chan[s][i + 1]
      BY <1>0, <1>3, <2>2, <3>1
    <3>3. from(p) \in Places(id)
      BY <3>1, <3>2, PlaceNow
    <3>4. Used(from(p)) = chan[s][i + 1].retry /\ chan[s][i + 1] \in Copy
      BY <1>0, <3>2 DEF Used
    <3>5. Used(p)' = chan[s][i + 1].retry
      BY <3>1, <3>2 DEF Used
    <3> QED BY <3>3, <3>4, <3>5, CopyFields
  <2>3. CASE p # <<"work", s, w>> /\ ~(p[1] = "chan" /\ p[2] = s)
    <3>1. p[1] = "work" => work'[p[2]][p[3]] = work[p[2]][p[3]]
      BY <1>2, <2>3, PlaceNext
    <3>2. p[1] = "poll" => p[3] \in poll[p[2]].jobs
      BY <1>4, PlaceNext
    <3>3. p[1] = "chan" => p[3] <= Len(chan[p[2]]) /\ chan'[p[2]][p[3]] = chan[p[2]][p[3]]
      BY <1>0, <1>3, <2>3, PlaceNext
    <3>4. Kept(p, id)
      BY <1>4, <3>1, <3>2, <3>3, PlaceKept
    <3> QED BY <2>3, <3>4 DEF Kept
  <2> QED BY <2>1, <2>2, <2>3
<1>6. ASSUME NEW p \in Places(id)', NEW q \in Places(id)', from(p) = from(q) PROVE p = q
  <2>1. \A x \in Places(id)' :
          x[1] = "chan" /\ x[2] = s => x = <<"chan", s, x[3]>> /\ x[3] \in Nat /\ x[3] > 0
    BY PlaceNext
  <2> QED BY <1>6, <2>1
<1>7. g \in [Places(id)' -> Places(id)] /\ \A p \in Places(id)' : g[p] = from(p)
  BY <1>5
<1> HIDE DEF g, from
<1>8. g \in Injection(Places(id)', Places(id))
  BY <1>6, <1>7 DEF Injection, IsInjective
<1>9. /\ DOMAIN Uses(id) = Places(id) /\ \A q \in Places(id) : Uses(id)[q] = Used(q)
      /\ DOMAIN Uses(id)' = Places(id)' /\ \A q \in Places(id)' : Uses(id)'[q] = Used(q)'
  BY DEF Uses
<1>10. \A q \in Places(id)' : Uses(id)[g[q]] <= Uses(id)'[q]
  BY <1>5, <1>7, <1>9
<1> HIDE DEF Uses
<1> QED BY <1>8, <1>9, <1>10 DEF Fits

\* A worker that goes on with its copy uses it no less.
LEMMA AdvanceKept ==
  ASSUME TypeOK, UsesTyped, NEW id \in Id, NEW s \in Server, NEW w \in Worker,
         ProcessStart(s, w) \/ ProcessSend(s, w)
  PROVE  \A p \in Places(id)' : Kept(p, id)
<1> USE NoCopyIsNoCopy
<1>0. StoreType /\ WorkType
  BY DEF TypeOK
<1>1. PICK m \in Copy : m = work[s][w].n
  BY HoldsCopy DEF ProcessStart, ProcessSend
<1>2. rows'[id] = rows[id] \/ rows'[id].status # "PENDING"
  <2>1. UNCHANGED rows \/ WriteRow(m, "PROCESSING", TRUE)
    BY <1>1 DEF ProcessStart, ProcessSend, UpdateFails
  <2> QED BY <1>0, <2>1, WriteRowEffect DEF Status
<1>3. PICK pc \in WorkerPc \ {"select", "exited"}, n \in Copy :
        SetWork(s, w, pc, n) /\ n.id = m.id /\ n.retry >= m.retry
  <2>1. CASE ProcessStart(s, w)
    BY <1>1, <2>1, CopyFields DEF ProcessStart, WorkerPc
  <2>2. CASE ProcessSend(s, w)
    <3>1. PICK pc \in {"sent", "retry", "dead"}, n \in Copy :
            /\ SetWork(s, w, pc, n) /\ n.id = m.id
            /\ n = m \/ n.retry = m.retry + 1
      BY <1>1, <2>2, ProcessSendEffect
    <3> QED BY <3>1, CopyFields DEF WorkerPc
  <2> QED BY <2>1, <2>2
<1>4. /\ work'[s][w].pc = pc /\ work'[s][w].n = n
      /\ \A t \in Server, v \in Worker : <<t, v>> # <<s, w>> => work'[t][v] = work[t][v]
  BY <1>0, <1>3, SetWorkEffect
<1>5. UNCHANGED <<chan, poll, req>>
  BY DEF ProcessStart, ProcessSend
<1>6. ASSUME NEW p \in Places(id)' PROVE Kept(p, id)
  <2>1. CASE p = <<"work", s, w>>
    <3>1. n.id = id
      BY <1>4, <2>1, PlaceNext
    <3>2. p \in Places(id)
      BY <1>1, <1>3, <2>1, <3>1, PlaceNow DEF ProcessStart, ProcessSend, Busy
    <3>3. Used(p) = m.retry
      BY <1>1, <2>1 DEF Used, ProcessStart, ProcessSend
    <3>4. Used(p)' = n.retry \/ Used(p)' = n.retry + 1
      BY <1>4, <2>1 DEF Used
    <3>5. n.retry \in Nat /\ m.retry \in Nat
      BY CopyFields
    <3>6. Used(p) <= Used(p)'
      BY <1>3, <3>3, <3>4, <3>5
    <3> QED BY <3>2, <3>6 DEF Kept
  <2>2. CASE p # <<"work", s, w>> /\ p[1] # "row"
    BY <1>4, <1>5, <2>2, WorkerKept
  <2>3. CASE p[1] = "row"
    <3>1. rows'[id] = rows[id]
      BY <1>2, <2>3, PlaceNext
    <3> QED BY <2>3, <3>1, PlaceKept
  <2> QED BY <2>1, <2>2, <2>3
<1> QED BY <1>6

\* A worker moves no copy but its own, which it may put back in the table, and
\* which it uses no less.
LEMMA ProcessFits ==
  ASSUME TypeOK, UsesTyped, NEW id \in Id, NEW s \in Server, NEW w \in Worker,
         WorkerExit(s, w) \/ Process(s, w)
  PROVE  Fits(Uses(id), Uses(id)')
<1> USE NoCopyIsNoCopy
<1>0. StoreType /\ WorkType
  BY DEF TypeOK
<1>1. UNCHANGED <<chan, poll, req>>
  BY DEF WorkerExit, Process, ProcessPanic, ProcessStart, ProcessSend, ProcessSent, ProcessRetry,
     ProcessDead, ProcessArchive
<1>2. CASE \/ WorkerExit(s, w) \/ ProcessPanic(s, w) \/ ProcessArchive(s, w)
           \/ ProcessSent(s, w) \/ ProcessDead(s, w)
  <2>1. CASE WorkerExit(s, w)
    BY <1>0, <1>1, <2>1, SetWorkEffect, WorkerLeaves DEF WorkerExit, WorkerPc, Busy
  <2>2. CASE ProcessPanic(s, w)
    BY <1>0, <1>1, <2>2, SetWorkEffect, WorkerLeaves DEF ProcessPanic, WorkerPc, Busy
  <2>3. CASE ProcessArchive(s, w)
    BY <1>0, <1>1, <2>3, SetWorkEffect, WorkerLeaves DEF ProcessArchive, WorkerPc, Busy
  <2>4. CASE ProcessSent(s, w) \/ ProcessDead(s, w)
    <3>1. PICK n \in Copy : n = work[s][w].n
      BY <2>4, HoldsCopy DEF ProcessSent, ProcessDead
    <3>2. UNCHANGED rows \/ \E status \in {"SENT", "DLQ"} : WriteRow(n, status, TRUE)
      BY <2>4, <3>1 DEF ProcessSent, ProcessDead, UpdateFails
    <3>3. rows'[id] = rows[id] \/ rows'[id].status # "PENDING"
      BY <1>0, <3>2, WriteRowEffect DEF Status
    <3>4. CASE ProcessSent(s, w)
      BY <1>0, <1>1, <3>3, <3>4, SetWorkEffect, WorkerLeaves DEF ProcessSent, WorkerPc, Busy
    <3>5. CASE ProcessDead(s, w)
      BY <1>0, <1>1, <3>1, <3>3, <3>5, SetWorkEffect, WorkerLeaves DEF ProcessDead, WorkerPc, Busy
    <3> QED BY <2>4, <3>4, <3>5
  <2> QED BY <1>2, <2>1, <2>2, <2>3, <2>4
<1>3. CASE ProcessStart(s, w) \/ ProcessSend(s, w)
  BY <1>3, AdvanceKept, KeptFits
<1>4. CASE ProcessRetry(s, w)
  <2>1. PICK n \in Copy : n = work[s][w].n
    BY <1>4, HoldsCopy DEF ProcessRetry
  <2>2. /\ work'[s][w].pc = "select"
        /\ \A t \in Server, v \in Worker : <<t, v>> # <<s, w>> => work'[t][v] = work[t][v]
    BY <1>0, <1>4, SetWorkEffect DEF ProcessRetry, WorkerPc
  <2>3. CASE UNCHANGED rows
    BY <1>1, <2>2, <2>3, WorkerLeaves DEF Busy
  <2>4. CASE WriteRow(n, "PENDING", FALSE)
    <3>1. /\ rows'[n.id].retry = n.retry
          /\ \A x \in Id : x # n.id => rows'[x] = rows[x]
      BY <1>0, <2>4, WriteRowEffect DEF Status
    <3>2. CASE n.id # id
      BY <1>1, <2>2, <3>1, <3>2, WorkerLeaves DEF Busy
    <3>3. CASE n.id = id
      <4>1. PICK a, b : a = <<"work", s, w>> /\ b = <<"row", id, 0>>
        OBVIOUS
      <4>2. ASSUME NEW p \in Places(id)', p # b PROVE p # a /\ Kept(p, id)
        <5>1. p[1] # "row"
          BY <4>1, <4>2, PlaceNext
        <5>2. p # a
          BY <2>2, <4>1, PlaceNext DEF Busy
        <5> QED BY <1>1, <2>2, <4>1, <5>1, <5>2, WorkerKept
      <4>3. a \in Places(id)
        BY <1>4, <2>1, <3>3, <4>1, PlaceNow DEF ProcessRetry, Busy
      <4>4. Used(a) = n.retry /\ n.retry \in Nat
        BY <1>4, <2>1, <4>1, CopyFields DEF Used, ProcessRetry
      <4>5. Used(b)' = n.retry
        BY <3>1, <3>3, <4>1 DEF Used
      <4>6. Used(a) <= Used(b)'
        BY <4>4, <4>5
      <4> QED BY <4>2, <4>3, <4>6, MoveStep
    <3> QED BY <3>2, <3>3
  <2> QED BY <1>4, <2>1, <2>3, <2>4 DEF ProcessRetry, UpdateFails
<1> QED BY <1>2, <1>3, <1>4 DEF Process

\* The RetryScheduler turns a PENDING row into a job, and a job into a queued
\* copy.
LEMMA RetrySchedulerFits ==
  ASSUME TypeOK, UsesTyped, NEW id \in Id, NEW s \in Server, RetryScheduler(s)
  PROVE  Fits(Uses(id), Uses(id)')
<1>0. StoreType /\ PollType
  BY DEF TypeOK
<1>1. UNCHANGED <<work, req>>
  BY DEF RetryScheduler, PollClaim, PollClaimLost, PollNext, PollPush, PollExit
<1>2. CASE PollClaim(s)
  <2>1. PICK S \in SUBSET Id :
          /\ \A x \in S : rows[x].status = "PENDING"
          /\ ClaimRows(S)
          /\ poll'[s].jobs = {CopyOf(x) : x \in S}
          /\ \A t \in Server : t # s => poll'[t] = poll[t]
    BY <1>2, PollClaimEffect
  <2>2. /\ \A x \in S : rows'[x].status = "PROCESSING"
        /\ \A x \in Id \ S : rows'[x] = rows[x]
    BY <1>0, <2>1, ClaimRowsEffect
  <2>3. PICK n \in Copy : n = CopyOf(id) /\ n.id = id /\ n.retry = rows[id].retry
    BY <1>0, CopyOfType DEF CopyOf
  <2>4. UNCHANGED chan
    BY <1>2 DEF PollClaim
  <2>5. PICK a, b : a = <<"row", id, 0>> /\ b = <<"poll", s, n>>
    OBVIOUS
  <2>6. ASSUME NEW p \in Places(id)', p # b PROVE Kept(p, id) /\ (p = a => id \notin S)
    <3>1. p[1] = "row" => id \notin S
      BY <2>2, PlaceNext
    <3>2. p[1] = "row" => rows'[id] = rows[id]
      BY <2>2, <3>1
    <3>3. p[1] = "poll" => p[3] \in poll[p[2]].jobs
      <4>1. SUFFICES ASSUME p[1] = "poll" PROVE p[3] \in poll[p[2]].jobs
        OBVIOUS
      <4>2. PICK t \in Server, j \in Copy :
                p = <<"poll", t, j>> /\ j \in poll'[t].jobs /\ j.id = id
        BY <4>1, PlaceNext
      <4>3. CASE t = s
        <5>1. PICK x \in S : j = CopyOf(x)
          BY <2>1, <4>2, <4>3
        <5>2. x = id
          BY <4>2, <5>1 DEF CopyOf
        <5> QED BY <2>3, <2>5, <2>6, <4>2, <4>3, <5>1, <5>2
      <4>4. CASE t # s
        BY <2>1, <4>2, <4>4
      <4> QED BY <4>3, <4>4
    <3>4. p[1] = "chan" => p[3] <= Len(chan[p[2]]) /\ chan'[p[2]][p[3]] = chan[p[2]][p[3]]
      BY <2>4, PlaceNext
    <3>5. Kept(p, id)
      BY <1>1, <3>2, <3>3, <3>4, PlaceKept
    <3> QED BY <2>5, <3>1, <3>5
  <2>7. CASE id \in S
    <3>1. a \in Places(id)
      BY <2>1, <2>5, <2>7, PlaceNow
    <3>2. Used(a) = n.retry /\ Used(b)' = n.retry
      BY <2>3, <2>5 DEF Used
    <3>3. Used(a) <= Used(b)'
      BY <3>2, CopyFields
    <3> QED BY <2>6, <2>7, <3>1, <3>3, MoveStep
  <2>8. CASE id \notin S
    <3>1. b \notin Places(id)'
      <4>1. n \notin poll'[s].jobs
        BY <2>1, <2>3, <2>8 DEF CopyOf
      <4> QED BY <2>5, <4>1, PlaceNext
    <3> QED BY <2>6, <3>1, KeptFits
  <2> QED BY <2>7, <2>8
<1>3. CASE PollClaimLost(s) \/ PollNext(s) \/ PollExit(s)
  <2>1. \A t \in Server : poll'[t].jobs \subseteq poll[t].jobs
    BY <1>3, PollOtherEffect
  <2>2. rows'[id] = rows[id] \/ rows'[id].status # "PENDING"
    <3>1. UNCHANGED rows \/ \E S \in SUBSET Id : ClaimRows(S)
      BY <1>3 DEF PollClaimLost, PollNext, PollExit
    <3> QED BY <1>0, <3>1, ClaimRowsEffect
  <2>3. UNCHANGED chan
    BY <1>3 DEF PollClaimLost, PollNext, PollExit
  <2>4. ASSUME NEW p \in Places(id)' PROVE Kept(p, id)
    <3>1. p[1] = "row" => rows'[id] = rows[id]
      BY <2>2, PlaceNext
    <3>2. p[1] = "poll" => p[3] \in poll[p[2]].jobs
      BY <2>1, PlaceNext
    <3>3. p[1] = "chan" => p[3] <= Len(chan[p[2]]) /\ chan'[p[2]][p[3]] = chan[p[2]][p[3]]
      BY <2>3, PlaceNext
    <3> QED BY <1>1, <3>1, <3>2, <3>3, PlaceKept
  <2> QED BY <2>4, KeptFits
<1>4. CASE PollPush(s)
  <2>1. PICK n \in Copy : n = poll[s].job /\ n \in poll[s].jobs
    BY <1>0, <1>4, HoldsCopy DEF PollPush, PollType
  <2>2. PICK a : a = <<"poll", s, n>>
    OBVIOUS
  <2>3. \A t \in Server : poll'[t].jobs \subseteq poll[t].jobs
    BY <1>4, PollOtherEffect
  <2>4. n \notin poll'[s].jobs
    BY <1>0, <1>4, <2>1 DEF PollPush, SetPoll, PollType
  <2>5. UNCHANGED rows /\ Enqueue(s, n)
    BY <1>4, <2>1 DEF PollPush
  <2>6. ASSUME NEW p \in Places(id)', p[1] # "chan" PROVE p # a /\ Kept(p, id)
    <3>1. p # a
      BY <2>2, <2>4, PlaceNext
    <3>2. p[1] = "poll" => p[3] \in poll[p[2]].jobs
      BY <2>3, PlaceNext
    <3>3. Kept(p, id)
      BY <1>1, <2>5, <2>6, <3>2, PlaceKept
    <3> QED BY <3>1, <3>3
  <2>7. n.id = id => a \in Places(id)
    BY <2>1, <2>2, PlaceNow
  <2>8. Used(a) = n.retry /\ n.retry \in Nat /\ a[1] # "chan"
    BY <2>2, CopyFields DEF Used
  <2> QED BY <2>5, <2>6, <2>7, <2>8, EnqueueMoves
<1> QED BY <1>2, <1>3, <1>4 DEF RetryScheduler

\* A process that ends takes its copies with it; the others stay.
LEMMA LifecycleFits ==
  ASSUME TypeOK, UsesTyped, NEW id \in Id, NEW s \in Server, Lifecycle(s)
  PROVE  Fits(Uses(id), Uses(id)')
<1> SUFFICES ASSUME NEW p \in Places(id)' PROVE Kept(p, id)
  BY KeptFits
<1>1. CASE Signal(s) \/ BeginShutdown(s) \/ CloseChannel(s) \/ Restart(s)
  <2>1. UNCHANGED <<rows, chan, work, poll, req>>
    BY <1>1 DEF Signal, BeginShutdown, CloseChannel, Restart
  <2>2. p[1] = "chan" => p[3] <= Len(chan[p[2]]) /\ chan'[p[2]][p[3]] = chan[p[2]][p[3]]
    BY <2>1, PlaceNext
  <2>3. p[1] = "poll" => p[3] \in poll[p[2]].jobs
    BY <2>1, PlaceNext
  <2> QED BY <2>1, <2>2, <2>3, PlaceKept
<1>2. CASE Exit(s) \/ Crash(s)
  <2>1. StopProcess(s)
    BY <1>2 DEF Exit, Crash
  <2>2. \A t \in Server : chan'[t] = chan[t] \/ chan'[t] = <<>>
    BY <2>1 DEF StopProcess, TypeOK, ChanType
  <2>3. p[1] = "chan" => p[3] <= Len(chan[p[2]]) /\ chan'[p[2]][p[3]] = chan[p[2]][p[3]]
    <3>1. p[1] = "chan" => p[2] \in Server /\ p[3] \in 1 .. Len(chan'[p[2]])
      BY PlaceNext
    <3>2. Len(<<>>) = 0
      OBVIOUS
    <3>3. p[1] = "chan" => chan'[p[2]] = chan[p[2]]
      BY <2>2, <3>1, <3>2
    <3> QED BY <3>1, <3>3
  <2>4. p[1] = "work" => work'[p[2]][p[3]] = work[p[2]][p[3]]
    BY <2>1, StopProcessEffect, PlaceNext DEF Busy
  <2>5. p[1] = "poll" => p[3] \in poll[p[2]].jobs
    BY <2>1, StopProcessEffect, PlaceNext
  <2>6. p[1] \in {"req", "first", "second"} => req'[p[2]][p[3]] = req[p[2]][p[3]]
    BY <2>1, StopProcessEffect, PlaceNext
  <2>7. UNCHANGED rows
    BY <2>1 DEF StopProcess
  <2> QED BY <2>3, <2>4, <2>5, <2>6, <2>7, PlaceKept
<1> QED BY <1>1, <1>2 DEF Lifecycle

\* No step copies a notification that has left its sleep: copies move, and
\* count their attempts.
LEMMA NextFits ==
  ASSUME TypeOK, UsesTyped, Next, NEW id \in Id,
         rows[id].status # "NONE", rows'[id].status # "SCHEDULED"
  PROVE  Fits(Uses(id), Uses(id)')
<1>1. ASSUME NEW x \in Id, Environment(x) PROVE Fits(Uses(id), Uses(id)')
  <2>1. UNCHANGED <<chan, work, poll, req>>
    BY <1>1 DEF Environment, BackoffElapses, TaskStored, TaskRefused
  <2>2. rows'[id].status = rows[id].status /\ rows'[id].retry = rows[id].retry
    BY <1>1, BackoffEffect
  <2>3. ASSUME NEW p \in Places(id)' PROVE Kept(p, id)
    <3>1. p[1] = "chan" => p[3] <= Len(chan[p[2]]) /\ chan'[p[2]][p[3]] = chan[p[2]][p[3]]
      BY <2>1, PlaceNext
    <3>2. p[1] = "poll" => p[3] \in poll[p[2]].jobs
      BY <2>1, PlaceNext
    <3> QED BY <2>1, <2>2, <3>1, <3>2, PlaceKept
  <2> QED BY <2>3, KeptFits
<1> QED BY <1>1, HandlerFits, TakeFits, ProcessFits, RetrySchedulerFits, LifecycleFits DEF Next

-----------------------------------------------------------------------------
(* What has not been released yet                                          *)

\* A notification that nobody released is nowhere in the pipeline.
Asleep ==
  \A id \in Id :
    rows[id].status \in {"NONE", "SCHEDULED"} =>
      ~Held(id) /\ ~AtHandler({"push", "trypush"}, id) /\ delivered[id] = 0

\* Only a client that schedules leaves something to call back for.
LaterInv ==
  /\ \A s \in Server, r \in Request : req[s][r].pc = "checked" => req[s][r].mode \in Modes
  /\ \A id \in Id : rows[id].status = "SCHEDULED" \/ AtHandler({"update"}, id) => "later" \in Modes

\* A callback goes on to enqueue only after its Update wrote PENDING.
LEMMA CallbackWrites ==
  ASSUME TypeOK, Next, NEW s \in Server, NEW r \in Request,
         req[s][r].pc = "update", req'[s][r].pc = "trypush"
  PROVE  rows'[req[s][r].n.id].status = "PENDING"
<1>1. ASSUME NEW t \in Server, NEW q \in Request, Handler(t, q)
      PROVE  rows'[req[s][r].n.id].status = "PENDING"
  <2>1. <<t, q>> = <<s, r>>
    BY <1>1, OneHandler
  <2>2. DispatchUpdate(s, r)
    BY <1>1, <2>1 DEF Handler, CreateCheck, CreateReject, CreateSave, CreatePush, CreateAbandon,
       DelegatePost, DelegateOk, DelegateFail, DelegateUndo, DispatchRead, DispatchPush
  <2>3. PICK n \in Copy : n = req[s][r].n
    BY HoldsCopy
  <2>4. ~EndReq(s, r)
    BY EndReqEffect DEF TypeOK
  <2>5. WriteRow(n, "PENDING", TRUE)
    BY <2>2, <2>3, <2>4 DEF DispatchUpdate
  <2> QED BY <2>3, <2>5, WriteRowEffect DEF Status, TypeOK
<1>2. ASSUME NEW t \in Server, NEW w \in Worker, WorkerTake(t, w) \/ WorkerExit(t, w) \/ Process(t, w)
      PROVE  FALSE
  BY <1>2 DEF WorkerTake, WorkerExit, Process, ProcessPanic, ProcessStart, ProcessSend, ProcessSent,
     ProcessRetry, ProcessDead, ProcessArchive
<1>3. ASSUME NEW t \in Server, RetryScheduler(t) PROVE FALSE
  BY <1>3 DEF RetryScheduler, PollClaim, PollClaimLost, PollNext, PollPush, PollExit
<1>4. ASSUME NEW t \in Server, Lifecycle(t) PROVE FALSE
  <2>1. CASE Exit(t) \/ Crash(t)
    BY <2>1, StopProcessEffect DEF Exit, Crash
  <2> QED BY <1>4, <2>1 DEF Lifecycle, Signal, BeginShutdown, CloseChannel, Restart
<1>5. ASSUME NEW x \in Id, Environment(x) PROVE FALSE
  BY <1>5 DEF Environment, BackoffElapses, TaskStored, TaskRefused
<1> QED BY <1>1, <1>2, <1>3, <1>4, <1>5 DEF Next

\* Only a row that is asleep stays or falls asleep.
LEMMA SleepFlow ==
  ASSUME TypeOK, Next, NEW id \in Id, rows'[id].status \in {"NONE", "SCHEDULED"}
  PROVE  rows[id].status \in {"NONE", "SCHEDULED"}
BY RowFlow

\* What sleeps is left alone.
LEMMA AsleepStep == TypeOK /\ Asleep /\ [Next]_vars => Asleep'
<1> SUFFICES ASSUME TypeOK, Asleep, [Next]_vars PROVE Asleep'
  OBVIOUS
<1>1. CASE UNCHANGED vars
  BY <1>1 DEF vars, Asleep, Held, Queued, AtHandler
<1>2. CASE Next
  <2> SUFFICES ASSUME NEW id \in Id, rows'[id].status \in {"NONE", "SCHEDULED"}
               PROVE  ~Held(id)' /\ ~AtHandler({"push", "trypush"}, id)' /\ delivered'[id] = 0
    BY DEF Asleep
  <2>1. rows[id].status \in {"NONE", "SCHEDULED"}
    BY <1>2, SleepFlow
  <2>2. ~Held(id) /\ ~AtHandler({"push", "trypush"}, id) /\ delivered[id] = 0
    BY <2>1 DEF Asleep
  <2>3. ~Held(id)' /\ delivered'[id] = 0
    BY <1>2, <2>1, <2>2, HeldFlow, DeliverFlow
  <2>4. ASSUME NEW s \in Server, NEW r \in Request,
               req'[s][r].pc \in {"push", "trypush"}, req'[s][r].n.id = id
        PROVE  FALSE
    <3>1. req'[s][r] # req[s][r]
      BY <2>2, <2>4 DEF AtHandler
    <3>2. ~CreateSave(s, r)
      <4>1. SUFFICES ASSUME CreateSave(s, r) PROVE FALSE
        OBVIOUS
      <4> QED BY <2>4, <4>1, CreateSaveEffect
    <3>3. req[s][r].pc = "update" /\ req'[s][r].pc = "trypush" /\ req[s][r].n.id = id
      BY <1>2, <2>4, <3>1, <3>2, ReqFlow
    <3> QED BY <1>2, <3>3, CallbackWrites
  <2>5. ~AtHandler({"push", "trypush"}, id)'
    BY <2>4 DEF AtHandler
  <2> QED BY <2>3, <2>5
<1> QED BY <1>1, <1>2

\* Where the callbacks come from.
LEMMA LaterStep == TypeOK /\ LaterInv /\ [Next]_vars => LaterInv'
<1> SUFFICES ASSUME TypeOK, LaterInv, [Next]_vars PROVE LaterInv'
  OBVIOUS
<1>1. CASE UNCHANGED vars
  BY <1>1 DEF vars, LaterInv, AtHandler
<1>2. CASE Next
  <2>1. ASSUME NEW s \in Server, NEW r \in Request, req'[s][r].pc = "checked"
        PROVE  req'[s][r].mode \in Modes
    <3>1. ~CreateSave(s, r)
      <4>1. SUFFICES ASSUME CreateSave(s, r) PROVE FALSE
        OBVIOUS
      <4> QED BY <2>1, <4>1, CreateSaveEffect
    <3> QED BY <1>2, <2>1, <3>1, ReqFlow DEF LaterInv
  <2>2. ASSUME NEW id \in Id, rows'[id].status = "SCHEDULED"
        PROVE  "later" \in Modes
    <3>1. CASE rows[id].status = "SCHEDULED"
      BY <3>1 DEF LaterInv
    <3>2. CASE rows[id].status # "SCHEDULED"
      <4>1. PICK s \in Server, r \in Request :
              /\ CreateSave(s, r)
              /\ rows'[id].status = IF req[s][r].mode = "later" THEN "SCHEDULED" ELSE "PENDING"
        BY <1>2, <2>2, <3>2, RowFlow
      <4>2. req[s][r].mode = "later" /\ req[s][r].pc = "checked"
        BY <2>2, <4>1 DEF CreateSave
      <4> QED BY <4>2 DEF LaterInv
    <3> QED BY <3>1, <3>2
  <2>3. ASSUME NEW id \in Id, NEW s \in Server, NEW r \in Request,
               req'[s][r].pc = "update", req'[s][r].n.id = id
        PROVE  "later" \in Modes
    <3>1. CASE req'[s][r] = req[s][r]
      BY <2>3, <3>1 DEF LaterInv, AtHandler
    <3>2. CASE req'[s][r] # req[s][r]
      <4>1. ~CreateSave(s, r)
        <5>1. SUFFICES ASSUME CreateSave(s, r) PROVE FALSE
          OBVIOUS
        <5> QED BY <2>3, <5>1, CreateSaveEffect
      <4>2. rows[id].status = "SCHEDULED"
        BY <1>2, <2>3, <3>2, <4>1, ReqFlow
      <4> QED BY <4>2 DEF LaterInv
    <3> QED BY <3>1, <3>2
  <2> QED BY <2>1, <2>2, <2>3 DEF LaterInv, AtHandler
<1> QED BY <1>1, <1>2

-----------------------------------------------------------------------------
(* The counts                                                              *)

\* The copies of a notification, and the deliveries they may still make.
CountsAt(id) ==
  /\ IsFiniteSet(Places(id))
  /\ Cardinality(Places(id)) <= 2 * Triggers
  /\ Cardinality(Tickets(Uses(id))) + delivered[id] <= 2 * Triggers * (MaxRetryCount + 1)

\* The inductive strengthening of CopiesBound and DeliveryBound.
CopiesInv == \A id \in Id : CountsAt(id)

\* What it says of the notifications that are asleep follows from Asleep.
AsleepCounts ==
  \A id \in Id : rows[id].status \in {"NONE", "SCHEDULED"} => CountsAt(id)

\* The number of hand-overs is a number.
LEMMA TriggersType == Triggers \in Nat
BY CountedFinite DEF Triggers

\* As many places as there can be copies make as many attempts as there can be
\* deliveries.
LEMMA TicketsLimit ==
  ASSUME NEW P, NEW f \in [P -> Nat], IsFiniteSet(P), Cardinality(P) <= 2 * Triggers
  PROVE  IsFiniteSet(Tickets(f)) /\ Cardinality(Tickets(f)) <= 2 * Triggers * (MaxRetryCount + 1)
<1>1. PICK t \in Nat : t = 2 * Triggers
  BY TriggersType
<1>2. PICK m \in Nat : m = MaxRetryCount + 1
  BY ConstantsAssumption
<1>3. PICK k \in Nat : k = Cardinality(P)
  BY FS_CardinalityType
<1>4. IsFiniteSet(Tickets(f)) /\ Cardinality(Tickets(f)) <= k * m
  BY <1>2, <1>3, TicketsBound
<1>5. Cardinality(Tickets(f)) \in Nat
  BY <1>4, FS_CardinalityType
<1>6. k <= t
  BY <1>1, <1>3
<1>7. k * m <= t * m /\ k * m \in Nat /\ t * m \in Nat
  BY <1>6
<1>8. Cardinality(Tickets(f)) <= t * m
  BY <1>4, <1>5, <1>7
<1> QED BY <1>1, <1>2, <1>4, <1>8

\* A callback has two places.
LEMMA CallPlacesCount ==
  ASSUME NEW id \in Id
  PROVE  /\ IsFiniteSet(CallPlaces(id))
         /\ Cardinality(CallPlaces(id)) <= 2 * Cardinality(Server \X Request)
<1> DEFINE K == {"first", "second"}
           B == K \X (Server \X Request)
           g == [p \in CallPlaces(id) |-> <<p[1], <<p[2], p[3]>>>>]
<1>1. IsFiniteSet(K) /\ Cardinality(K) = 2
  <2>1. IsFiniteSet({"first"}) /\ Cardinality({"first"}) = 1
    BY FS_Singleton
  <2>2. K = {"first"} \cup {"second"} /\ "second" \notin {"first"}
    OBVIOUS
  <2> QED BY <2>1, <2>2, FS_AddElement
<1>2. IsFiniteSet(B) /\ Cardinality(B) = 2 * Cardinality(Server \X Request)
  BY <1>1, CountedFinite, FS_Product
<1>3. g \in [CallPlaces(id) -> B] /\ \A p \in CallPlaces(id) : g[p] = <<p[1], <<p[2], p[3]>>>>
  BY DEF CallPlaces
<1>4. \A p \in CallPlaces(id) : p = <<p[1], p[2], p[3]>>
  BY DEF CallPlaces
<1> HIDE DEF g, B
<1>5. \A p, q \in CallPlaces(id) : g[p] = g[q] => p = q
  BY <1>3, <1>4
<1>6. g \in Injection(CallPlaces(id), B)
  BY <1>3, <1>5 DEF Injection, IsInjective
<1> QED BY <1>2, <1>6, FS_Injection

\* Nothing but callbacks has hold of a notification that is asleep.
LEMMA AsleepPlaces == TypeOK /\ UsesTyped /\ Asleep /\ LaterInv => AsleepCounts
<1> SUFFICES ASSUME TypeOK, UsesTyped, Asleep, LaterInv, NEW id \in Id,
                    rows[id].status \in {"NONE", "SCHEDULED"}
             PROVE  CountsAt(id)
  BY DEF AsleepCounts
<1>1. ~Held(id) /\ ~AtHandler({"push", "trypush"}, id) /\ delivered[id] = 0
  BY DEF Asleep
<1>2. ASSUME NEW p \in Places(id) PROVE p \in CallPlaces(id)
  <2>1. p[1] # "chan"
    <3>1. SUFFICES ASSUME p[1] = "chan" PROVE FALSE
      OBVIOUS
    <3>2. p[2] \in Server /\ chan[p[2]][p[3]] \in Queued(p[2]) /\ chan[p[2]][p[3]].id = id
      BY <3>1, PlaceNow DEF Queued
    <3> QED BY <1>1, <3>2 DEF Held
  <2>2. p[1] # "work"
    BY <1>1, PlaceNow DEF Held, Busy
  <2>3. p[1] # "poll"
    BY <1>1, PlaceNow DEF Held
  <2>4. p[1] # "req"
    BY <1>1, PlaceNow DEF AtHandler
  <2>5. p[1] # "row"
    BY PlaceNow
  <2> QED BY <2>1, <2>2, <2>3, <2>4, <2>5, PlaceNow DEF CallPlaces
<1>3. IsFiniteSet(Places(id)) /\ Cardinality(Places(id)) <= 2 * Triggers
  <2>1. CASE "later" \in Modes
    <3>1. IsFiniteSet(Places(id)) /\ Cardinality(Places(id)) <= Cardinality(CallPlaces(id))
      BY <1>2, CallPlacesCount, FS_Subset
    <3>2. Cardinality(Places(id)) \in Nat /\ Cardinality(CallPlaces(id)) \in Nat
      BY <3>1, CallPlacesCount, FS_CardinalityType
    <3> QED BY <2>1, <3>1, <3>2, CallPlacesCount, CountedFinite DEF Triggers
  <2>2. CASE "later" \notin Modes
    <3>1. ~AtHandler({"update"}, id)
      BY <2>2 DEF LaterInv
    <3>2. CallPlaces(id) = {}
      BY <3>1 DEF CallPlaces, AtHandler
    <3>3. Places(id) = {}
      BY <1>2, <3>2
    <3> QED BY <3>3, FS_EmptySet, TriggersType
  <2> QED BY <2>1, <2>2
<1>4. Uses(id) \in [Places(id) -> Nat]
  BY DEF UsesTyped
<1>5. IsFiniteSet(Tickets(Uses(id))) /\ Cardinality(Tickets(Uses(id))) <= 2 * Triggers * (MaxRetryCount + 1)
  BY <1>3, <1>4, TicketsLimit
<1>6. Cardinality(Tickets(Uses(id))) \in Nat
  BY <1>5, FS_CardinalityType
<1> QED BY <1>1, <1>3, <1>5, <1>6 DEF CountsAt

\* A notification that is released at once: its row and the copy of its handler.
LEMMA ReleaseCounts ==
  ASSUME TypeOK, StoredInv, Asleep, UsesTyped', Next, NEW id \in Id,
         rows[id].status = "NONE", rows'[id].status \notin {"NONE", "SCHEDULED"}
  PROVE  CountsAt(id)'
<1>1. ~Held(id) /\ ~AtHandler(Holding, id) /\ delivered[id] = 0
  BY DEF StoredInv, Stored, Asleep
<1>2. ~AtHandler({"undo"}, id) /\ ~AtHandler({"update"}, id)
  BY <1>1 DEF AtHandler, Holding, ReqPc
<1>3. PICK s \in Server, r \in Request :
        CreateSave(s, r) /\ rows'[id].status = IF req[s][r].mode = "later" THEN "SCHEDULED" ELSE "PENDING"
  BY <1>1, <1>2, RowFlow
<1>4. UNCHANGED <<chan, work, poll, delivered>>
  BY <1>3 DEF CreateSave
<1>5. PICK a, b : a = <<"row", id, 0>> /\ b = <<"req", s, r>>
  OBVIOUS
<1>6. PICK P : P = {a} \cup {b}
  OBVIOUS
<1>7. \A t \in Server, q \in Request : <<t, q>> # <<s, r>> => req'[t][q] = req[t][q]
  BY <1>3, CreateSaveEffect
<1>8. req'[s][r].pc \in {"delegate", "push"}
  BY <1>3, CreateSaveEffect
<1>9. ASSUME NEW p \in Places(id)' PROVE p \in P
  <2>1. p[1] # "chan"
    <3>1. SUFFICES ASSUME p[1] = "chan" PROVE FALSE
      OBVIOUS
    <3>2. p[2] \in Server /\ chan[p[2]][p[3]] \in Queued(p[2]) /\ chan[p[2]][p[3]].id = id
      BY <1>4, <3>1, PlaceNext DEF Queued
    <3> QED BY <1>1, <3>2 DEF Held
  <2>2. p[1] # "work"
    BY <1>1, <1>4, PlaceNext DEF Held, Busy
  <2>3. p[1] # "poll"
    BY <1>1, <1>4, PlaceNext DEF Held
  <2>4. ASSUME p[1] \in {"req", "first", "second"} PROVE p = b
    <3>1. PICK t \in Server, q \in Request :
            /\ p = <<p[1], t, q>> /\ req'[t][q].n.id = id
            /\ req'[t][q].pc \in IF p[1] = "req" THEN {"push", "trypush"} ELSE {"update"}
      BY <2>4, PlaceNext
    <3>2. CASE <<t, q>> = <<s, r>>
      BY <1>5, <1>8, <3>1, <3>2
    <3>3. CASE <<t, q>> # <<s, r>>
      <4>1. req[t][q].pc \in Holding /\ req[t][q].n.id = id
        BY <1>7, <3>1, <3>3 DEF Holding, ReqPc
      <4> QED BY <1>1, <4>1 DEF AtHandler
    <3> QED BY <3>2, <3>3
  <2>5. p[1] = "row" => p = a
    BY <1>5, PlaceNext
  <2> QED BY <1>6, <2>1, <2>2, <2>3, <2>4, <2>5, PlaceNext
<1>10. IsFiniteSet(P) /\ Cardinality(P) = 2
  <2>1. PICK A : A = {a}
    OBVIOUS
  <2>2. IsFiniteSet(A) /\ Cardinality(A) = 1
    BY <2>1, FS_Singleton
  <2>3. b \notin A /\ P = A \cup {b}
    BY <1>5, <1>6, <2>1
  <2> QED BY <2>2, <2>3, FS_AddElement
<1>11. Triggers >= 1
  <2>1. Server \X Request # {}
    <3>1. <<s, r>> \in Server \X Request
      OBVIOUS
    <3> QED BY <3>1
  <2> QED BY <2>1, CountedFinite, FS_EmptySet DEF Triggers
<1>12. IsFiniteSet(Places(id)') /\ Cardinality(Places(id)') <= 2
  BY <1>9, <1>10, FS_Subset
<1>13. Cardinality(Places(id)') \in Nat
  BY <1>12, FS_CardinalityType
<1>14. Cardinality(Places(id)') <= 2 * Triggers
  BY <1>11, <1>12, <1>13, TriggersType
<1>15. Uses(id)' \in [Places(id)' -> Nat]
  BY DEF UsesTyped
<1>16. /\ IsFiniteSet(Tickets(Uses(id)'))
       /\ Cardinality(Tickets(Uses(id)')) <= 2 * Triggers * (MaxRetryCount + 1)
  BY <1>12, <1>14, <1>15, TicketsLimit
<1>17. Cardinality(Tickets(Uses(id)')) \in Nat /\ delivered'[id] = 0
  BY <1>1, <1>4, <1>16, FS_CardinalityType
<1> QED BY <1>12, <1>14, <1>16, <1>17 DEF CountsAt, Triggers

\* An attempt that reached the provider has been counted.
LEMMA SendSpends ==
  ASSUME TypeOK, UsesTyped, BudgetInv, NEW id \in Id, NEW s \in Server, NEW w \in Worker,
         ProcessSend(s, w), work[s][w].n.id = id
  PROVE  LET a == <<"work", s, w>>
         IN  /\ a \in Places(id) /\ Used(a) <= MaxRetryCount
             /\ Used(a)' = Used(a) + 1
<1>1. PICK m \in Copy : m = work[s][w].n
  BY HoldsCopy DEF ProcessSend
<1>2. PICK pc \in {"sent", "retry", "dead"}, n \in Copy :
        /\ SetWork(s, w, pc, n)
        /\ pc = "sent" => n = m
        /\ pc # "sent" => n.retry = m.retry + 1
  BY <1>1, ProcessSendEffect
<1>3. work'[s][w].pc = pc /\ work'[s][w].n = n
  BY <1>2, SetWorkEffect, NoCopyIsNoCopy DEF TypeOK, WorkerPc
<1>4. PICK a : a = <<"work", s, w>>
  OBVIOUS
<1>5. a \in Places(id)
  BY <1>4, PlaceNow DEF ProcessSend, Busy
<1>6. Used(a) = m.retry
  BY <1>1, <1>4 DEF Used, ProcessSend
<1>7. m.retry <= MaxRetryCount
  BY <1>1 DEF BudgetInv, WorkBudget, ProcessSend
<1>8. Used(a)' = m.retry + 1
  BY <1>2, <1>3, <1>4 DEF Used
<1> QED BY <1>4, <1>5, <1>6, <1>7, <1>8

\* A notification that was released keeps its copies and its attempts.
LEMMA CountsStep ==
  ASSUME TypeOK, UsesTyped, UsesTyped', BudgetInv, Next, NEW id \in Id, CountsAt(id),
         rows[id].status # "NONE", rows'[id].status # "SCHEDULED"
  PROVE  CountsAt(id)'
<1>1. PICK P, Q : P = Places(id) /\ Q = Places(id)'
  OBVIOUS
<1>2. PICK f, h : f = Uses(id) /\ h = Uses(id)'
  OBVIOUS
<1>3. f \in [P -> Nat] /\ h \in [Q -> Nat]
  BY <1>1, <1>2 DEF UsesTyped
<1>4. IsFiniteSet(P) /\ Cardinality(P) <= 2 * Triggers
  BY <1>1 DEF CountsAt
<1>5. IsFiniteSet(Tickets(f)) /\ Cardinality(Tickets(f)) \in Nat
  BY <1>3, <1>4, TicketsLimit, FS_CardinalityType
<1>6. Fits(f, h)
  BY <1>2, NextFits
<1>7. /\ IsFiniteSet(Q) /\ Cardinality(Q) <= Cardinality(P)
      /\ IsFiniteSet(Tickets(h)) /\ Cardinality(Tickets(h)) <= Cardinality(Tickets(f))
  BY <1>3, <1>4, <1>5, <1>6, FitsCounts
<1>8. /\ Cardinality(Q) \in Nat /\ Cardinality(P) \in Nat /\ Cardinality(Tickets(h)) \in Nat
      /\ delivered[id] \in Nat
  BY <1>4, <1>7, FS_CardinalityType DEF TypeOK, StoreType
<1>9. PICK limit \in Nat : limit = 2 * Triggers * (MaxRetryCount + 1)
  BY TriggersType, ConstantsAssumption
<1>10. Cardinality(Tickets(h)) + delivered'[id] <= Cardinality(Tickets(f)) + delivered[id]
  <2>1. CASE delivered'[id] = delivered[id]
    BY <1>5, <1>7, <1>8, <2>1
  <2>2. CASE delivered'[id] # delivered[id]
    <3>1. PICK s \in Server, w \in Worker :
            ProcessSend(s, w) /\ work[s][w].n.id = id /\ delivered'[id] = delivered[id] + 1
      BY <2>2, SendFlow
    <3>2. PICK a : a = <<"work", s, w>>
      OBVIOUS
    <3>3. a \in Places(id) /\ Used(a) <= MaxRetryCount /\ Used(a)' = Used(a) + 1
      BY <3>1, <3>2, SendSpends
    <3>4. \A p \in Places(id)' : Kept(p, id)
      BY <3>1, AdvanceKept
    <3>5. /\ \A q \in Places(id) : Uses(id)[q] = Used(q)
          /\ \A q \in Places(id)' : Uses(id)'[q] = Used(q)'
      BY DEF Uses
    <3>6. Q \in SUBSET P /\ a \in P
      BY <1>1, <3>3, <3>4 DEF Kept
    <3>7. \A q \in Q \ {a} : f[q] <= h[q]
      BY <1>1, <1>2, <3>4, <3>5 DEF Kept
    <3>8. f[a] = Used(a) /\ (a \in Q => h[a] = Used(a)')
      BY <1>1, <1>2, <3>3, <3>5
    <3>9. f[a] \in Nat /\ f[a] <= MaxRetryCount /\ (a \in Q => f[a] + 1 <= h[a])
      BY <1>3, <3>3, <3>6, <3>8
    <3>10. Cardinality(Tickets(h)) + 1 <= Cardinality(Tickets(f))
      BY <1>3, <1>5, <3>6, <3>7, <3>9, TicketSpent
    <3> QED BY <1>5, <1>8, <3>1, <3>10
  <2> QED BY <2>1, <2>2
<1>11. Cardinality(Tickets(f)) + delivered[id] <= limit
  BY <1>2, <1>9 DEF CountsAt
<1>12. delivered'[id] \in Nat
  <2>1. delivered'[id] = delivered[id] \/ delivered'[id] = delivered[id] + 1
    BY SendFlow
  <2> QED BY <1>8, <2>1
<1>13. Cardinality(Tickets(h)) + delivered'[id] <= limit
  BY <1>5, <1>8, <1>10, <1>11, <1>12
<1>14. Cardinality(Q) <= 2 * Triggers
  BY <1>4, <1>7, <1>8, TriggersType
<1> QED BY <1>1, <1>2, <1>7, <1>9, <1>13, <1>14 DEF CountsAt, Triggers

\* The counts are an invariant of the service: no interleaving of handlers,
\* callbacks, workers and pollers, no crash and no lost statement makes a copy
\* out of nothing.
THEOREM CopiesCounted == Spec => []CopiesInv
<1>1. Init => Asleep /\ LaterInv /\ StoredInv
  <2>1. Init => StoredInv
    BY DEF Init, StoredInv, Held, Queued, AtHandler, Holding, IdleWorker, IdlePoller, IdleRequest
  <2>2. Init => Asleep
    BY DEF Init, Asleep, Held, Queued, AtHandler, IdleWorker, IdlePoller, IdleRequest
  <2>3. Init => LaterInv
    BY DEF Init, LaterInv, AtHandler, IdleRequest
  <2> QED BY <2>1, <2>2, <2>3
<1>2. Init /\ AsleepCounts => CopiesInv
  BY DEF Init, AsleepCounts, CopiesInv
<1>3. TypeOK /\ UsesTyped /\ UsesTyped' /\ BudgetInv /\ StoredInv /\ Asleep /\ AsleepCounts'
      /\ CopiesInv /\ [Next]_vars => CopiesInv'
  <2> SUFFICES ASSUME TypeOK, UsesTyped, UsesTyped', BudgetInv, StoredInv, Asleep, AsleepCounts',
                      CopiesInv, [Next]_vars, NEW id \in Id
               PROVE  CountsAt(id)'
    BY DEF CopiesInv
  <2>0. CountsAt(id)
    BY DEF CopiesInv
  <2>1. CASE UNCHANGED vars
    <3>1. Places(id)' = Places(id)
      BY <2>1 DEF vars, Places, ChanPlaces, WorkPlaces, PollPlaces, PushPlaces, RowPlaces, CallPlaces
    <3>2. Uses(id)' = Uses(id)
      BY <2>1, <3>1 DEF vars, Uses, Used
    <3> QED BY <2>0, <2>1, <3>1, <3>2 DEF vars, CountsAt, Triggers
  <2>2. CASE Next /\ rows'[id].status \in {"NONE", "SCHEDULED"}
    BY <2>2 DEF AsleepCounts
  <2>3. CASE Next /\ rows'[id].status \notin {"NONE", "SCHEDULED"} /\ rows[id].status = "NONE"
    BY <2>3, ReleaseCounts
  <2>4. CASE Next /\ rows'[id].status \notin {"NONE", "SCHEDULED"} /\ rows[id].status # "NONE"
    BY <2>0, <2>4, CountsStep
  <2> QED BY <2>1, <2>2, <2>3, <2>4
<1> QED BY <1>1, <1>2, <1>3, UsesType, AsleepStep, LaterStep, AsleepPlaces, StoredStep,
        TypeCorrect, BudgetInvariant, PTL DEF Spec

\* Copies do not multiply: what goes on to enqueue or send a notification, its
\* PENDING row included, is at most two for every time it was handed over.
THEOREM CopiesBounded == Spec => []CopiesBound
<1>1. TypeOK /\ CopiesInv => CopiesBound
  <2> SUFFICES ASSUME TypeOK, CopiesInv, NEW id \in Id
               PROVE  Cardinality(InFlight(id)) + (IF rows[id].status = "PENDING" THEN 1 ELSE 0)
                        <= 2 * Triggers
    BY DEF CopiesBound
  <2>1. IsFiniteSet(Places(id)) /\ Cardinality(Places(id)) <= 2 * Triggers
    BY DEF CopiesInv, CountsAt
  <2>2. PICK row : row = <<"row", id, 0>>
    OBVIOUS
  <2>3. ASSUME NEW p \in InFlight(id) PROVE p \in Places(id) \ {row}
    <3>1. PICK s \in Server :
            \/ \E i \in 1 .. Len(chan[s]) : p = <<"chan", s, i>> /\ chan[s][i].id = id
            \/ \E w \in Worker : p = <<"work", s, w>> /\ work[s][w].pc \in Busy /\ work[s][w].n.id = id
            \/ \E j \in poll[s].jobs : p = <<"poll", s, j>> /\ j.id = id
            \/ \E r \in Request : /\ p = <<"req", s, r>> /\ req[s][r].pc \in {"push", "trypush"}
                                   /\ req[s][r].n.id = id
      BY DEF InFlight
    <3>2. poll[s].jobs \subseteq Copy /\ Len(chan[s]) \in Nat
      BY HoldsCopy DEF TypeOK, ChanType
    <3>3. p # row
      BY <2>2, <3>1
    <3> QED BY <3>1, <3>2, <3>3, PlaceNow
  <2>4. InFlight(id) \in SUBSET Places(id)
    BY <2>3
  <2>5. IsFiniteSet(InFlight(id)) /\ Cardinality(InFlight(id)) <= Cardinality(Places(id))
    BY <2>1, <2>4, FS_Subset
  <2>6. Cardinality(InFlight(id)) \in Nat /\ Cardinality(Places(id)) \in Nat
    BY <2>1, <2>5, FS_CardinalityType
  <2>7. CASE rows[id].status = "PENDING"
    <3>1. row \in Places(id)
      BY <2>2, <2>7, PlaceNow
    <3>2. IsFiniteSet(Places(id) \ {row}) /\ Cardinality(Places(id) \ {row}) = Cardinality(Places(id)) - 1
      BY <2>1, <3>1, FS_RemoveElement
    <3>3. InFlight(id) \in SUBSET (Places(id) \ {row})
      BY <2>3
    <3>4. Cardinality(InFlight(id)) <= Cardinality(Places(id) \ {row})
      BY <3>2, <3>3, FS_Subset
    <3> QED BY <2>1, <2>6, <2>7, <3>2, <3>4, TriggersType
  <2>8. CASE rows[id].status # "PENDING"
    BY <2>1, <2>5, <2>6, <2>8, TriggersType
  <2> QED BY <2>7, <2>8
<1> QED BY <1>1, CopiesCounted, TypeCorrect, PTL

\* Hence the provider accepts a notification at most twice as often as the
\* retry policy intends, once for every hand-over.
THEOREM DeliveriesBounded == Spec => []DeliveryBound
<1>1. TypeOK /\ UsesTyped /\ CopiesInv => DeliveryBound
  <2> SUFFICES ASSUME TypeOK, UsesTyped, CopiesInv, NEW id \in Id
               PROVE  delivered[id] <= 2 * Triggers * (MaxRetryCount + 1)
    BY DEF DeliveryBound
  <2>1. PICK limit \in Nat : limit = 2 * Triggers * (MaxRetryCount + 1)
    BY TriggersType, ConstantsAssumption
  <2>2. CountsAt(id)
    BY DEF CopiesInv
  <2>3. Cardinality(Tickets(Uses(id))) + delivered[id] <= limit
    BY <2>1, <2>2 DEF CountsAt
  <2>4. IsFiniteSet(Tickets(Uses(id)))
    BY <2>2, TicketsLimit DEF CountsAt, UsesTyped
  <2>5. Cardinality(Tickets(Uses(id))) \in Nat /\ delivered[id] \in Nat
    BY <2>4, FS_CardinalityType DEF TypeOK, StoreType
  <2> QED BY <2>1, <2>3, <2>5
<1> QED BY <1>1, UsesType, CopiesCounted, TypeCorrect, PTL
-----------------------------------------------------------------------------
(* The contract                                                            *)

\* The archive is written by a worker that ends with a dead letter.
LEMMA ArchiveFlow ==
  ASSUME Next, dlq' # dlq
  PROVE  \E s \in Server, w \in Worker : ProcessArchive(s, w)
<1>1. ASSUME NEW s \in Server, NEW r \in Request, Handler(s, r) PROVE UNCHANGED dlq
  BY <1>1 DEF Handler, CreateCheck, CreateReject, CreateSave, CreatePush, CreateAbandon,
     DelegatePost, DelegateOk, DelegateFail, DelegateUndo, DispatchRead, DispatchUpdate, DispatchPush
<1>2. ASSUME NEW s \in Server, NEW w \in Worker, ~ProcessArchive(s, w),
             WorkerTake(s, w) \/ WorkerExit(s, w) \/ Process(s, w)
      PROVE  UNCHANGED dlq
  BY <1>2 DEF WorkerTake, WorkerExit, Process, ProcessPanic, ProcessStart, ProcessSend, ProcessSent,
     ProcessRetry, ProcessDead
<1>3. ASSUME NEW s \in Server, RetryScheduler(s) \/ Lifecycle(s) PROVE UNCHANGED dlq
  BY <1>3 DEF RetryScheduler, PollClaim, PollClaimLost, PollNext, PollPush, PollExit,
     Lifecycle, Signal, BeginShutdown, CloseChannel, Restart, Exit, Crash, StopProcess
<1>4. ASSUME NEW x \in Id, Environment(x) PROVE UNCHANGED dlq
  BY <1>4 DEF Environment, BackoffElapses, TaskStored, TaskRefused
<1> QED BY <1>1, <1>2, <1>3, <1>4 DEF Next

\* Only the INSERT of CreateNotification adds a row: every Update is of a copy
\* whose row is there.
LEMMA InsertFlow ==
  ASSUME TypeOK, StoredInv, Next, Stored' # Stored
  PROVE  \E s \in Server, r \in Request, id \in Id \ Stored :
           CreateSave(s, r) /\ Stored' = Stored \cup {id}
<1>1. PICK id \in Id : rows[id].status = "NONE" /\ rows'[id].status # "NONE"
  BY StoredGrows DEF Stored
<1>2. ~Held(id) /\ ~AtHandler(Holding, id)
  BY <1>1 DEF StoredInv, Stored
<1>3. ~AtHandler({"undo"}, id) /\ ~AtHandler({"update"}, id)
  BY <1>2 DEF AtHandler, Holding, ReqPc
<1>4. PICK s \in Server, r \in Request : CreateSave(s, r)
  BY <1>1, <1>2, <1>3, RowFlow
<1>5. PICK x \in Id \ Stored : \A y \in Id : y # x => rows'[y] = rows[y]
  BY <1>4, CreateSaveEffect
<1>6. x = id
  BY <1>1, <1>5
<1>7. Stored' = Stored \cup {id}
  BY <1>1, <1>5, <1>6 DEF Stored
<1> QED BY <1>4, <1>5, <1>6, <1>7

\* An attempt that reached the provider is one delivery of the contract.
LEMMA SendDelivers ==
  ASSUME TypeOK, TypeOK', StoredInv, DeliveryBound', Next, delivered' # delivered
  PROVE  \E id \in Id : Contract!Deliver(id)
<1>1. PICK id \in Id : delivered'[id] # delivered[id]
  BY DEF TypeOK, StoreType
<1>2. PICK s \in Server, w \in Worker :
        ProcessSend(s, w) /\ work[s][w].n.id = id /\ delivered'[id] = delivered[id] + 1
  BY <1>1, SendFlow
<1>3. PICK n \in Copy : n.id = id /\ (Deliver(n.id) \/ UNCHANGED delivered)
  BY <1>2, ProcessSendEffect
<1>4. delivered' = [delivered EXCEPT ![id] = @ + 1]
  BY <1>1, <1>3 DEF Deliver
<1>5. PICK limit \in Nat : limit = 2 * Triggers * (MaxRetryCount + 1)
  BY TriggersType, ConstantsAssumption
<1>6. delivered[id] < limit
  <2>1. delivered'[id] <= limit
    BY <1>5 DEF DeliveryBound, Triggers
  <2> QED BY <1>2, <2>1 DEF TypeOK, StoreType
<1>7. id \in Stored
  BY <1>2 DEF StoredInv, Held, ProcessSend
<1>8. UNCHANGED <<rows, dlq>>
  BY <1>2 DEF ProcessSend
<1> QED BY <1>4, <1>5, <1>6, <1>7, <1>8 DEF Contract!Deliver, Stored

\* A step of the service is a step of the contract or invisible to clients.
LEMMA ContractStep ==
  ASSUME TypeOK, TypeOK', StoredInv, DeliveryBound', [Next]_vars
  PROVE  [Contract!Next]_(Contract!contractVars)
<1>1. CASE UNCHANGED vars
  BY <1>1 DEF vars, Contract!contractVars, Stored
<1>2. CASE Next /\ delivered' # delivered
  BY <1>2, SendDelivers DEF Contract!Next
<1>3. CASE Next /\ delivered' = delivered /\ dlq' # dlq
  <2>1. PICK s \in Server, w \in Worker : ProcessArchive(s, w)
    BY <1>3, ArchiveFlow
  <2>2. PICK n \in Copy : n = work[s][w].n
    BY <2>1, HoldsCopy DEF ProcessArchive
  <2>3. n.id \in Id /\ n.id \in Stored
    BY <2>1, <2>2, CopyFields DEF StoredInv, Held, ProcessArchive
  <2>4. Contract!Bury(n.id)
    BY <1>3, <2>1, <2>2, <2>3 DEF ProcessArchive, Contract!Bury, Stored
  <2> QED BY <2>3, <2>4 DEF Contract!Next
<1>4. CASE Next /\ delivered' = delivered /\ dlq' = dlq /\ Stored' # Stored
  <2>1. PICK id \in Id \ Stored : Stored' = Stored \cup {id}
    BY <1>4, InsertFlow
  <2>2. Contract!Accept(id)
    BY <1>4, <2>1 DEF Contract!Accept
  <2> QED BY <2>1, <2>2 DEF Contract!Next
<1>5. CASE delivered' = delivered /\ dlq' = dlq /\ Stored' = Stored
  BY <1>5 DEF Contract!contractVars
<1> QED BY <1>1, <1>2, <1>3, <1>4, <1>5

\* The service implements the safety part of its contract under every fault:
\* clients see rows appear one by one and stay, deliveries of stored rows up to
\* the limit, and archive entries of stored rows.
THEOREM ContractKept == Spec => KeepsContract
<1>1. Init => Contract!Init
  BY DEF Init, Contract!Init, Stored
<1>2. Init => StoredInv
  BY DEF Init, StoredInv, Held, Queued, AtHandler, Holding, IdleWorker, IdlePoller, IdleRequest
<1>3. TypeOK /\ TypeOK' /\ StoredInv /\ DeliveryBound' /\ [Next]_vars
        => [Contract!Next]_(Contract!contractVars)
  BY ContractStep
<1> QED BY <1>1, <1>2, <1>3, StoredStep, TypeCorrect, DeliveriesBounded, PTL
  DEF Spec, KeepsContract, Contract!Safety
=============================================================================
