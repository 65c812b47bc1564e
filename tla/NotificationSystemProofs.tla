---------------------- MODULE NotificationSystemProofs ----------------------
(***************************************************************************)
(* Proofs about NotificationSystem, for every number of replicas, workers, *)
(* handlers and notifications, every queue size and every set of faults.   *)
(***************************************************************************)
EXTENDS NotificationSystem, FiniteSetTheorems, TLAPS

-----------------------------------------------------------------------------
(* The updates the actions are built from                                  *)

\* What a goroutine holds is a copy, except where it holds nothing.
LEMMA NoCopyIsNoCopy == NoCopy \notin Copy
BY ConstantsAssumption DEF NoCopy, Copy

\* The fields of a copy.
LEMMA CopyFields ==
  ASSUME NEW n \in Copy
  PROVE  n.id \in Id /\ n.retry \in Nat /\ n = [id |-> n.id, retry |-> n.retry]
BY DEF Copy

\* A row read from the table yields a copy.
LEMMA CopyOfType ==
  ASSUME StoreType, NEW id \in Id
  PROVE  CopyOf(id) \in Copy
BY DEF StoreType, Row, CopyOf, Copy

\* Update changes the row of its copy and no other.
LEMMA WriteRowEffect ==
  ASSUME StoreType, NEW n \in Copy, NEW status \in Status, NEW due \in BOOLEAN,
         WriteRow(n, status, due)
  PROVE  /\ rows' \in [Id -> Row]
         /\ rows'[n.id].status = status
         /\ rows'[n.id].retry = n.retry
         /\ \A id \in Id : id # n.id => rows'[id] = rows[id]
BY CopyFields DEF StoreType, Row, WriteRow

\* The claim statement changes the status of the claimed rows only.
LEMMA ClaimRowsEffect ==
  ASSUME StoreType, NEW S \in SUBSET Id, ClaimRows(S)
  PROVE  /\ rows' \in [Id -> Row]
         /\ \A id \in S : /\ rows'[id].status = "PROCESSING"
                          /\ rows'[id].retry = rows[id].retry
         /\ \A id \in Id \ S : rows'[id] = rows[id]
<1>1. \A id \in S : /\ [rows[id] EXCEPT !.status = "PROCESSING"] \in Row
                    /\ [rows[id] EXCEPT !.status = "PROCESSING"].retry = rows[id].retry
                    /\ [rows[id] EXCEPT !.status = "PROCESSING"].status = "PROCESSING"
  BY DEF StoreType, Row, Status
<1> QED BY <1>1 DEF ClaimRows, StoreType

\* A send on a channel with room appends and keeps it within its capacity.
LEMMA EnqueueEffect ==
  ASSUME ChanType, NEW s \in Server, NEW n \in Copy, Enqueue(s, n)
  PROVE  /\ ChanType'
         /\ chan'[s] = Append(chan[s], n)
         /\ \A t \in Server : t # s => chan'[t] = chan[t]
<1>1. chan[s] \in Seq(Copy) /\ Len(chan[s]) < QueueSize
  BY DEF ChanType, Enqueue, HasRoom
<1>2. Append(chan[s], n) \in Seq(Copy) /\ Len(Append(chan[s], n)) <= QueueSize
  BY <1>1, ConstantsAssumption
<1> QED BY <1>1, <1>2 DEF ChanType, Enqueue

\* One handler moves on, the others stay.
LEMMA SetReqEffect ==
  ASSUME ReqType, NEW s \in Server, NEW r \in Request, NEW pc \in ReqPc,
         NEW mode \in {"now", "later"}, NEW n \in Copy \cup {NoCopy},
         n = NoCopy <=> pc \in {"idle", "checked"},
         SetReq(s, r, pc, mode, n)
  PROVE  /\ ReqType'
         /\ req'[s][r].pc = pc /\ req'[s][r].mode = mode /\ req'[s][r].n = n
         /\ \A t \in Server, q \in Request : <<t, q>> # <<s, r>> => req'[t][q] = req[t][q]
<1> DEFINE R == [pc : ReqPc, mode : {"now", "later"}, n : Copy \cup {NoCopy}]
           x == [pc |-> pc, mode |-> mode, n |-> n]
<1>1. x \in R /\ (x.n = NoCopy <=> x.pc \in {"idle", "checked"})
  OBVIOUS
<1>2. req \in [Server -> [Request -> R]]
  BY DEF ReqType
<1> HIDE DEF x, R
<1>3. req' = [req EXCEPT ![s][r] = x]
  BY DEF SetReq, x
<1>4. req'[s][r] = x /\ \A t \in Server, q \in Request : <<t, q>> # <<s, r>> => req'[t][q] = req[t][q]
  BY <1>2, <1>3
<1>5. req' \in [Server -> [Request -> R]]
  BY <1>1, <1>2, <1>3
<1>6. \A t \in Server, q \in Request :
        req'[t][q].n = NoCopy <=> req'[t][q].pc \in {"idle", "checked"}
  BY <1>1, <1>4 DEF ReqType
<1>7. x.pc = pc /\ x.mode = mode /\ x.n = n
  BY DEF x
<1> QED BY <1>4, <1>5, <1>6, <1>7 DEF ReqType, R

\* A handler that answered is idle.
LEMMA EndReqEffect ==
  ASSUME ReqType, NEW s \in Server, NEW r \in Request, EndReq(s, r)
  PROVE  /\ ReqType'
         /\ req'[s][r].pc = "idle"
         /\ \A t \in Server, q \in Request : <<t, q>> # <<s, r>> => req'[t][q] = req[t][q]
<1>1. SetReq(s, r, "idle", "now", NoCopy)
  BY DEF EndReq, SetReq, IdleRequest
<1> QED BY <1>1, SetReqEffect DEF ReqPc, IdleRequest

\* One worker moves on, the others stay.
LEMMA SetWorkEffect ==
  ASSUME WorkType, NEW s \in Server, NEW w \in Worker, NEW pc \in WorkerPc,
         NEW n \in Copy \cup {NoCopy},
         n = NoCopy <=> pc \in {"select", "exited"},
         SetWork(s, w, pc, n)
  PROVE  /\ WorkType'
         /\ work'[s][w].pc = pc /\ work'[s][w].n = n
         /\ \A t \in Server, v \in Worker : <<t, v>> # <<s, w>> => work'[t][v] = work[t][v]
<1> DEFINE R == [pc : WorkerPc, n : Copy \cup {NoCopy}]
           x == [pc |-> pc, n |-> n]
<1>1. x \in R /\ (x.n = NoCopy <=> x.pc \in {"select", "exited"})
  OBVIOUS
<1>2. work \in [Server -> [Worker -> R]]
  BY DEF WorkType
<1> HIDE DEF x, R
<1>3. work' = [work EXCEPT ![s][w] = x]
  BY DEF SetWork, x
<1>4. work'[s][w] = x /\ \A t \in Server, v \in Worker : <<t, v>> # <<s, w>> => work'[t][v] = work[t][v]
  BY <1>2, <1>3
<1>5. work' \in [Server -> [Worker -> R]]
  BY <1>1, <1>2, <1>3
<1>6. \A t \in Server, v \in Worker :
        work'[t][v].n = NoCopy <=> work'[t][v].pc \in {"select", "exited"}
  BY <1>1, <1>4 DEF WorkType
<1>7. x.pc = pc /\ x.n = n
  BY DEF x
<1> QED BY <1>4, <1>5, <1>6, <1>7 DEF WorkType, R

\* One poller moves on, the others stay.
LEMMA SetPollEffect ==
  ASSUME PollType, NEW s \in Server, NEW pc \in PollPc, NEW jobs \in SUBSET Copy,
         NEW job \in Copy \cup {NoCopy},
         pc = "push" => job \in jobs,
         pc \in {"wait", "exited"} => jobs = {},
         SetPoll(s, pc, jobs, job)
  PROVE  /\ PollType'
         /\ poll'[s].pc = pc /\ poll'[s].jobs = jobs /\ poll'[s].job = job
         /\ \A t \in Server : t # s => poll'[t] = poll[t]
BY DEF PollType, SetPoll

-----------------------------------------------------------------------------
(* Type correctness                                                        *)

\* A worker that is processing, and a handler that saved or read a row, hold
\* a copy.
LEMMA HoldsCopy ==
  ASSUME TypeOK, NEW s \in Server
  PROVE  /\ \A w \in Worker : work[s][w].pc \notin {"select", "exited"} => work[s][w].n \in Copy
         /\ \A r \in Request : req[s][r].pc \notin {"idle", "checked"} => req[s][r].n \in Copy
         /\ poll[s].jobs \in SUBSET Copy
<1>1. \A w \in Worker : work[s][w].pc \notin {"select", "exited"} => work[s][w].n \in Copy
  BY DEF TypeOK, WorkType
<1>2. \A r \in Request : req[s][r].pc \notin {"idle", "checked"} => req[s][r].n \in Copy
  BY DEF TypeOK, ReqType
<1>3. poll[s].jobs \in SUBSET Copy
  BY DEF TypeOK, PollType
<1> QED BY <1>1, <1>2, <1>3

\* An Update that may fail, and the handling of its error, keep the types.
LEMMA UpdateType ==
  ASSUME StoreType, NEW n \in Copy, NEW status \in Status, NEW due \in BOOLEAN,
         UNCHANGED <<dlq, tasks, posts, delivered>>,
         \/ WriteRow(n, status, due) /\ UNCHANGED dropped
         \/ UpdateFails(n)
  PROVE  StoreType'
<1>1. CASE WriteRow(n, status, due) /\ UNCHANGED dropped
  BY <1>1, WriteRowEffect DEF StoreType
<1>2. CASE UpdateFails(n)
  BY <1>2, CopyFields DEF StoreType, UpdateFails
<1> QED BY <1>1, <1>2

\* The HTTP handlers keep the types.
LEMMA HandlerType ==
  ASSUME TypeOK, NEW s \in Server, NEW r \in Request, Handler(s, r)
  PROVE  TypeOK'
<1> USE NoCopyIsNoCopy
<1>0. StoreType /\ ChanType /\ WorkType /\ PollType /\ ReqType /\ phase \in [Server -> Phase]
  BY DEF TypeOK
<1>00. req[s][r].mode \in {"now", "later"} /\ req[s][r].pc \in ReqPc
  BY <1>0 DEF ReqType
<1>1. CASE CreateCheck(s, r)
  <2>1. PICK mode \in Modes : SetReq(s, r, "checked", mode, NoCopy)
    BY <1>1 DEF CreateCheck
  <2>2. mode \in {"now", "later"}
    BY ConstantsAssumption
  <2>3. ReqType'
    BY <1>0, <2>1, <2>2, SetReqEffect DEF ReqPc
  <2> QED BY <1>0, <1>1, <2>3 DEF CreateCheck, TypeOK, StoreType, ChanType, WorkType, PollType
<1>2. CASE CreateReject(s, r)
  <2>1. ReqType'
    BY <1>0, <1>2, EndReqEffect DEF CreateReject
  <2> QED BY <1>0, <1>2, <2>1 DEF CreateReject, TypeOK, StoreType, ChanType, WorkType, PollType
<1>3. CASE CreateSave(s, r)
  <2>1. PICK id \in Id \ Stored :
          LET n == [id |-> id, retry |-> 0]
              later == req[s][r].mode = "later"
          IN  /\ WriteRow(n, IF later THEN "SCHEDULED" ELSE "PENDING", ~later)
              /\ SetReq(s, r, IF later THEN "delegate" ELSE "push",
                        req[s][r].mode, n)
    BY <1>3 DEF CreateSave
  <2> DEFINE n == [id |-> id, retry |-> 0]
  <2>2. n \in Copy
    BY DEF Copy
  <2> HIDE DEF n
  <2>3. CASE req[s][r].mode = "later"
    <3>1. WriteRow(n, "SCHEDULED", FALSE) /\ SetReq(s, r, "delegate", req[s][r].mode, n)
      BY <2>1, <2>3 DEF n
    <3>2. ReqType'
      BY <1>0, <1>00, <2>2, <3>1, SetReqEffect DEF ReqPc
    <3>3. rows' \in [Id -> Row]
      BY <1>0, <2>2, <3>1, WriteRowEffect DEF Status
    <3> QED BY <1>0, <1>3, <3>2, <3>3
            DEF CreateSave, TypeOK, StoreType, ChanType, WorkType, PollType
  <2>4. CASE req[s][r].mode # "later"
    <3>1. WriteRow(n, "PENDING", TRUE) /\ SetReq(s, r, "push", req[s][r].mode, n)
      BY <2>1, <2>4 DEF n
    <3>2. ReqType'
      BY <1>0, <1>00, <2>2, <3>1, SetReqEffect DEF ReqPc
    <3>3. rows' \in [Id -> Row]
      BY <1>0, <2>2, <3>1, WriteRowEffect DEF Status
    <3> QED BY <1>0, <1>3, <3>2, <3>3
            DEF CreateSave, TypeOK, StoreType, ChanType, WorkType, PollType
  <2> QED BY <2>3, <2>4
<1>4. CASE CreatePush(s, r)
  <2>1. ChanType' /\ ReqType'
    BY <1>0, <1>4, HoldsCopy, EnqueueEffect, EndReqEffect DEF CreatePush
  <2> QED BY <1>0, <1>4, <2>1 DEF CreatePush, TypeOK, StoreType, WorkType, PollType
<1>5. CASE CreateAbandon(s, r)
  <2>1. ReqType'
    BY <1>0, <1>5, EndReqEffect DEF CreateAbandon
  <2> QED BY <1>0, <1>5, <2>1 DEF CreateAbandon, TypeOK, StoreType, ChanType, WorkType, PollType
<1>6. CASE DelegateOk(s, r)
  <2>1. ReqType'
    BY <1>0, <1>6, EndReqEffect DEF DelegateOk
  <2> QED BY <1>0, <1>6, <2>1 DEF DelegateOk, TypeOK, StoreType, ChanType, WorkType, PollType
<1>7. CASE DelegatePost(s, r) \/ DelegateFail(s, r)
  <2>1. req[s][r].n \in Copy /\ req[s][r].n.id \in Id
    BY <1>7, HoldsCopy, CopyFields DEF DelegatePost, DelegateFail
  <2>2. ReqType'
    BY <1>0, <1>00, <1>7, <2>1, SetReqEffect DEF DelegatePost, DelegateFail, ReqPc
  <2>3. posts' \subseteq Id
    BY <1>0, <1>7, <2>1 DEF DelegatePost, DelegateFail, StoreType
  <2> QED BY <1>0, <1>7, <2>2, <2>3 DEF DelegatePost, DelegateFail, TypeOK, StoreType, ChanType,
             WorkType, PollType
<1>8. CASE DelegateUndo(s, r)
  <2>1. ReqType'
    BY <1>0, <1>8, EndReqEffect DEF DelegateUndo
  <2>2. StoreType'
    BY <1>0, <1>8, HoldsCopy, UpdateType DEF DelegateUndo, Status
  <2> QED BY <1>0, <1>8, <2>1, <2>2 DEF DelegateUndo, TypeOK, ChanType, WorkType, PollType
<1>9. CASE \E id \in Id : DispatchRead(s, r, id)
  <2>1. PICK id \in Id : DispatchRead(s, r, id)
    BY <1>9
  <2>2. ReqType'
    BY <1>0, <2>1, CopyOfType, SetReqEffect DEF DispatchRead, ReqPc
  <2> QED BY <1>0, <2>1, <2>2 DEF DispatchRead, TypeOK, StoreType, ChanType, WorkType, PollType
<1>10. CASE DispatchUpdate(s, r)
  <2>1. req[s][r].n \in Copy
    BY <1>10, HoldsCopy DEF DispatchUpdate
  <2>2. rows' \in [Id -> Row]
    BY <1>0, <1>10, <2>1, WriteRowEffect DEF DispatchUpdate, StoreType, Status
  <2>3. ReqType'
    BY <1>0, <1>10, <2>1, SetReqEffect, EndReqEffect DEF DispatchUpdate, ReqPc
  <2> QED BY <1>0, <1>10, <2>2, <2>3 DEF DispatchUpdate, TypeOK, StoreType, ChanType, WorkType, PollType
<1>11. CASE DispatchPush(s, r)
  <2>1. ChanType'
    BY <1>0, <1>11, HoldsCopy, EnqueueEffect DEF DispatchPush, ChanType
  <2>2. ReqType'
    BY <1>0, <1>11, EndReqEffect DEF DispatchPush
  <2> QED BY <1>0, <1>11, <2>1, <2>2 DEF DispatchPush, TypeOK, StoreType, WorkType, PollType
<1> QED BY <1>1, <1>2, <1>3, <1>4, <1>5, <1>6, <1>7, <1>8, <1>9, <1>10, <1>11
        DEF Handler

\* Where Process goes after a failure, a copy with one more retry goes along.
LEMMA AfterFailureType ==
  ASSUME NEW n \in Copy
  PROVE  /\ AfterFailure(n) = [pc |-> AfterFailure(n).pc, n |-> AfterFailure(n).n]
         /\ AfterFailure(n).pc \in {"dead", "retry"}
         /\ AfterFailure(n).n \in Copy
         /\ AfterFailure(n).n.id = n.id
         /\ AfterFailure(n).n.retry = n.retry + 1
         /\ AfterFailure(n).pc = "dead" <=> n.retry + 1 > MaxRetryCount
<1>1. [n EXCEPT !.retry = @ + 1] = [id |-> n.id, retry |-> n.retry + 1]
  BY DEF Copy
<1>2. n.id \in Id /\ n.retry \in Nat
  BY CopyFields
<1>3. [id |-> n.id, retry |-> n.retry + 1] \in Copy
  BY <1>2 DEF Copy
<1> QED BY <1>1, <1>2, <1>3 DEF AfterFailure, Exhausted

\* The step of ProcessSend, whatever the provider did.
LEMMA ProcessSendEffect ==
  ASSUME TypeOK, NEW s \in Server, NEW w \in Worker, ProcessSend(s, w)
  PROVE  \E pc \in {"sent", "retry", "dead"}, n \in Copy :
           /\ SetWork(s, w, pc, n)
           /\ n.id = work[s][w].n.id
           /\ pc = "sent" => n = work[s][w].n /\ Deliver(n.id)
           /\ pc # "sent" => n.retry = work[s][w].n.retry + 1
           /\ pc # "sent" => (pc = "dead" <=> n.retry > MaxRetryCount)
           /\ Deliver(n.id) \/ UNCHANGED delivered
<1> DEFINE m == work[s][w].n
<1>1. m \in Copy
  BY HoldsCopy DEF ProcessSend
<1>2. CASE Deliver(m.id) /\ SetWork(s, w, "sent", m)
  BY <1>1, <1>2
<1>3. CASE /\ work' = [work EXCEPT ![s][w] = AfterFailure(m)]
           /\ Deliver(m.id) \/ UNCHANGED delivered
  <2> DEFINE pc == AfterFailure(m).pc
             n == AfterFailure(m).n
  <2>1. AfterFailure(m) = [pc |-> pc, n |-> n] /\ pc \in {"dead", "retry"} /\ n \in Copy
        /\ n.id = m.id /\ n.retry = m.retry + 1 /\ (pc = "dead" <=> n.retry > MaxRetryCount)
    BY <1>1, AfterFailureType
  <2>2. SetWork(s, w, pc, n)
    BY <1>3, <2>1 DEF SetWork
  <2> HIDE DEF pc, n
  <2> QED BY <1>3, <2>1, <2>2
<1> QED BY <1>2, <1>3 DEF ProcessSend

\* The workers keep the types.
LEMMA WorkerTypes ==
  ASSUME TypeOK, NEW s \in Server, NEW w \in Worker,
         WorkerTake(s, w) \/ WorkerExit(s, w) \/ Process(s, w)
  PROVE  TypeOK'
<1> USE NoCopyIsNoCopy
<1>0. StoreType /\ ChanType /\ WorkType /\ PollType /\ ReqType /\ phase \in [Server -> Phase]
  BY DEF TypeOK
<1>1. CASE WorkerTake(s, w)
  <2>1. chan[s] \in Seq(Copy) /\ chan[s] # <<>> /\ Len(chan[s]) <= QueueSize
    BY <1>0, <1>1 DEF WorkerTake, ChanType
  <2>2. Head(chan[s]) \in Copy /\ Tail(chan[s]) \in Seq(Copy) /\ Len(Tail(chan[s])) <= QueueSize
    BY <2>1, ConstantsAssumption
  <2>3. ChanType'
    BY <1>0, <1>1, <2>2 DEF WorkerTake, ChanType
  <2>4. WorkType'
    BY <1>0, <1>1, <2>2, SetWorkEffect DEF WorkerTake, WorkerPc
  <2> QED BY <1>0, <1>1, <2>3, <2>4 DEF WorkerTake, TypeOK, StoreType, PollType, ReqType
<1>2. CASE WorkerExit(s, w)
  <2>1. WorkType'
    BY <1>0, <1>2, SetWorkEffect DEF WorkerExit, WorkerPc
  <2> QED BY <1>0, <1>2, <2>1 DEF WorkerExit, TypeOK, StoreType, ChanType, PollType, ReqType
<1>3. CASE ProcessStart(s, w)
  <2>1. StoreType'
    BY <1>0, <1>3, HoldsCopy, UpdateType DEF ProcessStart, Status
  <2>2. WorkType'
    BY <1>0, <1>3, HoldsCopy, SetWorkEffect DEF ProcessStart, WorkerPc
  <2> QED BY <1>0, <1>3, <2>1, <2>2 DEF ProcessStart, TypeOK, ChanType, PollType, ReqType
<1>4. CASE ProcessSend(s, w)
  <2>1. PICK pc \in {"sent", "retry", "dead"}, n \in Copy :
          SetWork(s, w, pc, n) /\ (Deliver(n.id) \/ UNCHANGED delivered)
    BY <1>4, ProcessSendEffect
  <2>2. WorkType'
    BY <1>0, <2>1, SetWorkEffect DEF WorkerPc
  <2>3. delivered' \in [Id -> Nat]
    BY <1>0, <2>1, CopyFields DEF StoreType, Deliver
  <2> QED BY <1>0, <1>4, <2>2, <2>3
          DEF ProcessSend, TypeOK, StoreType, ChanType, PollType, ReqType
<1>5. CASE ProcessSent(s, w)
  <2>1. StoreType'
    BY <1>0, <1>5, HoldsCopy, UpdateType DEF ProcessSent, Status
  <2>2. WorkType'
    BY <1>0, <1>5, SetWorkEffect DEF ProcessSent, WorkerPc
  <2> QED BY <1>0, <1>5, <2>1, <2>2 DEF ProcessSent, TypeOK, ChanType, PollType, ReqType
<1>6. CASE ProcessRetry(s, w)
  <2>1. StoreType'
    BY <1>0, <1>6, HoldsCopy, UpdateType DEF ProcessRetry, Status
  <2>2. WorkType'
    BY <1>0, <1>6, SetWorkEffect DEF ProcessRetry, WorkerPc
  <2> QED BY <1>0, <1>6, <2>1, <2>2 DEF ProcessRetry, TypeOK, ChanType, PollType, ReqType
<1>7. CASE ProcessDead(s, w)
  <2>1. StoreType'
    BY <1>0, <1>7, HoldsCopy, UpdateType DEF ProcessDead, Status
  <2>2. WorkType'
    BY <1>0, <1>7, HoldsCopy, SetWorkEffect DEF ProcessDead, WorkerPc
  <2> QED BY <1>0, <1>7, <2>1, <2>2 DEF ProcessDead, TypeOK, ChanType, PollType, ReqType
<1>8. CASE ProcessArchive(s, w)
  <2>1. work[s][w].n.id \in Id
    BY <1>8, HoldsCopy, CopyFields DEF ProcessArchive
  <2>2. StoreType'
    BY <1>0, <1>8, <2>1 DEF ProcessArchive, StoreType
  <2>3. WorkType'
    BY <1>0, <1>8, SetWorkEffect DEF ProcessArchive, WorkerPc
  <2> QED BY <1>0, <1>8, <2>2, <2>3 DEF ProcessArchive, TypeOK, ChanType, PollType, ReqType
<1>9. CASE ProcessPanic(s, w)
  <2>1. work[s][w].n.id \in Id
    BY <1>9, HoldsCopy, CopyFields DEF ProcessPanic
  <2>2. WorkType'
    BY <1>0, <1>9, SetWorkEffect DEF ProcessPanic, WorkerPc
  <2> QED BY <1>0, <1>9, <2>1, <2>2
          DEF ProcessPanic, TypeOK, StoreType, ChanType, PollType, ReqType
<1> QED BY <1>1, <1>2, <1>3, <1>4, <1>5, <1>6, <1>7, <1>8, <1>9 DEF Process

\* The RetryScheduler keeps the types.
LEMMA RetrySchedulerType ==
  ASSUME TypeOK, NEW s \in Server, RetryScheduler(s)
  PROVE  TypeOK'
<1> USE NoCopyIsNoCopy
<1>0. StoreType /\ ChanType /\ WorkType /\ PollType /\ ReqType /\ phase \in [Server -> Phase]
  BY DEF TypeOK
<1>00. poll[s].jobs \in SUBSET Copy
  BY HoldsCopy
<1>1. CASE PollClaim(s)
  <2>1. PICK S \in SUBSET Id :
          /\ ClaimRows(S)
          /\ SetPoll(s, IF S = {} THEN "wait" ELSE "loop", {CopyOf(id) : id \in S}, NoCopy)
    BY <1>1 DEF PollClaim
  <2>2. {CopyOf(id) : id \in S} \in SUBSET Copy
    BY <1>0, CopyOfType
  <2>3. StoreType'
    BY <1>0, <1>1, <2>1, ClaimRowsEffect DEF PollClaim, StoreType
  <2>4. PollType'
    BY <1>0, <2>1, <2>2, SetPollEffect DEF PollPc
  <2> QED BY <1>0, <1>1, <2>3, <2>4 DEF PollClaim, TypeOK, ChanType, WorkType, ReqType
<1>2. CASE PollClaimLost(s)
  <2>1. StoreType'
    BY <1>0, <1>2, ClaimRowsEffect DEF PollClaimLost, StoreType
  <2> QED BY <1>0, <1>2, <2>1 DEF PollClaimLost, TypeOK, ChanType, WorkType, PollType, ReqType
<1>3. CASE PollNext(s)
  <2>1. PICK j \in poll[s].jobs : SetPoll(s, "push", poll[s].jobs, j)
    BY <1>3 DEF PollNext
  <2>2. PollType'
    BY <1>0, <1>00, <2>1, SetPollEffect DEF PollPc
  <2> QED BY <1>0, <1>3, <2>2 DEF PollNext, TypeOK, StoreType, ChanType, WorkType, ReqType
<1>4. CASE PollPush(s)
  <2> DEFINE rest == poll[s].jobs \ {poll[s].job}
  <2>1. poll[s].job \in Copy
    BY <1>0, <1>00, <1>4 DEF PollPush, PollType
  <2>2. ChanType'
    BY <1>0, <1>4, <2>1, EnqueueEffect DEF PollPush
  <2>3. rest \in SUBSET Copy /\ SetPoll(s, IF rest = {} THEN "wait" ELSE "loop", rest, NoCopy)
    BY <1>00, <1>4 DEF PollPush
  <2> HIDE DEF rest
  <2>4. PollType'
    BY <1>0, <2>3, SetPollEffect DEF PollPc
  <2> QED BY <1>0, <1>4, <2>2, <2>4 DEF PollPush, TypeOK, StoreType, WorkType, ReqType
<1>5. CASE PollExit(s)
  <2>1. PollType'
    BY <1>0, <1>5, SetPollEffect DEF PollExit, PollPc
  <2>2. StoreType'
    BY <1>0, <1>00, <1>5, CopyFields DEF PollExit, StoreType
  <2> QED BY <1>0, <1>5, <2>1, <2>2 DEF PollExit, TypeOK, ChanType, WorkType, ReqType
<1> QED BY <1>1, <1>2, <1>3, <1>4, <1>5 DEF RetryScheduler

\* The end of a process keeps the types.
LEMMA StopProcessType ==
  ASSUME TypeOK, NEW s \in Server, StopProcess(s)
  PROVE  TypeOK'
<1>0. StoreType /\ ChanType /\ WorkType /\ PollType /\ ReqType /\ phase \in [Server -> Phase]
  BY DEF TypeOK
<1>1. \A i \in 1 .. Len(chan[s]) : chan[s][i].id \in Id
  BY <1>0, CopyFields DEF ChanType
<1>2. \A w \in {v \in Worker : work[s][v].n # NoCopy} : work[s][w].n.id \in Id
  BY <1>0, CopyFields DEF WorkType
<1>3. \A j \in poll[s].jobs : j.id \in Id
  BY HoldsCopy, CopyFields
<1>4. StoreType'
  BY <1>0, <1>1, <1>2, <1>3 DEF StopProcess, StoreType
<1>5. ChanType'
  BY <1>0, ConstantsAssumption DEF StopProcess, ChanType
<1>6. WorkType'
  BY <1>0 DEF StopProcess, WorkType, IdleWorker, WorkerPc
<1>7. PollType'
  BY <1>0 DEF StopProcess, PollType, IdlePoller, PollPc
<1>8. ReqType'
  BY <1>0 DEF StopProcess, ReqType, IdleRequest, ReqPc
<1>9. phase' \in [Server -> Phase]
  BY <1>0 DEF StopProcess, Phase
<1> QED BY <1>4, <1>5, <1>6, <1>7, <1>8, <1>9 DEF TypeOK

\* Signals, shutdown, crash and restart keep the types.
LEMMA LifecycleType ==
  ASSUME TypeOK, NEW s \in Server, Lifecycle(s)
  PROVE  TypeOK'
<1>1. CASE Exit(s) \/ Crash(s)
  BY <1>1, StopProcessType DEF Exit, Crash
<1>2. CASE Signal(s) \/ BeginShutdown(s) \/ CloseChannel(s) \/ Restart(s)
  <2>1. /\ phase' \in [Server -> Phase]
        /\ UNCHANGED <<rows, dlq, tasks, posts, chan, work, poll, req, delivered, dropped>>
    BY <1>2 DEF Signal, BeginShutdown, CloseChannel, Restart, TypeOK, Phase
  <2> QED BY <2>1 DEF TypeOK, StoreType, ChanType, WorkType, PollType, ReqType
<1> QED BY <1>1, <1>2 DEF Lifecycle

\* The passing of time keeps the types.
LEMMA BackoffType ==
  ASSUME TypeOK, NEW id \in Id, Environment(id)
  PROVE  TypeOK'
<1>1. rows' \in [Id -> Row]
  BY DEF Environment, BackoffElapses, TaskStored, TaskRefused, TypeOK, StoreType, Row
<1> QED BY <1>1 DEF Environment, BackoffElapses, TaskStored, TaskRefused, TypeOK, StoreType, ChanType, WorkType, PollType, ReqType

\* The initial state is well-typed.
LEMMA InitType == Init => TypeOK
<1> SUFFICES ASSUME Init PROVE TypeOK
  OBVIOUS
<1>1. StoreType
  BY DEF Init, StoreType, Row
<1>2. ChanType
  BY ConstantsAssumption DEF Init, ChanType
<1>3. WorkType
  BY DEF Init, WorkType, IdleWorker, WorkerPc
<1>4. PollType
  BY DEF Init, PollType, IdlePoller, PollPc
<1>5. ReqType
  BY DEF Init, ReqType, IdleRequest, ReqPc
<1> QED BY <1>1, <1>2, <1>3, <1>4, <1>5 DEF TypeOK, Init, Phase

\* One step of the system keeps the types.
LEMMA NextType == TypeOK /\ [Next]_vars => TypeOK'
<1> SUFFICES ASSUME TypeOK, [Next]_vars PROVE TypeOK'
  OBVIOUS
<1>1. CASE UNCHANGED vars
  BY <1>1 DEF vars, TypeOK, StoreType, ChanType, WorkType, PollType, ReqType
<1>2. CASE Next
  BY <1>2, HandlerType, WorkerTypes, RetrySchedulerType, LifecycleType, BackoffType DEF Next
<1> QED BY <1>1, <1>2

\* Type correctness of the service: in particular no channel ever holds more
\* than QueueSize copies, and Process never runs without a notification.
THEOREM TypeCorrect == Spec => []TypeOK
BY InitType, NextType, PTL DEF Spec

-----------------------------------------------------------------------------
(* A PROCESSING row is carried                                             *)

\* Who carries a notification before an Enqueue carries it afterwards, and the
\* channel carries the new one.
LEMMA EnqueueCarries ==
  ASSUME ChanType, NEW s \in Server, NEW n \in Copy, Enqueue(s, n)
  PROVE  /\ InChan(s, n.id)'
         /\ \A t \in Server, id \in Id : InChan(t, id) => InChan(t, id)'
<1>1. /\ chan'[s] = Append(chan[s], n)
      /\ \A t \in Server : t # s => chan'[t] = chan[t]
  BY EnqueueEffect
<1>2. chan[s] \in Seq(Copy)
  BY DEF ChanType
<1>3. /\ Len(chan'[s]) = Len(chan[s]) + 1
      /\ chan'[s][Len(chan[s]) + 1] = n
      /\ \A i \in 1 .. Len(chan[s]) : chan'[s][i] = chan[s][i]
      /\ Len(chan[s]) \in Nat
  BY <1>1, <1>2
<1>4. InChan(s, n.id)'
  BY <1>3 DEF InChan
<1>5. \A id \in Id : InChan(s, id) => InChan(s, id)'
  BY <1>3 DEF InChan
<1>6. \A t \in Server \ {s}, id \in Id : InChan(t, id) => InChan(t, id)'
  BY <1>1 DEF InChan
<1> QED BY <1>4, <1>5, <1>6

\* A receive takes the head and leaves the rest.
LEMMA TakeCarries ==
  ASSUME ChanType, NEW s \in Server, chan[s] # <<>>,
         chan' = [chan EXCEPT ![s] = Tail(@)]
  PROVE  \A t \in Server, id \in Id :
           InChan(t, id) => InChan(t, id)' \/ (t = s /\ id = Head(chan[s]).id)
<1>1. chan[s] \in Seq(Copy) /\ chan \in [Server -> Seq(Copy)]
  BY DEF ChanType
<1>2. /\ chan'[s] = Tail(chan[s])
      /\ \A t \in Server : t # s => chan'[t] = chan[t]
  BY <1>1
<1>3. ASSUME NEW id \in Id, NEW i \in 1 .. Len(chan[s]), chan[s][i].id = id, i # 1
      PROVE  InChan(s, id)'
  <2>1. i - 1 \in 1 .. Len(Tail(chan[s])) /\ Tail(chan[s])[i - 1] = chan[s][i]
    BY <1>1, <1>3
  <2> QED BY <1>2, <1>3, <2>1 DEF InChan
<1>4. Head(chan[s]) = chan[s][1]
  BY <1>1
<1>5. \A id \in Id : InChan(s, id) => InChan(s, id)' \/ id = Head(chan[s]).id
  <2> SUFFICES ASSUME NEW id \in Id, InChan(s, id)
               PROVE  InChan(s, id)' \/ id = Head(chan[s]).id
    OBVIOUS
  <2>1. PICK i \in 1 .. Len(chan[s]) : chan[s][i].id = id
    BY DEF InChan
  <2> QED BY <1>3, <1>4, <2>1
<1>6. \A t \in Server \ {s}, id \in Id : InChan(t, id) => InChan(t, id)'
  BY <1>2 DEF InChan
<1> QED BY <1>5, <1>6

\* The HTTP handlers neither claim rows nor take copies away.
LEMMA HandlerCarries ==
  ASSUME TypeOK, ProcessingIsCarried, NEW s \in Server, NEW r \in Request, Handler(s, r)
  PROVE  ProcessingIsCarried'
<1>0. StoreType /\ ChanType
  BY DEF TypeOK
<1>1. work' = work /\ poll' = poll /\ dropped \subseteq dropped'
  BY DEF Handler, CreateCheck, CreateReject, CreateSave, CreatePush, CreateAbandon,
     DelegatePost, DelegateOk, DelegateFail, DelegateUndo, DispatchRead, DispatchUpdate, DispatchPush, UpdateFails
<1>2. \A t \in Server, id \in Id : InChan(t, id) => InChan(t, id)'
  <2>1. CASE UNCHANGED chan
    BY <2>1 DEF InChan
  <2>2. CASE CreatePush(s, r) \/ DispatchPush(s, r)
    <3>1. UNCHANGED chan \/ Enqueue(s, req[s][r].n)
      BY <2>2 DEF CreatePush, DispatchPush
    <3>2. req[s][r].n \in Copy
      BY <2>2, HoldsCopy DEF CreatePush, DispatchPush
    <3> QED BY <1>0, <2>1, <3>1, <3>2, EnqueueCarries
  <2> QED BY <2>1, <2>2 DEF Handler, CreateCheck, CreateReject, CreateSave, CreateAbandon,
             DelegatePost, DelegateOk, DelegateFail, DelegateUndo, DispatchRead, DispatchUpdate
<1>3. \A id \in Id : Carried(id) => Carried(id)'
  BY <1>1, <1>2 DEF Carried, InWork, InPoll
<1>4. \A id \in Id : rows'[id].status = "PROCESSING" => rows[id].status = "PROCESSING"
  <2>1. CASE UNCHANGED rows
    BY <2>1
  <2>2. ASSUME NEW n \in Copy, NEW status \in Status \ {"PROCESSING"}, NEW due \in BOOLEAN,
               WriteRow(n, status, due)
        PROVE  \A id \in Id : rows'[id].status = "PROCESSING" => rows[id].status = "PROCESSING"
    <3>1. status \in Status
      OBVIOUS
    <3>2. /\ rows'[n.id].status = status
          /\ \A id \in Id : id # n.id => rows'[id] = rows[id]
      BY <1>0, <2>2, <3>1, WriteRowEffect
    <3> QED BY <3>2
  <2>3. CASE CreateSave(s, r)
    <3>1. PICK id \in Id :
            WriteRow([id |-> id, retry |-> 0],
                     IF req[s][r].mode = "later" THEN "SCHEDULED" ELSE "PENDING",
                     ~(req[s][r].mode = "later"))
      BY <2>3 DEF CreateSave
    <3>2. [id |-> id, retry |-> 0] \in Copy
      BY DEF Copy
    <3> QED BY <2>2, <3>1, <3>2 DEF Status
  <2>4. CASE DelegateUndo(s, r)
    BY <2>1, <2>2, <2>4, HoldsCopy DEF DelegateUndo, UpdateFails, Status
  <2>5. CASE DispatchUpdate(s, r)
    BY <2>1, <2>2, <2>5, HoldsCopy DEF DispatchUpdate, Status
  <2> QED BY <2>1, <2>3, <2>4, <2>5 DEF Handler, CreateCheck, CreateReject, CreatePush,
             CreateAbandon, DelegatePost, DelegateOk, DelegateFail, DispatchRead, DispatchPush
<1> QED BY <1>1, <1>3, <1>4 DEF ProcessingIsCarried

\* Of the workers: a copy moves from the channel to the worker, and leaves it
\* only with a write that takes the row out of PROCESSING or that fails.
LEMMA WorkerCarries ==
  ASSUME TypeOK, ProcessingIsCarried, NEW s \in Server, NEW w \in Worker,
         WorkerTake(s, w) \/ WorkerExit(s, w) \/ Process(s, w)
  PROVE  ProcessingIsCarried'
<1>0. StoreType /\ ChanType /\ WorkType
  BY DEF TypeOK
<1>00. NoCopy \notin Copy
  BY NoCopyIsNoCopy
<1>01. poll' = poll /\ dropped \subseteq dropped'
  BY DEF WorkerTake, WorkerExit, Process, ProcessPanic, ProcessStart, ProcessSend, ProcessSent,
     ProcessRetry, ProcessDead, ProcessArchive, UpdateFails
<1>1. CASE WorkerTake(s, w)
  <2>1. PICK h \in Copy : h = Head(chan[s])
    BY <1>0, <1>1 DEF WorkerTake, ChanType
  <2>2. /\ work'[s][w].pc = "start" /\ work'[s][w].n = h
        /\ \A t \in Server, v \in Worker : <<t, v>> # <<s, w>> => work'[t][v] = work[t][v]
    BY <1>0, <1>00, <1>1, <2>1, SetWorkEffect DEF WorkerTake, WorkerPc
  <2>3. InWork(s, h.id)'
    BY <2>2 DEF InWork, Busy
  <2>4. \A t \in Server, id \in Id : InWork(t, id) => InWork(t, id)'
    BY <1>1, <2>2 DEF WorkerTake, InWork, Busy
  <2>5. \A t \in Server, id \in Id : InChan(t, id) => InChan(t, id)' \/ (t = s /\ id = h.id)
    BY <1>0, <1>1, <2>1, TakeCarries DEF WorkerTake
  <2>6. \A id \in Id : Carried(id) => Carried(id)'
    BY <1>01, <2>3, <2>4, <2>5 DEF Carried, InPoll
  <2> QED BY <1>1, <2>6 DEF WorkerTake, ProcessingIsCarried
<1>2. CASE WorkerExit(s, w)
  <2>1. \A t \in Server, v \in Worker : <<t, v>> # <<s, w>> => work'[t][v] = work[t][v]
    BY <1>0, <1>2, SetWorkEffect DEF WorkerExit, WorkerPc
  <2>2. \A id \in Id : Carried(id) => Carried(id)'
    BY <1>2, <1>01, <2>1 DEF Carried, InWork, InChan, InPoll, WorkerExit, Busy
  <2> QED BY <1>2, <2>2 DEF WorkerExit, ProcessingIsCarried
<1>3. CASE ProcessStart(s, w)
  <2>1. PICK n \in Copy : n = work[s][w].n
    BY <1>3, HoldsCopy DEF ProcessStart
  <2>2. /\ work'[s][w].pc = "send" /\ work'[s][w].n = n
        /\ \A t \in Server, v \in Worker : <<t, v>> # <<s, w>> => work'[t][v] = work[t][v]
    BY <1>0, <1>00, <1>3, <2>1, SetWorkEffect DEF ProcessStart, WorkerPc
  <2>3. Carried(n.id)'
    BY <2>2 DEF Carried, InWork, Busy
  <2>4. \A id \in Id : Carried(id) => Carried(id)'
    BY <1>3, <1>01, <2>1, <2>2 DEF Carried, InWork, InChan, InPoll, ProcessStart, Busy
  <2>5. \A id \in Id : id # n.id => rows'[id] = rows[id]
    BY <1>0, <1>3, <2>1, WriteRowEffect DEF ProcessStart, UpdateFails, Status
  <2> QED BY <1>01, <2>3, <2>4, <2>5 DEF ProcessingIsCarried
<1>4. CASE ProcessSend(s, w)
  <2>1. PICK pc \in {"sent", "retry", "dead"}, n \in Copy :
          SetWork(s, w, pc, n) /\ n.id = work[s][w].n.id
    BY <1>4, ProcessSendEffect
  <2>2. /\ work'[s][w].pc = pc /\ work'[s][w].n = n
        /\ \A t \in Server, v \in Worker : <<t, v>> # <<s, w>> => work'[t][v] = work[t][v]
    BY <1>0, <1>00, <2>1, SetWorkEffect DEF WorkerPc
  <2>3. InWork(s, n.id)'
    BY <2>2 DEF InWork, Busy
  <2>4. \A t \in Server, id \in Id : InWork(t, id) => InWork(t, id)'
    BY <2>1, <2>2, <2>3 DEF InWork
  <2>5. \A id \in Id : Carried(id) => Carried(id)'
    BY <1>4, <1>01, <2>4 DEF Carried, InChan, InPoll, ProcessSend
  <2> QED BY <1>4, <2>5 DEF ProcessSend, ProcessingIsCarried
<1>5. CASE ProcessSent(s, w) \/ ProcessRetry(s, w) \/ ProcessDead(s, w)
  <2>1. PICK n \in Copy : n = work[s][w].n
    BY <1>5, HoldsCopy DEF ProcessSent, ProcessRetry, ProcessDead
  <2>2. SetWork(s, w, "select", NoCopy) \/ SetWork(s, w, "archive", n)
    BY <1>5, <2>1 DEF ProcessSent, ProcessRetry, ProcessDead
  <2>3. \A t \in Server, v \in Worker : <<t, v>> # <<s, w>> => work'[t][v] = work[t][v]
    <3>1. CASE SetWork(s, w, "select", NoCopy)
      BY <1>0, <3>1, SetWorkEffect DEF WorkerPc
    <3>2. CASE SetWork(s, w, "archive", n)
      BY <1>0, <1>00, <3>2, SetWorkEffect DEF WorkerPc
    <3> QED BY <2>2, <3>1, <3>2
  <2>4. \A t \in Server, id \in Id : id # n.id /\ InWork(t, id) => InWork(t, id)'
    BY <2>1, <2>3 DEF InWork
  <2>5. \A id \in Id : id # n.id /\ Carried(id) => Carried(id)'
    BY <1>5, <1>01, <2>4 DEF Carried, InChan, InPoll, ProcessSent, ProcessRetry, ProcessDead
  <2>6. /\ rows'[n.id].status # "PROCESSING" \/ n.id \in dropped'
        /\ \A id \in Id : id # n.id => rows'[id] = rows[id]
    BY <1>0, <1>5, <2>1, WriteRowEffect
       DEF ProcessSent, ProcessRetry, ProcessDead, UpdateFails, Status
  <2> QED BY <1>01, <2>5, <2>6 DEF ProcessingIsCarried
<1>6. CASE ProcessArchive(s, w)
  <2>0. SetWork(s, w, "select", NoCopy)
    BY <1>6 DEF ProcessArchive
  <2>1. \A t \in Server, v \in Worker : <<t, v>> # <<s, w>> => work'[t][v] = work[t][v]
    BY <1>0, <2>0, SetWorkEffect DEF WorkerPc
  <2>2. \A t \in Server, id \in Id : InWork(t, id) => InWork(t, id)'
    BY <1>6, <2>1 DEF InWork, ProcessArchive, Busy
  <2>3. \A id \in Id : Carried(id) => Carried(id)'
    BY <1>6, <1>01, <2>2 DEF Carried, InChan, InPoll, ProcessArchive
  <2> QED BY <1>6, <1>01, <2>3 DEF ProcessArchive, ProcessingIsCarried
<1>7. CASE ProcessPanic(s, w)
  <2>1. PICK n \in Copy : n = work[s][w].n
    BY <1>7, HoldsCopy DEF ProcessPanic
  <2>2. SetWork(s, w, "select", NoCopy) /\ n.id \in dropped'
    BY <1>7, <2>1 DEF ProcessPanic
  <2>3. \A t \in Server, v \in Worker : <<t, v>> # <<s, w>> => work'[t][v] = work[t][v]
    BY <1>0, <2>2, SetWorkEffect DEF WorkerPc
  <2>4. \A t \in Server, id \in Id : id # n.id /\ InWork(t, id) => InWork(t, id)'
    BY <2>1, <2>3 DEF InWork
  <2>5. \A id \in Id : id # n.id /\ Carried(id) => Carried(id)'
    BY <1>7, <1>01, <2>4 DEF Carried, InChan, InPoll, ProcessPanic
  <2> QED BY <1>7, <1>01, <2>2, <2>5 DEF ProcessPanic, ProcessingIsCarried
<1> QED BY <1>1, <1>2, <1>3, <1>4, <1>5, <1>6, <1>7 DEF Process

\* Of the RetryScheduler: what it claims it holds, what it holds it passes to
\* the channel or, when it gives up, leaves behind as dropped.
LEMMA RetrySchedulerCarries ==
  ASSUME TypeOK, ProcessingIsCarried, NEW s \in Server, RetryScheduler(s)
  PROVE  ProcessingIsCarried'
<1>0. StoreType /\ ChanType /\ PollType
  BY DEF TypeOK
<1>00. poll[s].jobs \in SUBSET Copy
  BY HoldsCopy
<1>1. CASE PollClaim(s)
  <2>1. PICK S \in SUBSET Id :
          /\ ClaimRows(S)
          /\ SetPoll(s, IF S = {} THEN "wait" ELSE "loop", {CopyOf(id) : id \in S}, NoCopy)
          /\ dropped' = dropped \ S
    BY <1>1 DEF PollClaim
  <2>2. {CopyOf(id) : id \in S} \in SUBSET Copy
    BY <1>0, CopyOfType
  <2>3. /\ poll'[s].jobs = {CopyOf(id) : id \in S}
        /\ \A t \in Server : t # s => poll'[t] = poll[t]
    <3>1. PICK pc \in PollPc : pc = IF S = {} THEN "wait" ELSE "loop"
      BY DEF PollPc
    <3>2. PICK jobs \in SUBSET Copy : jobs = {CopyOf(id) : id \in S}
      BY <2>2
    <3>3. pc # "push" /\ (pc \in {"wait", "exited"} => jobs = {})
      BY <3>1, <3>2
    <3>4. SetPoll(s, pc, jobs, NoCopy)
      BY <2>1, <3>1, <3>2
    <3>5. poll'[s].jobs = jobs /\ \A t \in Server : t # s => poll'[t] = poll[t]
      BY <1>0, <3>3, <3>4, SetPollEffect
    <3> QED BY <3>2, <3>5
  <2>4. \A id \in S : CopyOf(id) \in poll'[s].jobs /\ CopyOf(id).id = id
    BY <2>3 DEF CopyOf
  <2>5. \A id \in S : Carried(id)'
    BY <2>4 DEF Carried, InPoll
  <2>6. \A id \in Id : ~InPoll(s, id)
    BY <1>0, <1>1 DEF PollClaim, PollType, InPoll
  <2>7. \A id \in Id : Carried(id) => Carried(id)'
    BY <1>1, <2>3, <2>6 DEF Carried, InWork, InChan, InPoll, PollClaim
  <2>8. \A id \in Id \ S : rows'[id] = rows[id]
    BY <1>0, <2>1, ClaimRowsEffect
  <2> QED BY <2>1, <2>5, <2>7, <2>8 DEF ProcessingIsCarried
<1>2. CASE PollClaimLost(s)
  <2>1. PICK S \in SUBSET Id : ClaimRows(S) /\ dropped' = dropped \cup S
    BY <1>2 DEF PollClaimLost
  <2>2. \A id \in Id \ S : rows'[id] = rows[id]
    BY <1>0, <2>1, ClaimRowsEffect
  <2>3. \A id \in Id : Carried(id) => Carried(id)'
    BY <1>2 DEF Carried, InWork, InChan, InPoll, PollClaimLost
  <2> QED BY <2>1, <2>2, <2>3 DEF ProcessingIsCarried
<1>3. CASE PollNext(s)
  <2>1. PICK j \in poll[s].jobs : SetPoll(s, "push", poll[s].jobs, j)
    BY <1>3 DEF PollNext
  <2>2. /\ poll'[s].jobs = poll[s].jobs
        /\ \A t \in Server : t # s => poll'[t] = poll[t]
    BY <1>0, <1>00, <2>1, SetPollEffect DEF PollPc
  <2>3. \A id \in Id : Carried(id) => Carried(id)'
    BY <1>3, <2>2 DEF Carried, InWork, InChan, InPoll, PollNext
  <2> QED BY <1>3, <2>3 DEF PollNext, ProcessingIsCarried
<1>4. CASE PollPush(s)
  <2> DEFINE rest == poll[s].jobs \ {poll[s].job}
  <2>1. PICK j \in Copy : j = poll[s].job
    BY <1>0, <1>00, <1>4 DEF PollPush, PollType
  <2>2. /\ InChan(s, j.id)'
        /\ \A t \in Server, id \in Id : InChan(t, id) => InChan(t, id)'
    BY <1>0, <1>4, <2>1, EnqueueCarries DEF PollPush
  <2>3. rest \in SUBSET Copy /\ SetPoll(s, IF rest = {} THEN "wait" ELSE "loop", rest, NoCopy)
    BY <1>00, <1>4 DEF PollPush
  <2> HIDE DEF rest
  <2>4. /\ poll'[s].jobs = rest
        /\ \A t \in Server : t # s => poll'[t] = poll[t]
    BY <1>0, <2>3, SetPollEffect DEF PollPc
  <2>5. \A t \in Server, id \in Id : InPoll(t, id) => InPoll(t, id)' \/ InChan(t, id)'
    BY <2>1, <2>2, <2>4 DEF InPoll, rest
  <2>6. \A id \in Id : Carried(id) => Carried(id)'
    BY <1>4, <2>2, <2>5 DEF Carried, InWork, PollPush
  <2> QED BY <1>4, <2>6 DEF PollPush, ProcessingIsCarried
<1>5. CASE PollExit(s)
  <2>1. \A t \in Server : t # s => poll'[t] = poll[t]
    BY <1>0, <1>5, SetPollEffect DEF PollExit, PollPc
  <2>2. \A id \in Id : InPoll(s, id) => id \in dropped'
    BY <1>5 DEF PollExit, InPoll
  <2>3. \A id \in Id : Carried(id) => Carried(id)' \/ id \in dropped'
    BY <1>5, <2>1, <2>2 DEF Carried, InWork, InChan, InPoll, PollExit
  <2> QED BY <1>5, <2>3 DEF PollExit, ProcessingIsCarried
<1> QED BY <1>1, <1>2, <1>3, <1>4, <1>5 DEF RetryScheduler

\* Of the life cycle: a process that ends leaves what it carried as dropped.
LEMMA LifecycleCarries ==
  ASSUME TypeOK, ProcessingIsCarried, NEW s \in Server, Lifecycle(s)
  PROVE  ProcessingIsCarried'
<1>0. ChanType /\ WorkType /\ PollType
  BY DEF TypeOK
<1>1. CASE Exit(s) \/ Crash(s)
  <2>1. StopProcess(s)
    BY <1>1 DEF Exit, Crash
  <2>2. \A t \in Server : t # s => chan'[t] = chan[t] /\ work'[t] = work[t] /\ poll'[t] = poll[t]
    BY <1>0, <2>1 DEF StopProcess, ChanType, WorkType, PollType
  <2>3. \A id \in Id : InChan(s, id) => id \in dropped'
    BY <2>1 DEF StopProcess, InChan
  <2>4. \A w \in Worker : work[s][w].pc \in Busy => work[s][w].n # NoCopy
    BY <1>0 DEF WorkType, Busy
  <2>5. \A id \in Id : InWork(s, id) => id \in dropped'
    BY <2>1, <2>4 DEF StopProcess, InWork
  <2>6. \A id \in Id : InPoll(s, id) => id \in dropped'
    BY <2>1 DEF StopProcess, InPoll
  <2>7. \A t \in Server \ {s}, id \in Id :
          InChan(t, id) \/ InWork(t, id) \/ InPoll(t, id) => Carried(id)'
    BY <2>2 DEF Carried, InChan, InWork, InPoll
  <2>8. \A id \in Id : Carried(id) => Carried(id)' \/ id \in dropped'
    BY <2>3, <2>5, <2>6, <2>7 DEF Carried
  <2> QED BY <2>1, <2>8 DEF StopProcess, ProcessingIsCarried
<1>2. CASE Signal(s) \/ BeginShutdown(s) \/ CloseChannel(s) \/ Restart(s)
  BY <1>2 DEF Signal, BeginShutdown, CloseChannel, Restart, ProcessingIsCarried,
     Carried, InChan, InWork, InPoll
<1> QED BY <1>1, <1>2 DEF Lifecycle

\* A notification the service marked PROCESSING is never forgotten by a system
\* in which no process ends and no statement on its row fails: it is in a
\* channel, with a worker or with a poller.
THEOREM ProcessingCarried == Spec => []ProcessingIsCarried
<1>1. Init => ProcessingIsCarried
  BY DEF Init, ProcessingIsCarried
<1>2. TypeOK /\ ProcessingIsCarried /\ [Next]_vars => ProcessingIsCarried'
  <2> SUFFICES ASSUME TypeOK, ProcessingIsCarried, [Next]_vars
               PROVE  ProcessingIsCarried'
    OBVIOUS
  <2>1. CASE UNCHANGED vars
    BY <2>1 DEF vars, ProcessingIsCarried, Carried, InChan, InWork, InPoll
  <2>2. ASSUME NEW id \in Id, Environment(id)
        PROVE  ProcessingIsCarried'
    <3>1. \A x \in Id : rows'[x].status = rows[x].status
      BY <2>2 DEF Environment, BackoffElapses, TaskStored, TaskRefused, TypeOK, StoreType, Row
    <3> QED BY <2>2, <3>1 DEF Environment, BackoffElapses, TaskStored, TaskRefused, ProcessingIsCarried, Carried, InChan, InWork, InPoll
  <2>3. CASE Next
    BY <2>2, <2>3, HandlerCarries, WorkerCarries, RetrySchedulerCarries, LifecycleCarries DEF Next
  <2> QED BY <2>1, <2>3
<1> QED BY <1>1, <1>2, TypeCorrect, PTL DEF Spec
=============================================================================
