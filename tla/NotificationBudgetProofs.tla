---------------------- MODULE NotificationBudgetProofs ----------------------
(***************************************************************************)
(* The retry budget, the dead-letter archive and the meaning of SENT, for  *)
(* every value of the constants.  The rows of the table are written from   *)
(* copies, so an invariant of the rows needs the same of every copy that   *)
(* a channel, a worker, a poller or a handler may still write back.        *)
(***************************************************************************)
EXTENDS NotificationSystemProofs

-----------------------------------------------------------------------------
(* The elements of a channel                                               *)

Queued(s) == {chan[s][i] : i \in 1 .. Len(chan[s])}

\* A send adds its copy to the queued ones.
LEMMA EnqueueQueued ==
  ASSUME ChanType, NEW s \in Server, NEW n \in Copy, Enqueue(s, n)
  PROVE  \A t \in Server : Queued(t)' \subseteq Queued(t) \cup {n}
<1>1. /\ chan'[s] = Append(chan[s], n)
      /\ \A t \in Server : t # s => chan'[t] = chan[t]
  BY EnqueueEffect
<1>2. chan[s] \in Seq(Copy) /\ Len(chan[s]) \in Nat
  BY DEF ChanType
<1>3. \A i \in 1 .. Len(chan'[s]) : chan'[s][i] = n \/ (i \in 1 .. Len(chan[s]) /\ chan'[s][i] = chan[s][i])
  BY <1>1, <1>2
<1>4. Queued(s)' \subseteq Queued(s) \cup {n}
  BY <1>3 DEF Queued
<1>5. \A t \in Server \ {s} : Queued(t)' = Queued(t)
  BY <1>1 DEF Queued
<1> QED BY <1>4, <1>5

\* A receive takes a queued copy and adds none.
LEMMA TakeQueued ==
  ASSUME ChanType, NEW s \in Server, chan[s] # <<>>,
         chan' = [chan EXCEPT ![s] = Tail(@)]
  PROVE  /\ Head(chan[s]) \in Queued(s)
         /\ \A t \in Server : Queued(t)' \subseteq Queued(t)
<1>1. chan[s] \in Seq(Copy) /\ chan \in [Server -> Seq(Copy)] /\ Len(chan[s]) \in Nat
  BY DEF ChanType
<1>2. /\ chan'[s] = Tail(chan[s])
      /\ \A t \in Server : t # s => chan'[t] = chan[t]
  BY <1>1
<1>3. Head(chan[s]) = chan[s][1] /\ 1 \in 1 .. Len(chan[s])
  BY <1>1
<1>4. \A i \in 1 .. Len(Tail(chan[s])) :
        i + 1 \in 1 .. Len(chan[s]) /\ Tail(chan[s])[i] = chan[s][i + 1]
  BY <1>1
<1>5. Queued(s)' \subseteq Queued(s)
  BY <1>2, <1>4 DEF Queued
<1>6. \A t \in Server \ {s} : Queued(t)' = Queued(t)
  BY <1>2 DEF Queued
<1> QED BY <1>3, <1>5, <1>6 DEF Queued

\* A process that ends empties its own channel, worker pool and poller.
LEMMA StopProcessEffect ==
  ASSUME TypeOK, NEW s \in Server, StopProcess(s)
  PROVE  /\ \A t \in Server : Queued(t)' \subseteq Queued(t)
         /\ \A t \in Server, w \in Worker :
              work'[t][w] = work[t][w] \/ (t = s /\ work'[t][w].pc = "select")
         /\ \A t \in Server : poll'[t].jobs \subseteq poll[t].jobs
         /\ \A t \in Server, r \in Request :
              req'[t][r] = req[t][r] \/ (t = s /\ req'[t][r].pc = "idle")
<1>1. \A t \in Server : Queued(t)' \subseteq Queued(t)
  BY DEF StopProcess, TypeOK, ChanType, Queued
<1>2. \A t \in Server, w \in Worker :
        work'[t][w] = work[t][w] \/ (t = s /\ work'[t][w].pc = "select")
  BY DEF StopProcess, TypeOK, WorkType, IdleWorker
<1>3. \A t \in Server : poll'[t].jobs \subseteq poll[t].jobs
  BY DEF StopProcess, TypeOK, PollType, IdlePoller
<1>4. \A t \in Server, r \in Request :
        req'[t][r] = req[t][r] \/ (t = s /\ req'[t][r].pc = "idle")
  BY DEF StopProcess, TypeOK, ReqType, IdleRequest
<1> QED BY <1>1, <1>2, <1>3, <1>4

-----------------------------------------------------------------------------
(* The retry budget                                                        *)

QueueBudget == \A s \in Server : \A n \in Queued(s) : n.retry <= MaxRetryCount

PollBudget == \A s \in Server : \A n \in poll[s].jobs : n.retry <= MaxRetryCount

WorkBudget ==
  \A s \in Server, w \in Worker :
    /\ work[s][w].pc \in {"start", "send", "sent", "retry"} =>
         work[s][w].n.retry <= MaxRetryCount
    /\ work[s][w].pc \in {"dead", "archive"} =>
         work[s][w].n.retry = MaxRetryCount + 1

ReqBudget ==
  \A s \in Server, r \in Request :
    /\ req[s][r].pc \in {"push", "delegate", "wait", "undo"} => req[s][r].n.retry = 0
    /\ req[s][r].pc \in {"update", "trypush"} => req[s][r].n.retry <= MaxRetryCount

\* The inductive strengthening of RetryBudget.
BudgetInv ==
  RetryBudget /\ QueueBudget /\ PollBudget /\ WorkBudget /\ ReqBudget

\* A write within the budget keeps the rows within it.
LEMMA WriteRowBudget ==
  ASSUME StoreType, RetryBudget, NEW n \in Copy, NEW status \in Status, NEW due \in BOOLEAN,
         WriteRow(n, status, due),
         status # "DLQ" => n.retry <= MaxRetryCount,
         status = "DLQ" => n.retry \in {0, MaxRetryCount + 1}
  PROVE  RetryBudget'
<1>1. /\ rows'[n.id].status = status /\ rows'[n.id].retry = n.retry
      /\ \A id \in Id : id # n.id => rows'[id] = rows[id]
  BY WriteRowEffect
<1> QED BY <1>1 DEF RetryBudget

\* The HTTP handlers keep the budget.
LEMMA HandlerBudget ==
  ASSUME TypeOK, BudgetInv, NEW s \in Server, NEW r \in Request, Handler(s, r)
  PROVE  BudgetInv'
<1> USE NoCopyIsNoCopy, ConstantsAssumption
<1>0. StoreType /\ ChanType /\ ReqType
  BY DEF TypeOK
<1>00. RetryBudget /\ QueueBudget /\ PollBudget /\ WorkBudget /\ ReqBudget
  BY DEF BudgetInv
<1>01. PollBudget' /\ WorkBudget'
  BY <1>00 DEF PollBudget, WorkBudget, Handler, CreateCheck, CreateReject, CreateSave,
     CreatePush, CreateAbandon, DelegatePost, DelegateOk, DelegateFail, DelegateUndo, DispatchRead,
     DispatchUpdate, DispatchPush
<1>02. UNCHANGED chan => QueueBudget'
  BY <1>00 DEF QueueBudget, Queued
<1>03. UNCHANGED rows => RetryBudget'
  BY <1>00 DEF RetryBudget
<1>04. EndReq(s, r) => ReqBudget'
  BY <1>0, <1>00, EndReqEffect DEF ReqBudget
<1>05. ASSUME NEW pc \in ReqPc, NEW mode \in {"now", "later"}, NEW n \in Copy \cup {NoCopy},
              n = NoCopy <=> pc \in {"idle", "checked"},
              SetReq(s, r, pc, mode, n),
              pc \in {"push", "delegate", "wait", "undo"} => n.retry = 0,
              pc \in {"update", "trypush"} => n.retry <= MaxRetryCount
       PROVE  ReqBudget'
  <2>1. /\ req'[s][r].pc = pc /\ req'[s][r].n = n
        /\ \A t \in Server, q \in Request : <<t, q>> # <<s, r>> => req'[t][q] = req[t][q]
    BY <1>0, <1>05, SetReqEffect
  <2> QED BY <1>00, <1>05, <2>1 DEF ReqBudget
<1>06. req[s][r].mode \in {"now", "later"}
  BY <1>0 DEF ReqType
<1>1. CASE CreateCheck(s, r)
  <2>1. PICK mode \in {"now", "later"} : SetReq(s, r, "checked", mode, NoCopy)
    BY <1>1 DEF CreateCheck
  <2>2. ReqBudget'
    BY <1>05, <2>1 DEF ReqPc
  <2> QED BY <1>1, <1>01, <1>02, <1>03, <2>2 DEF CreateCheck, BudgetInv
<1>2. CASE CreateReject(s, r) \/ CreateAbandon(s, r) \/ DelegateOk(s, r)
  BY <1>2, <1>01, <1>02, <1>03, <1>04 DEF CreateReject, CreateAbandon, DelegateOk, BudgetInv
<1>3. CASE CreateSave(s, r)
  <2>1. PICK id \in Id :
          LET n == [id |-> id, retry |-> 0]
              later == req[s][r].mode = "later"
          IN  /\ WriteRow(n, IF later THEN "SCHEDULED" ELSE "PENDING", ~later)
              /\ SetReq(s, r, IF later THEN "delegate" ELSE "push",
                        req[s][r].mode, n)
    BY <1>3 DEF CreateSave
  <2>2. PICK n \in Copy : n = [id |-> id, retry |-> 0]
    BY DEF Copy
  <2>3. PICK status \in {"SCHEDULED", "PENDING"} :
          status = IF req[s][r].mode = "later" THEN "SCHEDULED" ELSE "PENDING"
    OBVIOUS
  <2>4. PICK pc \in {"delegate", "push"} :
          pc = IF req[s][r].mode = "later" THEN "delegate" ELSE "push"
    OBVIOUS
  <2>5. PICK due \in BOOLEAN : due = ~(req[s][r].mode = "later")
    OBVIOUS
  <2>6. WriteRow(n, status, due) /\ SetReq(s, r, pc, req[s][r].mode, n) /\ n.retry = 0
    BY <2>1, <2>2, <2>3, <2>4, <2>5
  <2>7. RetryBudget'
    BY <1>0, <1>00, <2>6, WriteRowBudget DEF Status
  <2>8. ReqBudget'
    BY <1>05, <1>06, <2>6 DEF ReqPc
  <2> QED BY <1>3, <1>01, <1>02, <2>7, <2>8 DEF CreateSave, BudgetInv
<1>4. CASE CreatePush(s, r) \/ DispatchPush(s, r)
  <2>1. PICK n \in Copy : n = req[s][r].n
    BY <1>4, HoldsCopy DEF CreatePush, DispatchPush
  <2>2. n.retry <= MaxRetryCount
    BY <1>00, <1>4, <2>1 DEF ReqBudget, CreatePush, DispatchPush
  <2>3. UNCHANGED chan \/ Enqueue(s, n)
    BY <1>4, <2>1 DEF CreatePush, DispatchPush
  <2>4. QueueBudget'
    <3>1. CASE Enqueue(s, n)
      BY <1>0, <1>00, <2>2, <3>1, EnqueueQueued DEF QueueBudget
    <3> QED BY <1>02, <2>3, <3>1
  <2> QED BY <1>4, <1>01, <1>03, <1>04, <2>4 DEF CreatePush, DispatchPush, BudgetInv
<1>5. CASE DelegatePost(s, r) \/ DelegateFail(s, r)
  <2>1. PICK n \in Copy : n = req[s][r].n
    BY <1>5, HoldsCopy DEF DelegatePost, DelegateFail
  <2>2. PICK pc \in {"wait", "undo"} : SetReq(s, r, pc, req[s][r].mode, n)
    BY <1>5, <2>1 DEF DelegatePost, DelegateFail
  <2>3. n.retry = 0
    BY <1>00, <1>5, <2>1 DEF ReqBudget, DelegatePost, DelegateFail
  <2>4. ReqBudget'
    BY <1>05, <1>06, <2>2, <2>3 DEF ReqPc
  <2> QED BY <1>5, <1>01, <1>02, <1>03, <2>4 DEF DelegatePost, DelegateFail, BudgetInv
<1>6. CASE DelegateUndo(s, r)
  <2>1. PICK n \in Copy : n = req[s][r].n
    BY <1>6, HoldsCopy DEF DelegateUndo
  <2>2. n.retry = 0
    BY <1>00, <1>6, <2>1 DEF ReqBudget, DelegateUndo
  <2>3. UNCHANGED rows \/ WriteRow(n, "DLQ", FALSE)
    BY <1>6, <2>1 DEF DelegateUndo, UpdateFails
  <2>4. RetryBudget'
    BY <1>0, <1>00, <1>03, <2>2, <2>3, WriteRowBudget DEF Status
  <2> QED BY <1>6, <1>01, <1>02, <1>04, <2>4 DEF DelegateUndo, BudgetInv
<1>7. CASE \E id \in Id : DispatchRead(s, r, id)
  <2>1. PICK id \in Id : DispatchRead(s, r, id)
    BY <1>7
  <2>2. PICK n \in Copy : n = CopyOf(id)
    BY <1>0, CopyOfType
  <2>3. n.retry <= MaxRetryCount
    BY <1>00, <2>1, <2>2 DEF RetryBudget, DispatchRead, CopyOf
  <2>4. SetReq(s, r, "update", "later", n)
    BY <2>1, <2>2 DEF DispatchRead
  <2>5. ReqBudget'
    BY <1>05, <2>3, <2>4 DEF ReqPc
  <2> QED BY <2>1, <1>01, <1>02, <1>03, <2>5 DEF DispatchRead, BudgetInv
<1>8. CASE DispatchUpdate(s, r)
  <2>1. PICK n \in Copy : n = req[s][r].n
    BY <1>8, HoldsCopy DEF DispatchUpdate
  <2>2. n.retry <= MaxRetryCount
    BY <1>00, <1>8, <2>1 DEF ReqBudget, DispatchUpdate
  <2>3. UNCHANGED rows \/ WriteRow(n, "PENDING", TRUE)
    BY <1>8, <2>1 DEF DispatchUpdate
  <2>4. RetryBudget'
    BY <1>0, <1>00, <1>03, <2>2, <2>3, WriteRowBudget DEF Status
  <2>5. EndReq(s, r) \/ SetReq(s, r, "trypush", "later", n)
    BY <1>8, <2>1 DEF DispatchUpdate
  <2>6. ReqBudget'
    BY <1>04, <1>05, <2>2, <2>5 DEF ReqPc
  <2> QED BY <1>8, <1>01, <1>02, <2>4, <2>6 DEF DispatchUpdate, BudgetInv
<1> QED BY <1>1, <1>2, <1>3, <1>4, <1>5, <1>6, <1>7, <1>8 DEF Handler

\* The workers keep the budget.
LEMMA WorkerBudget ==
  ASSUME TypeOK, BudgetInv, NEW s \in Server, NEW w \in Worker,
         WorkerTake(s, w) \/ WorkerExit(s, w) \/ Process(s, w)
  PROVE  BudgetInv'
<1> USE NoCopyIsNoCopy, ConstantsAssumption
<1>0. StoreType /\ ChanType /\ WorkType
  BY DEF TypeOK
<1>00. RetryBudget /\ QueueBudget /\ PollBudget /\ WorkBudget /\ ReqBudget
  BY DEF BudgetInv
<1>01. PollBudget' /\ ReqBudget'
  BY <1>00 DEF PollBudget, ReqBudget, WorkerTake, WorkerExit, Process, ProcessPanic, ProcessStart,
     ProcessSend, ProcessSent, ProcessRetry, ProcessDead, ProcessArchive
<1>02. UNCHANGED chan => QueueBudget'
  BY <1>00 DEF QueueBudget, Queued
<1>03. UNCHANGED rows => RetryBudget'
  BY <1>00 DEF RetryBudget
<1>04. ASSUME NEW pc \in WorkerPc, NEW n \in Copy \cup {NoCopy},
              n = NoCopy <=> pc \in {"select", "exited"},
              SetWork(s, w, pc, n),
              pc \in {"start", "send", "sent", "retry"} => n.retry <= MaxRetryCount,
              pc \in {"dead", "archive"} => n.retry = MaxRetryCount + 1
       PROVE  WorkBudget'
  <2>1. /\ work'[s][w].pc = pc /\ work'[s][w].n = n
        /\ \A t \in Server, v \in Worker : <<t, v>> # <<s, w>> => work'[t][v] = work[t][v]
    BY <1>0, <1>04, SetWorkEffect
  <2> QED BY <1>00, <1>04, <2>1 DEF WorkBudget
<1>05. SetWork(s, w, "select", NoCopy) => WorkBudget'
  BY <1>04 DEF WorkerPc
<1>1. CASE WorkerTake(s, w)
  <2>1. PICK n \in Copy : n = Head(chan[s])
    BY <1>0, <1>1 DEF WorkerTake, ChanType
  <2>2. n \in Queued(s) /\ \A t \in Server : Queued(t)' \subseteq Queued(t)
    BY <1>0, <1>1, <2>1, TakeQueued DEF WorkerTake
  <2>3. QueueBudget' /\ n.retry <= MaxRetryCount
    BY <1>00, <2>2 DEF QueueBudget
  <2>4. SetWork(s, w, "start", n)
    BY <1>1, <2>1 DEF WorkerTake
  <2>5. WorkBudget'
    BY <1>04, <2>3, <2>4 DEF WorkerPc
  <2> QED BY <1>1, <1>01, <1>03, <2>3, <2>5 DEF WorkerTake, BudgetInv
<1>2. CASE WorkerExit(s, w)
  <2>1. WorkBudget'
    BY <1>2, <1>04 DEF WorkerExit, WorkerPc
  <2> QED BY <1>2, <1>01, <1>02, <1>03, <2>1 DEF WorkerExit, BudgetInv
<1>3. CASE ProcessStart(s, w)
  <2>1. PICK n \in Copy : n = work[s][w].n
    BY <1>3, HoldsCopy DEF ProcessStart
  <2>2. n.retry <= MaxRetryCount
    BY <1>00, <1>3, <2>1 DEF WorkBudget, ProcessStart
  <2>3. UNCHANGED rows \/ WriteRow(n, "PROCESSING", TRUE)
    BY <1>3, <2>1 DEF ProcessStart, UpdateFails
  <2>4. RetryBudget'
    BY <1>0, <1>00, <1>03, <2>2, <2>3, WriteRowBudget DEF Status
  <2>5. SetWork(s, w, "send", n)
    BY <1>3, <2>1 DEF ProcessStart
  <2>6. WorkBudget'
    BY <1>04, <2>2, <2>5 DEF WorkerPc
  <2> QED BY <1>3, <1>01, <1>02, <2>4, <2>6 DEF ProcessStart, BudgetInv
<1>4. CASE ProcessSend(s, w)
  <2>1. PICK pc \in {"sent", "retry", "dead"}, n \in Copy :
          /\ SetWork(s, w, pc, n)
          /\ pc = "sent" => n = work[s][w].n
          /\ pc # "sent" => n.retry = work[s][w].n.retry + 1
          /\ pc # "sent" => (pc = "dead" <=> n.retry > MaxRetryCount)
    BY <1>4, ProcessSendEffect
  <2>2. work[s][w].n.retry <= MaxRetryCount /\ work[s][w].n.retry \in Nat
    BY <1>00, <1>4, HoldsCopy, CopyFields DEF WorkBudget, ProcessSend
  <2>3. WorkBudget'
    BY <1>04, <2>1, <2>2 DEF WorkerPc
  <2> QED BY <1>4, <1>01, <1>02, <1>03, <2>3 DEF ProcessSend, BudgetInv
<1>5. CASE ProcessSent(s, w) \/ ProcessRetry(s, w)
  <2>1. PICK n \in Copy : n = work[s][w].n
    BY <1>5, HoldsCopy DEF ProcessSent, ProcessRetry
  <2>2. n.retry <= MaxRetryCount
    BY <1>00, <1>5, <2>1 DEF WorkBudget, ProcessSent, ProcessRetry
  <2>3. UNCHANGED rows \/ WriteRow(n, "SENT", TRUE) \/ WriteRow(n, "PENDING", FALSE)
    BY <1>5, <2>1 DEF ProcessSent, ProcessRetry, UpdateFails
  <2>4. RetryBudget'
    BY <1>0, <1>00, <1>03, <2>2, <2>3, WriteRowBudget DEF Status
  <2> QED BY <1>5, <1>01, <1>02, <1>05, <2>4 DEF ProcessSent, ProcessRetry, BudgetInv
<1>6. CASE ProcessDead(s, w)
  <2>1. PICK n \in Copy : n = work[s][w].n
    BY <1>6, HoldsCopy DEF ProcessDead
  <2>2. n.retry = MaxRetryCount + 1
    BY <1>00, <1>6, <2>1 DEF WorkBudget, ProcessDead
  <2>3. UNCHANGED rows \/ WriteRow(n, "DLQ", TRUE)
    BY <1>6, <2>1 DEF ProcessDead, UpdateFails
  <2>4. RetryBudget'
    BY <1>0, <1>00, <1>03, <2>2, <2>3, WriteRowBudget DEF Status
  <2>5. SetWork(s, w, "archive", n)
    BY <1>6, <2>1 DEF ProcessDead
  <2>6. WorkBudget'
    BY <1>04, <2>2, <2>5 DEF WorkerPc
  <2> QED BY <1>6, <1>01, <1>02, <2>4, <2>6 DEF ProcessDead, BudgetInv
<1>7. CASE ProcessArchive(s, w)
  BY <1>7, <1>01, <1>02, <1>03, <1>05 DEF ProcessArchive, BudgetInv
<1>8. CASE ProcessPanic(s, w)
  BY <1>8, <1>01, <1>02, <1>03, <1>05 DEF ProcessPanic, BudgetInv
<1> QED BY <1>1, <1>2, <1>3, <1>4, <1>5, <1>6, <1>7, <1>8 DEF Process

\* The effect of a tick's successful claim.
LEMMA PollClaimEffect ==
  ASSUME TypeOK, NEW s \in Server, PollClaim(s)
  PROVE  \E S \in SUBSET Id :
           /\ \A id \in S : rows[id].status = "PENDING"
           /\ ClaimRows(S)
           /\ poll'[s].jobs = {CopyOf(id) : id \in S}
           /\ \A t \in Server : t # s => poll'[t] = poll[t]
<1>1. PICK S \in SUBSET Id :
        /\ Claimable(S)
        /\ ClaimRows(S)
        /\ SetPoll(s, IF S = {} THEN "wait" ELSE "loop", {CopyOf(id) : id \in S}, NoCopy)
  BY DEF PollClaim
<1>2. PICK pc \in PollPc : pc = IF S = {} THEN "wait" ELSE "loop"
  BY DEF PollPc
<1>3. PICK jobs \in SUBSET Copy : jobs = {CopyOf(id) : id \in S}
  BY CopyOfType DEF TypeOK
<1>4. pc # "push" /\ (pc \in {"wait", "exited"} => jobs = {})
  BY <1>2, <1>3
<1>5. SetPoll(s, pc, jobs, NoCopy)
  BY <1>1, <1>2, <1>3
<1>6. poll'[s].jobs = jobs /\ \A t \in Server : t # s => poll'[t] = poll[t]
  BY <1>4, <1>5, SetPollEffect DEF TypeOK
<1>7. \A id \in S : rows[id].status = "PENDING"
  BY <1>1 DEF Claimable, Ready
<1> QED BY <1>1, <1>3, <1>6, <1>7

\* The other steps of the RetryScheduler never add a job to its batch.
LEMMA PollOtherEffect ==
  ASSUME TypeOK, NEW s \in Server,
         PollClaimLost(s) \/ PollNext(s) \/ PollPush(s) \/ PollExit(s)
  PROVE  \A t \in Server : poll'[t].jobs \subseteq poll[t].jobs
<1>0. PollType /\ poll[s].jobs \in SUBSET Copy
  BY HoldsCopy DEF TypeOK
<1>1. CASE PollClaimLost(s)
  BY <1>1 DEF PollClaimLost
<1>2. CASE PollNext(s)
  <2>1. PICK j \in poll[s].jobs : SetPoll(s, "push", poll[s].jobs, j)
    BY <1>2 DEF PollNext
  <2> QED BY <1>0, <2>1, SetPollEffect DEF PollPc
<1>3. CASE PollPush(s)
  <2>1. PICK rest \in SUBSET Copy : rest = poll[s].jobs \ {poll[s].job}
    BY <1>0
  <2>2. PICK pc \in PollPc : pc = IF rest = {} THEN "wait" ELSE "loop"
    BY DEF PollPc
  <2>3. SetPoll(s, pc, rest, NoCopy)
    BY <1>3, <2>1, <2>2 DEF PollPush
  <2>4. poll'[s].jobs = rest /\ \A t \in Server : t # s => poll'[t] = poll[t]
    BY <1>0, <2>2, <2>3, SetPollEffect
  <2> QED BY <2>1, <2>4
<1>4. CASE PollExit(s)
  BY <1>0, <1>4, SetPollEffect DEF PollExit, PollPc
<1> QED BY <1>1, <1>2, <1>3, <1>4

\* The RetryScheduler keeps the budget.
LEMMA RetrySchedulerBudget ==
  ASSUME TypeOK, BudgetInv, NEW s \in Server, RetryScheduler(s)
  PROVE  BudgetInv'
<1>0. StoreType /\ ChanType /\ PollType
  BY DEF TypeOK
<1>00. RetryBudget /\ QueueBudget /\ PollBudget /\ WorkBudget /\ ReqBudget
  BY DEF BudgetInv
<1>01. WorkBudget' /\ ReqBudget'
  BY <1>00 DEF WorkBudget, ReqBudget, RetryScheduler, PollClaim, PollClaimLost, PollNext,
     PollPush, PollExit
<1>02. UNCHANGED chan => QueueBudget'
  BY <1>00 DEF QueueBudget, Queued
<1>03. UNCHANGED rows => RetryBudget'
  BY <1>00 DEF RetryBudget
<1>04. ASSUME NEW S \in SUBSET Id, ClaimRows(S), \A id \in S : rows[id].status = "PENDING"
       PROVE  RetryBudget'
  <2>1. /\ \A id \in S : rows'[id].status = "PROCESSING" /\ rows'[id].retry = rows[id].retry
        /\ \A id \in Id \ S : rows'[id] = rows[id]
    BY <1>0, <1>04, ClaimRowsEffect
  <2> QED BY <1>00, <1>04, <2>1 DEF RetryBudget
<1>1. CASE PollClaim(s)
  <2>1. PICK S \in SUBSET Id :
          /\ \A id \in S : rows[id].status = "PENDING"
          /\ ClaimRows(S)
          /\ poll'[s].jobs = {CopyOf(id) : id \in S}
          /\ \A t \in Server : t # s => poll'[t] = poll[t]
    BY <1>1, PollClaimEffect
  <2>2. \A id \in S : CopyOf(id).retry <= MaxRetryCount
    BY <1>00, <2>1 DEF RetryBudget, CopyOf
  <2>3. PollBudget'
    BY <1>00, <2>1, <2>2 DEF PollBudget
  <2>4. RetryBudget'
    BY <1>04, <2>1
  <2> QED BY <1>1, <1>01, <1>02, <2>3, <2>4 DEF PollClaim, BudgetInv
<1>2. CASE PollClaimLost(s) \/ PollNext(s) \/ PollPush(s) \/ PollExit(s)
  <2>1. PollBudget'
    BY <1>00, <1>2, PollOtherEffect DEF PollBudget
  <2>2. CASE PollClaimLost(s)
    <3>1. PICK S \in SUBSET Id : Claimable(S) /\ ClaimRows(S)
      BY <2>2 DEF PollClaimLost
    <3>2. RetryBudget'
      BY <1>04, <3>1 DEF Claimable, Ready
    <3> QED BY <1>01, <1>02, <2>1, <2>2, <3>2 DEF PollClaimLost, BudgetInv
  <2>3. CASE PollNext(s) \/ PollExit(s)
    BY <1>01, <1>02, <1>03, <2>1, <2>3 DEF PollNext, PollExit, BudgetInv
  <2>4. CASE PollPush(s)
    <3>1. PICK n \in Copy : n = poll[s].job /\ n \in poll[s].jobs
      BY <1>0, <2>4, HoldsCopy DEF PollPush, PollType
    <3>2. n.retry <= MaxRetryCount /\ Enqueue(s, n)
      BY <1>00, <2>4, <3>1 DEF PollBudget, PollPush
    <3>3. QueueBudget'
      BY <1>0, <1>00, <3>2, EnqueueQueued DEF QueueBudget
    <3> QED BY <1>01, <1>03, <2>1, <2>4, <3>3 DEF PollPush, BudgetInv
  <2> QED BY <1>2, <2>2, <2>3, <2>4
<1> QED BY <1>1, <1>2 DEF RetryScheduler

\* The life cycle keeps the budget.
LEMMA LifecycleBudget ==
  ASSUME TypeOK, BudgetInv, NEW s \in Server, Lifecycle(s)
  PROVE  BudgetInv'
<1>00. RetryBudget /\ QueueBudget /\ PollBudget /\ WorkBudget /\ ReqBudget
  BY DEF BudgetInv
<1>1. CASE Exit(s) \/ Crash(s)
  <2>1. StopProcess(s)
    BY <1>1 DEF Exit, Crash
  <2>2. RetryBudget'
    BY <1>00, <2>1 DEF StopProcess, RetryBudget
  <2>3. QueueBudget'
    BY <1>00, <2>1, StopProcessEffect DEF QueueBudget
  <2>4. PollBudget'
    BY <1>00, <2>1, StopProcessEffect DEF PollBudget
  <2>5. WorkBudget'
    BY <1>00, <2>1, StopProcessEffect DEF WorkBudget
  <2>6. ReqBudget'
    BY <1>00, <2>1, StopProcessEffect DEF ReqBudget
  <2> QED BY <2>2, <2>3, <2>4, <2>5, <2>6 DEF BudgetInv
<1>2. CASE Signal(s) \/ BeginShutdown(s) \/ CloseChannel(s) \/ Restart(s)
  BY <1>00, <1>2 DEF Signal, BeginShutdown, CloseChannel, Restart, BudgetInv, RetryBudget,
     QueueBudget, Queued, PollBudget, WorkBudget, ReqBudget
<1> QED BY <1>1, <1>2 DEF Lifecycle

\* The passing of time keeps every row but its due flag.
LEMMA BackoffEffect ==
  ASSUME TypeOK, NEW id \in Id, Environment(id)
  PROVE  \A x \in Id : rows'[x].status = rows[x].status /\ rows'[x].retry = rows[x].retry
BY DEF Environment, BackoffElapses, TaskStored, TaskRefused, TypeOK, StoreType, Row

\* The retry budget is an invariant of the service, together with its
\* strengthening to all the copies in flight.
THEOREM BudgetInvariant == Spec => []BudgetInv
<1>1. Init => BudgetInv
  <2> SUFFICES ASSUME Init PROVE BudgetInv
    OBVIOUS
  <2>1. RetryBudget
    BY ConstantsAssumption DEF Init, RetryBudget
  <2>2. QueueBudget
    BY DEF Init, QueueBudget, Queued
  <2>3. PollBudget /\ WorkBudget /\ ReqBudget
    BY DEF Init, PollBudget, WorkBudget, ReqBudget, IdlePoller, IdleWorker, IdleRequest
  <2> QED BY <2>1, <2>2, <2>3 DEF BudgetInv
<1>2. TypeOK /\ BudgetInv /\ [Next]_vars => BudgetInv'
  <2> SUFFICES ASSUME TypeOK, BudgetInv, [Next]_vars PROVE BudgetInv'
    OBVIOUS
  <2>1. CASE UNCHANGED vars
    BY <2>1 DEF vars, BudgetInv, RetryBudget, QueueBudget, Queued, PollBudget, WorkBudget, ReqBudget
  <2>2. ASSUME NEW id \in Id, Environment(id) PROVE BudgetInv'
    <3>1. \A x \in Id : rows'[x].status = rows[x].status /\ rows'[x].retry = rows[x].retry
      BY <2>2, BackoffEffect
    <3>2. RetryBudget'
      BY <3>1 DEF BudgetInv, RetryBudget
    <3> QED BY <2>2, <3>2 DEF Environment, BackoffElapses, TaskStored, TaskRefused, BudgetInv, QueueBudget, Queued, PollBudget,
               WorkBudget, ReqBudget
  <2>3. CASE Next
    BY <2>2, <2>3, HandlerBudget, WorkerBudget, RetrySchedulerBudget, LifecycleBudget DEF Next
  <2> QED BY <2>1, <2>3
<1> QED BY <1>1, <1>2, TypeCorrect, PTL DEF Spec

\* A row has used at most MaxRetryCount retries while it can still be tried,
\* and a dead letter exactly one more, for any number of stale copies.
THEOREM RetryBudgetHolds == Spec => []RetryBudget
<1>1. BudgetInv => RetryBudget
  BY DEF BudgetInv
<1> QED BY <1>1, BudgetInvariant, PTL

-----------------------------------------------------------------------------
(* What the final statuses mean                                            *)

\* A worker about to write SENT saw its delivery accepted.
SentInv ==
  /\ SentWasDelivered
  /\ \A s \in Server, w \in Worker :
       work[s][w].pc = "sent" => delivered[work[s][w].n.id] > 0

\* Only ProcessSent writes SENT.
LEMMA OnlyProcessSent ==
  ASSUME TypeOK, Next, NEW id \in Id, rows'[id].status = "SENT", rows[id].status # "SENT"
  PROVE  \E s \in Server, w \in Worker : work[s][w].pc = "sent" /\ work[s][w].n.id = id
<1>0. StoreType
  BY DEF TypeOK
<1>1. ASSUME NEW n \in Copy, NEW status \in Status, NEW due \in BOOLEAN,
             WriteRow(n, status, due)
      PROVE  status = "SENT" /\ n.id = id
  BY <1>0, <1>1, WriteRowEffect
<1>2. rows' # rows
  OBVIOUS
<1>3. ASSUME NEW s \in Server, NEW r \in Request, Handler(s, r) PROVE FALSE
  <2>1. CASE CreateSave(s, r)
    <3>1. PICK x \in Id :
            WriteRow([id |-> x, retry |-> 0],
                     IF req[s][r].mode = "later" THEN "SCHEDULED" ELSE "PENDING",
                     ~(req[s][r].mode = "later"))
      BY <2>1 DEF CreateSave
    <3>2. [id |-> x, retry |-> 0] \in Copy
      BY DEF Copy
    <3> QED BY <1>1, <3>1, <3>2 DEF Status
  <2>2. CASE DelegateUndo(s, r)
    BY <1>1, <1>2, <2>2, HoldsCopy DEF DelegateUndo, UpdateFails, Status
  <2>3. CASE DispatchUpdate(s, r)
    BY <1>1, <1>2, <2>3, HoldsCopy DEF DispatchUpdate, Status
  <2> QED BY <1>2, <1>3, <2>1, <2>2, <2>3 DEF Handler, CreateCheck, CreateReject, CreatePush,
             CreateAbandon, DelegatePost, DelegateOk, DelegateFail, DispatchRead, DispatchPush
<1>4. ASSUME NEW s \in Server, NEW w \in Worker, WorkerTake(s, w) \/ WorkerExit(s, w) \/ Process(s, w)
      PROVE  work[s][w].pc = "sent" /\ work[s][w].n.id = id
  <2>1. CASE ProcessStart(s, w) \/ ProcessRetry(s, w) \/ ProcessDead(s, w)
    BY <1>1, <1>2, <2>1, HoldsCopy DEF ProcessStart, ProcessRetry, ProcessDead, UpdateFails, Status
  <2>2. CASE ProcessSent(s, w)
    BY <1>1, <1>2, <2>2, HoldsCopy DEF ProcessSent, UpdateFails, Status
  <2> QED BY <1>2, <1>4, <2>1, <2>2 DEF WorkerTake, WorkerExit, Process, ProcessPanic, ProcessSend, ProcessArchive
<1>5. ASSUME NEW s \in Server, RetryScheduler(s) PROVE FALSE
  <2>1. ASSUME NEW S \in SUBSET Id, ClaimRows(S) PROVE FALSE
    BY <1>0, <2>1, ClaimRowsEffect
  <2> QED BY <1>2, <1>5, <2>1 DEF RetryScheduler, PollClaim, PollClaimLost, PollNext, PollPush, PollExit
<1>6. ASSUME NEW s \in Server, Lifecycle(s) PROVE FALSE
  BY <1>2, <1>6 DEF Lifecycle, Signal, BeginShutdown, CloseChannel, Restart, Exit, Crash, StopProcess
<1>7. ASSUME NEW x \in Id, Environment(x) PROVE FALSE
  BY <1>7, BackoffEffect
<1> QED BY <1>3, <1>4, <1>5, <1>6, <1>7 DEF Next

\* The provider's count never goes down.
LEMMA DeliveredGrows ==
  ASSUME TypeOK, Next
  PROVE  \A id \in Id : delivered'[id] >= delivered[id]
<1>0. delivered \in [Id -> Nat]
  BY DEF TypeOK, StoreType
<1>1. ASSUME NEW s \in Server, NEW w \in Worker, ProcessSend(s, w)
      PROVE  \A id \in Id : delivered'[id] >= delivered[id]
  <2>1. UNCHANGED delivered \/ \E n \in Copy : Deliver(n.id)
    BY <1>1, ProcessSendEffect
  <2>2. CASE UNCHANGED delivered
    BY <1>0, <2>2
  <2>3. ASSUME NEW n \in Copy, Deliver(n.id) PROVE \A id \in Id : delivered'[id] >= delivered[id]
    BY <1>0, <2>3 DEF Deliver
  <2> QED BY <2>1, <2>2, <2>3
<1>2. CASE UNCHANGED delivered
  BY <1>0, <1>2
<1>3. ASSUME NEW s \in Server, NEW r \in Request, Handler(s, r) PROVE UNCHANGED delivered
  BY <1>3 DEF Handler, CreateCheck, CreateReject, CreateSave, CreatePush, CreateAbandon,
     DelegatePost, DelegateOk, DelegateFail, DelegateUndo, DispatchRead, DispatchUpdate, DispatchPush
<1>4. ASSUME NEW s \in Server, NEW w \in Worker, ~ProcessSend(s, w),
             WorkerTake(s, w) \/ WorkerExit(s, w) \/ Process(s, w)
      PROVE  UNCHANGED delivered
  BY <1>4 DEF WorkerTake, WorkerExit, Process, ProcessPanic, ProcessStart, ProcessSent, ProcessRetry,
     ProcessDead, ProcessArchive
<1>5. ASSUME NEW s \in Server, RetryScheduler(s) \/ Lifecycle(s) PROVE UNCHANGED delivered
  BY <1>5 DEF RetryScheduler, PollClaim, PollClaimLost, PollNext, PollPush, PollExit,
     Lifecycle, Signal, BeginShutdown, CloseChannel, Restart, Exit, Crash, StopProcess
<1>6. ASSUME NEW id \in Id, Environment(id) PROVE UNCHANGED delivered
  BY <1>6 DEF Environment, BackoffElapses, TaskStored, TaskRefused
<1> QED BY <1>1, <1>2, <1>3, <1>4, <1>5, <1>6 DEF Next

\* A worker reaches "sent" only with a delivery.
LEMMA SentWorkers ==
  ASSUME TypeOK, Next, NEW s \in Server, NEW w \in Worker, work'[s][w].pc = "sent"
  PROVE  \/ work[s][w].pc = "sent" /\ work'[s][w].n = work[s][w].n
         \/ work'[s][w].n.id \in Id /\ delivered'[work'[s][w].n.id] > 0
<1>0. WorkType
  BY DEF TypeOK
<1>1. CASE UNCHANGED work
  BY <1>1
<1>2. ASSUME NEW t \in Server, NEW v \in Worker, NEW pc \in WorkerPc \ {"sent"},
             NEW n \in Copy \cup {NoCopy}, n = NoCopy <=> pc \in {"select", "exited"},
             SetWork(t, v, pc, n)
      PROVE  work'[s][w] = work[s][w]
  BY <1>0, <1>2, SetWorkEffect
<1>3. ASSUME NEW t \in Server, NEW v \in Worker,
             WorkerTake(t, v) \/ WorkerExit(t, v) \/ Process(t, v)
      PROVE  \/ work[s][w].pc = "sent" /\ work'[s][w].n = work[s][w].n
             \/ work'[s][w].n.id \in Id /\ delivered'[work'[s][w].n.id] > 0
  <2> USE NoCopyIsNoCopy
  <2>1. CASE WorkerTake(t, v)
    <3>1. PICK n \in Copy : n = Head(chan[t])
      BY <2>1 DEF WorkerTake, TypeOK, ChanType
    <3> QED BY <1>2, <2>1, <3>1 DEF WorkerTake, WorkerPc
  <2>2. CASE WorkerExit(t, v)
    BY <1>2, <2>2 DEF WorkerExit, WorkerPc
  <2>3. CASE ProcessStart(t, v) \/ ProcessDead(t, v)
    BY <1>2, <2>3, HoldsCopy DEF ProcessStart, ProcessDead, WorkerPc
  <2>4. CASE ProcessPanic(t, v) \/ ProcessSent(t, v) \/ ProcessRetry(t, v) \/ ProcessArchive(t, v)
    BY <1>2, <2>4 DEF ProcessPanic, ProcessSent, ProcessRetry, ProcessArchive, WorkerPc
  <2>5. CASE ProcessSend(t, v)
    <3>1. PICK pc \in {"sent", "retry", "dead"}, n \in Copy :
            SetWork(t, v, pc, n) /\ (pc = "sent" => Deliver(n.id))
      BY <2>5, ProcessSendEffect
    <3>2. /\ work'[t][v].pc = pc /\ work'[t][v].n = n
          /\ \A x \in Server, y \in Worker : <<x, y>> # <<t, v>> => work'[x][y] = work[x][y]
      BY <1>0, <3>1, SetWorkEffect DEF WorkerPc
    <3>3. pc = "sent" => n.id \in Id /\ delivered'[n.id] > 0
      BY <3>1, CopyFields DEF Deliver, TypeOK, StoreType
    <3> QED BY <3>2, <3>3
  <2> QED BY <1>3, <2>1, <2>2, <2>3, <2>4, <2>5 DEF Process
<1>4. ASSUME NEW t \in Server, Lifecycle(t)
      PROVE  work'[s][w] = work[s][w]
  <2>1. CASE Exit(t) \/ Crash(t)
    BY <2>1, StopProcessEffect DEF Exit, Crash
  <2> QED BY <1>4, <2>1 DEF Lifecycle, Signal, BeginShutdown, CloseChannel, Restart
<1>5. ASSUME NEW t \in Server, NEW r \in Request, Handler(t, r) PROVE UNCHANGED work
  BY <1>5 DEF Handler, CreateCheck, CreateReject, CreateSave, CreatePush, CreateAbandon,
     DelegatePost, DelegateOk, DelegateFail, DelegateUndo, DispatchRead, DispatchUpdate, DispatchPush
<1>6. ASSUME NEW t \in Server, RetryScheduler(t) PROVE UNCHANGED work
  BY <1>6 DEF RetryScheduler, PollClaim, PollClaimLost, PollNext, PollPush, PollExit
<1>7. ASSUME NEW id \in Id, Environment(id) PROVE UNCHANGED work
  BY <1>7 DEF Environment, BackoffElapses, TaskStored, TaskRefused
<1> QED BY <1>1, <1>3, <1>4, <1>5, <1>6, <1>7 DEF Next

\* A notification whose row reads SENT was accepted by the provider.
THEOREM SentDelivered == Spec => []SentWasDelivered
<1>1. Init => SentInv
  BY DEF Init, SentInv, SentWasDelivered, IdleWorker
<1>2. TypeOK /\ TypeOK' /\ SentInv /\ [Next]_vars => SentInv'
  <2> SUFFICES ASSUME TypeOK, TypeOK', SentInv, [Next]_vars PROVE SentInv'
    OBVIOUS
  <2>1. CASE UNCHANGED vars
    BY <2>1 DEF vars, SentInv, SentWasDelivered
  <2>2. CASE Next
    <3>0. delivered \in [Id -> Nat] /\ delivered' \in [Id -> Nat]
      BY DEF TypeOK, StoreType
    <3>1. \A id \in Id : delivered'[id] >= delivered[id]
      BY <2>2, DeliveredGrows
    <3>2. ASSUME NEW id \in Id, rows'[id].status = "SENT" PROVE delivered'[id] > 0
      <4>1. CASE rows[id].status = "SENT"
        BY <3>0, <3>1, <4>1 DEF SentInv, SentWasDelivered
      <4>2. CASE rows[id].status # "SENT"
        <5>1. PICK s \in Server, w \in Worker : work[s][w].pc = "sent" /\ work[s][w].n.id = id
          BY <2>2, <3>2, <4>2, OnlyProcessSent
        <5>2. delivered[id] > 0
          BY <5>1 DEF SentInv
        <5> QED BY <3>0, <3>1, <5>2
      <4> QED BY <4>1, <4>2
    <3>3. ASSUME NEW s \in Server, NEW w \in Worker, work'[s][w].pc = "sent"
          PROVE  delivered'[work'[s][w].n.id] > 0
      <4>1. CASE work[s][w].pc = "sent" /\ work'[s][w].n = work[s][w].n
        <5>1. work[s][w].n.id \in Id
          BY <4>1, HoldsCopy, CopyFields
        <5>2. delivered[work[s][w].n.id] > 0
          BY <4>1 DEF SentInv
        <5> QED BY <3>0, <3>1, <4>1, <5>1, <5>2
      <4> QED BY <2>2, <3>3, <4>1, SentWorkers
    <3> QED BY <3>2, <3>3 DEF SentInv, SentWasDelivered
  <2> QED BY <2>1, <2>2
<1>3. SentInv => SentWasDelivered
  BY DEF SentInv
<1> QED BY <1>1, <1>2, <1>3, TypeCorrect, PTL DEF Spec

\* Some worker still has to archive id.
Archiving(id) ==
  \E s \in Server, w \in Worker : work[s][w].pc = "archive" /\ work[s][w].n.id = id

\* A worker that is archiving goes on doing so until the archive holds the
\* notification, or the INSERT failed, or its process ended.
LEMMA ArchivingEnds ==
  ASSUME TypeOK, Next, NEW id \in Id, Archiving(id)
  PROVE  Archiving(id)' \/ id \in dlq' \/ id \in dropped'
<1>0. WorkType
  BY DEF TypeOK
<1>1. PICK s \in Server, w \in Worker : work[s][w].pc = "archive" /\ work[s][w].n.id = id
  BY DEF Archiving
<1>2. work'[s][w] = work[s][w] => Archiving(id)'
  BY <1>1 DEF Archiving
<1>3. ASSUME NEW t \in Server, NEW v \in Worker, <<t, v>> # <<s, w>>,
             NEW pc \in WorkerPc, NEW n \in Copy \cup {NoCopy},
             n = NoCopy <=> pc \in {"select", "exited"}, SetWork(t, v, pc, n)
      PROVE  work'[s][w] = work[s][w]
  BY <1>0, <1>3, SetWorkEffect
<1>4. ASSUME NEW t \in Server, NEW v \in Worker,
             WorkerTake(t, v) \/ WorkerExit(t, v) \/ Process(t, v)
      PROVE  work'[s][w] = work[s][w] \/ id \in dlq' \/ id \in dropped'
  <2> USE NoCopyIsNoCopy
  <2>1. CASE <<t, v>> = <<s, w>>
    <3>1. ProcessArchive(s, w)
      BY <1>1, <1>4, <2>1 DEF WorkerTake, WorkerExit, Process, ProcessPanic, ProcessStart,
         ProcessSend, ProcessSent, ProcessRetry, ProcessDead
    <3> QED BY <1>1, <3>1 DEF ProcessArchive
  <2>2. CASE <<t, v>> # <<s, w>>
    <3>1. CASE WorkerTake(t, v)
      <4>1. PICK n \in Copy : n = Head(chan[t])
        BY <3>1 DEF WorkerTake, TypeOK, ChanType
      <4> QED BY <1>3, <2>2, <3>1, <4>1 DEF WorkerTake, WorkerPc
    <3>2. CASE WorkerExit(t, v)
      BY <1>3, <2>2, <3>2 DEF WorkerExit, WorkerPc
    <3>3. CASE ProcessStart(t, v) \/ ProcessDead(t, v)
      BY <1>3, <2>2, <3>3, HoldsCopy DEF ProcessStart, ProcessDead, WorkerPc
    <3>4. CASE ProcessPanic(t, v) \/ ProcessSent(t, v) \/ ProcessRetry(t, v) \/ ProcessArchive(t, v)
      BY <1>3, <2>2, <3>4 DEF ProcessPanic, ProcessSent, ProcessRetry, ProcessArchive, WorkerPc
    <3>5. CASE ProcessSend(t, v)
      <4>1. PICK pc \in {"sent", "retry", "dead"}, n \in Copy : SetWork(t, v, pc, n)
        BY <3>5, ProcessSendEffect
      <4> QED BY <1>3, <2>2, <4>1 DEF WorkerPc
    <3> QED BY <1>4, <3>1, <3>2, <3>3, <3>4, <3>5 DEF Process
  <2> QED BY <2>1, <2>2
<1>5. ASSUME NEW t \in Server, Lifecycle(t)
      PROVE  work'[s][w] = work[s][w] \/ id \in dropped'
  <2>1. CASE Exit(t) \/ Crash(t)
    <3>1. StopProcess(t)
      BY <2>1 DEF Exit, Crash
    <3>2. CASE t = s
      <4>1. work[s][w].n # NoCopy
        BY <1>0, <1>1 DEF WorkType
      <4> QED BY <1>1, <3>1, <3>2, <4>1 DEF StopProcess
    <3> QED BY <3>1, <3>2, StopProcessEffect
  <2> QED BY <1>5, <2>1 DEF Lifecycle, Signal, BeginShutdown, CloseChannel, Restart
<1>6. ASSUME NEW t \in Server, NEW r \in Request, Handler(t, r) PROVE UNCHANGED work
  BY <1>6 DEF Handler, CreateCheck, CreateReject, CreateSave, CreatePush, CreateAbandon,
     DelegatePost, DelegateOk, DelegateFail, DelegateUndo, DispatchRead, DispatchUpdate, DispatchPush
<1>7. ASSUME NEW t \in Server, RetryScheduler(t) PROVE UNCHANGED work
  BY <1>7 DEF RetryScheduler, PollClaim, PollClaimLost, PollNext, PollPush, PollExit
<1>8. ASSUME NEW x \in Id, Environment(x) PROVE UNCHANGED work
  BY <1>8 DEF Environment, BackoffElapses, TaskStored, TaskRefused
<1> QED BY <1>2, <1>4, <1>5, <1>6, <1>7, <1>8 DEF Next

\* Nothing leaves the archive, and only a claim, which makes the row
\* PROCESSING, takes a notification out of the history of losses.
LEMMA ArchiveGrows ==
  ASSUME TypeOK, Next, NEW id \in Id, rows'[id].status = "DLQ"
  PROVE  /\ id \in dlq => id \in dlq'
         /\ id \in dropped => id \in dropped'
<1>1. ASSUME NEW s \in Server, NEW r \in Request, Handler(s, r)
      PROVE  dlq \subseteq dlq' /\ dropped \subseteq dropped'
  BY <1>1 DEF Handler, CreateCheck, CreateReject, CreateSave, CreatePush, CreateAbandon,
     DelegatePost, DelegateOk, DelegateFail, DelegateUndo, DispatchRead, DispatchUpdate, DispatchPush, UpdateFails
<1>2. ASSUME NEW s \in Server, NEW w \in Worker, WorkerTake(s, w) \/ WorkerExit(s, w) \/ Process(s, w)
      PROVE  dlq \subseteq dlq' /\ dropped \subseteq dropped'
  BY <1>2 DEF WorkerTake, WorkerExit, Process, ProcessPanic, ProcessStart, ProcessSend, ProcessSent,
     ProcessRetry, ProcessDead, ProcessArchive, UpdateFails
<1>3. ASSUME NEW s \in Server, PollClaim(s)
      PROVE  dlq' = dlq /\ (id \in dropped => id \in dropped')
  <2>1. PICK S \in SUBSET Id : ClaimRows(S) /\ dropped' = dropped \ S
    BY <1>3 DEF PollClaim
  <2>2. id \notin S
    BY <2>1, ClaimRowsEffect DEF TypeOK
  <2> QED BY <1>3, <2>1, <2>2 DEF PollClaim
<1>4. ASSUME NEW s \in Server,
             PollClaimLost(s) \/ PollNext(s) \/ PollPush(s) \/ PollExit(s) \/ Lifecycle(s)
      PROVE  dlq \subseteq dlq' /\ dropped \subseteq dropped'
  BY <1>4 DEF PollClaimLost, PollNext, PollPush, PollExit,
     Lifecycle, Signal, BeginShutdown, CloseChannel, Restart, Exit, Crash, StopProcess
<1>5. ASSUME NEW x \in Id, Environment(x)
      PROVE  dlq \subseteq dlq' /\ dropped \subseteq dropped'
  BY <1>5 DEF Environment, BackoffElapses, TaskStored, TaskRefused
<1> QED BY <1>1, <1>2, <1>3, <1>4, <1>5 DEF Next, RetryScheduler

\* Only ProcessDead writes a DLQ row with a positive retry count.
LEMMA OnlyProcessDead ==
  ASSUME TypeOK, BudgetInv, Next, NEW id \in Id,
         rows'[id].status = "DLQ", rows'[id].retry > 0,
         ~(rows[id].status = "DLQ" /\ rows[id].retry > 0)
  PROVE  Archiving(id)'
<1>0. StoreType /\ WorkType
  BY DEF TypeOK
<1>1. ASSUME NEW n \in Copy, NEW status \in Status, NEW due \in BOOLEAN,
             WriteRow(n, status, due)
      PROVE  status = "DLQ" /\ n.id = id /\ n.retry > 0
  BY <1>0, <1>1, WriteRowEffect
<1>2. rows' # rows
  OBVIOUS
<1>3. ASSUME NEW s \in Server, NEW r \in Request, Handler(s, r) PROVE FALSE
  <2>1. CASE CreateSave(s, r)
    <3>1. PICK x \in Id :
            WriteRow([id |-> x, retry |-> 0],
                     IF req[s][r].mode = "later" THEN "SCHEDULED" ELSE "PENDING",
                     ~(req[s][r].mode = "later"))
      BY <2>1 DEF CreateSave
    <3>2. [id |-> x, retry |-> 0] \in Copy
      BY DEF Copy
    <3> QED BY <1>1, <3>1, <3>2 DEF Status
  <2>2. CASE DelegateUndo(s, r)
    <3>1. PICK n \in Copy : n = req[s][r].n
      BY <2>2, HoldsCopy DEF DelegateUndo
    <3>2. n.retry = 0
      BY <2>2, <3>1 DEF DelegateUndo, BudgetInv, ReqBudget
    <3>3. WriteRow(n, "DLQ", FALSE)
      BY <1>2, <2>2, <3>1 DEF DelegateUndo, UpdateFails
    <3>4. n.retry > 0
      BY <1>1, <3>3 DEF Status
    <3> QED BY <3>2, <3>4
  <2>3. CASE DispatchUpdate(s, r)
    BY <1>1, <1>2, <2>3, HoldsCopy DEF DispatchUpdate, Status
  <2> QED BY <1>2, <1>3, <2>1, <2>2, <2>3 DEF Handler, CreateCheck, CreateReject, CreatePush,
             CreateAbandon, DelegatePost, DelegateOk, DelegateFail, DispatchRead, DispatchPush
<1>4. ASSUME NEW s \in Server, NEW w \in Worker, WorkerTake(s, w) \/ WorkerExit(s, w) \/ Process(s, w)
      PROVE  Archiving(id)'
  <2>1. CASE ProcessStart(s, w) \/ ProcessRetry(s, w) \/ ProcessSent(s, w)
    BY <1>1, <1>2, <2>1, HoldsCopy DEF ProcessStart, ProcessRetry, ProcessSent, UpdateFails, Status
  <2>2. CASE ProcessDead(s, w)
    <3>1. PICK n \in Copy : n = work[s][w].n
      BY <2>2, HoldsCopy DEF ProcessDead
    <3>2. WriteRow(n, "DLQ", TRUE)
      BY <1>2, <2>2, <3>1 DEF ProcessDead, UpdateFails
    <3>3. n.id = id
      BY <1>1, <3>2 DEF Status
    <3>4. work'[s][w].pc = "archive" /\ work'[s][w].n = n
      BY <1>0, <2>2, <3>1, NoCopyIsNoCopy, SetWorkEffect DEF ProcessDead, WorkerPc
    <3> QED BY <3>3, <3>4 DEF Archiving
  <2> QED BY <1>2, <1>4, <2>1, <2>2 DEF WorkerTake, WorkerExit, Process, ProcessPanic, ProcessSend, ProcessArchive
<1>5. ASSUME NEW s \in Server, RetryScheduler(s) PROVE FALSE
  <2>1. ASSUME NEW S \in SUBSET Id, ClaimRows(S) PROVE FALSE
    BY <1>0, <2>1, ClaimRowsEffect
  <2> QED BY <1>2, <1>5, <2>1 DEF RetryScheduler, PollClaim, PollClaimLost, PollNext, PollPush, PollExit
<1>6. ASSUME NEW s \in Server, Lifecycle(s) PROVE FALSE
  BY <1>2, <1>6 DEF Lifecycle, Signal, BeginShutdown, CloseChannel, Restart, Exit, Crash, StopProcess
<1>7. ASSUME NEW x \in Id, Environment(x) PROVE FALSE
  BY <1>7, BackoffEffect
<1> QED BY <1>3, <1>4, <1>5, <1>6, <1>7 DEF Next

\* A notification that exhausted its retries is in the dead-letter archive or
\* on its way there, unless its INSERT failed or its process ended.
THEOREM DeadLettersKept == Spec => []DeadLettersArchived
<1>1. Init => DeadLettersArchived
  BY DEF Init, DeadLettersArchived
<1>2. TypeOK /\ BudgetInv /\ DeadLettersArchived /\ [Next]_vars => DeadLettersArchived'
  <2> SUFFICES ASSUME TypeOK, BudgetInv, DeadLettersArchived, [Next]_vars
               PROVE  DeadLettersArchived'
    OBVIOUS
  <2>1. CASE UNCHANGED vars
    BY <2>1 DEF vars, DeadLettersArchived
  <2>2. CASE Next
    <3> SUFFICES ASSUME NEW id \in Id, rows'[id].status = "DLQ", rows'[id].retry > 0
                 PROVE  id \in dlq' \/ Archiving(id)' \/ id \in dropped'
      BY DEF DeadLettersArchived, Archiving
    <3>1. CASE rows[id].status = "DLQ" /\ rows[id].retry > 0
      <4>1. id \in dlq \/ Archiving(id) \/ id \in dropped
        BY <3>1 DEF DeadLettersArchived, Archiving
      <4> QED BY <2>2, <4>1, ArchiveGrows, ArchivingEnds
    <3>2. CASE ~(rows[id].status = "DLQ" /\ rows[id].retry > 0)
      BY <2>2, <3>2, OnlyProcessDead
    <3> QED BY <3>1, <3>2
  <2> QED BY <2>1, <2>2
<1> QED BY <1>1, <1>2, TypeCorrect, BudgetInvariant, PTL DEF Spec
=============================================================================
