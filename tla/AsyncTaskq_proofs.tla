-------------------------- MODULE AsyncTaskq_proofs --------------------------
(***************************************************************************)
(* The queue of AsyncTaskq never loses its notification for good, and it   *)
(* implements TaskQueue, for any set of tasks, batch size and number of    *)
(* pushing threads.                                                        *)
(***************************************************************************)
EXTENDS AsyncTaskq, TLAPS

\* Within a batch the worker never runs more tasks than readq holds.
LeftInReadq == wpc = "run" => left <= Len(readq)

IInv == TypeOK /\ NotifyOwned /\ LeftInReadq

----------------------------------------------------------------------------

\* The queues start empty and nobody notifies.
LEMMA InitIInv == Init => IInv
  BY AsyncTaskqAssumption DEF Init, IInv, TypeOK, NotifyOwned, LeftInReadq, Writers

\* A push keeps the invariant: the one compare-and-swap that finds 0 becomes the
\* only writer, and it finds 0 only while nobody else acts on a notification.
LEMMA PushKeeps == ASSUME IInv, NEW t \in Task, Pushing(t)  PROVE IInv'
  <1> USE DEF IInv, TypeOK, NotifyOwned, LeftInReadq, Writers
  <1>1. CASE PushTask(t)
    BY <1>1 DEF PushTask
  <1>2. CASE Cas(t)
    <2>1. CASE notified = 0
      BY <1>2, <2>1 DEF Cas
    <2>2. CASE notified = 1
      BY <1>2, <2>2 DEF Cas
    <2> QED BY <2>1, <2>2
  <1>3. CASE WriteEfd(t)
    <2>1. efd = 0 /\ wpc = "poll" /\ notified = 1
      BY <1>3 DEF WriteEfd
    <2>2. \A s \in Task : push'[s] # "write"
      BY <1>3 DEF WriteEfd
    <2>3. TypeOK' /\ LeftInReadq'
      BY <1>3, <2>1 DEF WriteEfd
    <2> QED BY <1>3, <2>1, <2>2, <2>3 DEF WriteEfd
  <1> QED BY <1>1, <1>2, <1>3 DEF Pushing

\* A step of on_read keeps the invariant.
LEMMA OnReadKeeps == ASSUME IInv, OnRead  PROVE IInv'
  <1> USE AsyncTaskqAssumption DEF IInv, TypeOK, NotifyOwned, LeftInReadq, Writers
  <1>1. CASE Swap
    <2>1. readq' \in Seq(Task) /\ writeq' \in Seq(Task) /\ efd = 1
      BY <1>1 DEF Swap
    <2>2. Len(readq') \in Nat
      BY <2>1
    <2>3. left' \in 0..Batch /\ left' <= Len(readq')
      BY <1>1, <2>2 DEF Swap
    <2> QED BY <1>1, <2>1, <2>3 DEF Swap
  <1>2. CASE RunTask
    <2>1. readq # <<>>
      BY <1>2 DEF RunTask
    <2>2. Head(readq) \in Task /\ Tail(readq) \in Seq(Task) /\ Len(Tail(readq)) = Len(readq) - 1
      BY <2>1
    <2>3. Append(done, Head(readq)) \in Seq(Task)
      BY <2>2
    <2> QED BY <1>2, <2>2, <2>3 DEF RunTask
  <1>3. CASE EndBatch
    BY <1>3 DEF EndBatch
  <1>4. CASE ReadEfd
    BY <1>4 DEF ReadEfd
  <1>5. CASE Store
    BY <1>5 DEF Store
  <1> QED BY <1>1, <1>2, <1>3, <1>4, <1>5 DEF OnRead

\* IInv is an inductive invariant.
LEMMA Invariance == Spec => []IInv
  <1>1. IInv /\ [Next]_vars => IInv'
    <2> SUFFICES ASSUME IInv, [Next]_vars  PROVE IInv'
      OBVIOUS
    <2>1. CASE UNCHANGED vars
      BY <2>1 DEF vars, IInv, TypeOK, NotifyOwned, LeftInReadq, Writers
    <2>2. CASE OnRead
      BY <2>2, OnReadKeeps
    <2>3. ASSUME NEW t \in Task, Pushing(t)  PROVE IInv'
      BY <2>3, PushKeeps
    <2> QED BY <2>1, <2>2, <2>3 DEF Next
  <1> QED BY <1>1, InitIInv, PTL DEF Spec

\* Every variable keeps its type: the batch counter and both queues of
\* async_taskq::on_read stay in range.
THEOREM TypeCorrect == Spec => []TypeOK
  BY Invariance, PTL DEF IInv

\* Whenever notified is set exactly one party acts on it (async_taskq.cpp:37-43, 66-69):
\* the queue cannot get stuck with a flag that keeps every later push silent.
THEOREM NotificationNeverStuck == Spec => []NotifyOwned
  BY Invariance, PTL DEF IInv

----------------------------------------------------------------------------

\* A step of the two queues is a step of the one queue they implement.
LEMMA StepImplements ==
    ASSUME IInv, [Next]_vars  PROVE [Abstract!TNext]_(Abstract!tvars)
  <1> USE DEF IInv, TypeOK, LeftInReadq, Abstract!tvars
  <1>1. CASE UNCHANGED vars
    BY <1>1 DEF vars
  <1>2. ASSUME NEW t \in Task, PushTask(t)  PROVE Abstract!TPush(t)
    <2>1. readq \o Append(writeq, t) = Append(readq \o writeq, t)
      OBVIOUS
    <2> QED BY <1>2, <2>1 DEF PushTask, Abstract!TPush
  <1>3. ASSUME NEW t \in Task, Cas(t) \/ WriteEfd(t)  PROVE UNCHANGED Abstract!tvars
    BY <1>3 DEF Cas, WriteEfd
  <1>4. CASE Swap
    <2>1. <<>> \o writeq = writeq /\ writeq \o <<>> = writeq
      OBVIOUS
    <2>2. readq' \o writeq' = readq \o writeq
      BY <1>4, <2>1 DEF Swap
    <2> QED BY <1>4, <2>2 DEF Swap
  <1>5. CASE RunTask
    <2>1. readq # <<>>
      BY <1>5 DEF RunTask
    <2>2. /\ readq \o writeq # <<>>
          /\ Head(readq \o writeq) = Head(readq)
          /\ Tail(readq \o writeq) = Tail(readq) \o writeq
      BY <2>1
    <2> QED BY <1>5, <2>2 DEF RunTask, Abstract!TNext, Abstract!TRun
  <1>6. CASE EndBatch \/ ReadEfd \/ Store
    BY <1>6 DEF EndBatch, ReadEfd, Store
  <1> QED BY <1>1, <1>2, <1>3, <1>4, <1>5, <1>6
          DEF Next, OnRead, Pushing, Abstract!TNext

\* The pair of ring queues with its batches is one FIFO queue: the worker runs every
\* task at most once, in push order (async_taskq.cpp:32-70).
THEOREM RunsInPushOrder == Spec => Fifo
  <1>1. Init => Abstract!TInit
    BY DEF Init, Abstract!TInit
  <1>2. IInv /\ [Next]_vars => [Abstract!TNext]_(Abstract!tvars)
    BY StepImplements
  <1> QED BY <1>1, <1>2, Invariance, PTL DEF Spec, Fifo, Abstract!TSpec
============================================================================
