----------------------------- MODULE AsyncTaskq -----------------------------
(***************************************************************************)
(* The queue through which other threads give a worker a task              *)
(* (async_taskq.cpp): pushers append to writeq under a mutex and notify the *)
(* worker through an eventfd, once per batch; the worker swaps the two     *)
(* queues and runs at most Batch tasks each time the eventfd is readable.  *)
(***************************************************************************)
EXTENDS Naturals, Sequences

CONSTANTS Task,     \* each is pushed once
          Batch     \* 64: tasks run per event

ASSUME AsyncTaskqAssumption == Batch \in Nat \ {0}

VARIABLES readq, writeq,    \* the two ring queues
          notified,         \* std::atomic<int>
          efd,              \* counter of the eventfd, readable when not 0
          push,             \* where the push of each task is
          wpc,              \* where the worker is in on_read
          left,             \* tasks it still runs in this batch
          done              \* history: tasks run, in that order

vars == <<readq, writeq, notified, efd, push, wpc, left, done>>

Init ==
    /\ readq = <<>> /\ writeq = <<>> /\ notified = 0 /\ efd = 0
    /\ push = [t \in Task |-> "new"]
    /\ wpc = "poll" /\ left = 0 /\ done = <<>>

----------------------------------------------------------------------------
(* push                                                                    *)

PushTask(t) ==
    /\ push[t] = "new"
    /\ writeq' = Append(writeq, t)
    /\ push' = [push EXCEPT ![t] = "cas"]
    /\ UNCHANGED <<readq, notified, efd, wpc, left, done>>

\* compare_exchange_strong: only the one that finds 0 writes
Cas(t) ==
    /\ push[t] = "cas"
    /\ notified' = 1
    /\ push' = [push EXCEPT ![t] = IF notified = 0 THEN "write" ELSE "pushed"]
    /\ UNCHANGED <<readq, writeq, efd, wpc, left, done>>

WriteEfd(t) ==
    /\ push[t] = "write"
    /\ efd' = efd + 1
    /\ push' = [push EXCEPT ![t] = "pushed"]
    /\ UNCHANGED <<readq, writeq, notified, wpc, left, done>>

----------------------------------------------------------------------------
(* on_read                                                                 *)

\* (mutant) no limit on the tasks of one event
SwapAll ==
    /\ wpc = "poll" /\ efd > 0
    /\ IF readq = <<>> THEN readq' = writeq /\ writeq' = <<>> ELSE UNCHANGED <<readq, writeq>>
    /\ left' = Len(readq')
    /\ wpc' = "run"
    /\ UNCHANGED <<notified, efd, push, done>>

\* (mutant) the queues are swapped even if tasks are left
SwapAlways ==
    /\ wpc = "poll" /\ efd > 0
    /\ readq' = writeq /\ writeq' = readq
    /\ left' = IF Len(readq') < Batch THEN Len(readq') ELSE Batch
    /\ wpc' = "run"
    /\ UNCHANGED <<notified, efd, push, done>>

\* epoll reports the eventfd; readq is refilled when it is empty
Swap ==
    /\ wpc = "poll" /\ efd > 0
    /\ IF readq = <<>> THEN readq' = writeq /\ writeq' = <<>> ELSE UNCHANGED <<readq, writeq>>
    /\ left' = IF Len(readq') < Batch THEN Len(readq') ELSE Batch
    /\ wpc' = "run"
    /\ UNCHANGED <<notified, efd, push, done>>

RunTask ==
    /\ wpc = "run" /\ left > 0
    /\ done' = Append(done, Head(readq)) /\ readq' = Tail(readq)
    /\ left' = left - 1
    /\ UNCHANGED <<writeq, notified, efd, push, wpc>>

\* (mutant) the eventfd is read although tasks are left
EndBatchReads ==
    /\ wpc = "run" /\ left = 0
    /\ wpc' = "read"
    /\ UNCHANGED <<readq, writeq, notified, efd, push, left, done>>

\* tasks left: the eventfd stays readable
EndBatch ==
    /\ wpc = "run" /\ left = 0
    /\ wpc' = IF readq # <<>> THEN "poll" ELSE "read"
    /\ UNCHANGED <<readq, writeq, notified, efd, push, left, done>>

ReadEfd ==
    /\ wpc = "read"
    /\ efd' = 0 /\ wpc' = "store"
    /\ UNCHANGED <<readq, writeq, notified, push, left, done>>

\* (mutant) notified is not cleared
StoreNothing ==
    /\ wpc = "store"
    /\ wpc' = "poll"
    /\ UNCHANGED <<readq, writeq, notified, efd, push, left, done>>

Store ==
    /\ wpc = "store"
    /\ notified' = 0 /\ wpc' = "poll"
    /\ UNCHANGED <<readq, writeq, efd, push, left, done>>

Pushing(t) == PushTask(t) \/ Cas(t) \/ WriteEfd(t)
OnRead     == Swap \/ RunTask \/ EndBatch \/ ReadEfd \/ Store

Next == OnRead \/ \E t \in Task : Pushing(t)

Spec == Init /\ [][Next]_vars

\* The threads run, and epoll_wait returns while the eventfd is readable.
FairSpec == Spec /\ WF_vars(OnRead) /\ \A t \in Task : WF_vars(Cas(t)) /\ WF_vars(WriteEfd(t))

----------------------------------------------------------------------------
(* Properties                                                              *)

\* Every variable has its type.
TypeOK ==
    /\ readq \in Seq(Task) /\ writeq \in Seq(Task) /\ done \in Seq(Task)
    /\ notified \in {0, 1} /\ efd \in Nat /\ left \in 0..Batch
    /\ push \in [Task -> {"new", "cas", "write", "pushed"}]
    /\ wpc \in {"poll", "run", "read", "store"}

\* pushers about to write the eventfd
Writers == {t \in Task : push[t] = "write"}

\* The notification is never lost for good: while notified is set exactly one party
\* acts on it (a pusher about to write, the readable eventfd, the worker about to
\* clear it), so that a later push can notify again.
NotifyOwned ==
    /\ \A s, t \in Writers : s = t
    /\ wpc \in {"run", "read"} => efd = 1
    /\ efd \in {0, 1} /\ notified \in {0, 1}
    /\ Writers # {} => efd = 0 /\ wpc = "poll"
    /\ wpc = "store" => efd = 0
    /\ notified = 1 <=> Writers # {} \/ efd = 1 \/ wpc = "store"

\* The worker runs each task at most once in push order: TaskQueue, with the two
\* queues in a row as the queue.
Abstract == INSTANCE TaskQueue WITH queue <- readq \o writeq
Fifo     == Abstract!TSpec

\* A push that finds notified clear wakes the worker for every task in the queue,
\* its own and those whose pushes were too late for the batch before: all are run,
\* however many batches it takes.
WokenTasksRun ==
    \A t \in Task :
        (push[t] # "new" /\ Writers # {}) ~> (\E i \in DOMAIN done : done[i] = t)

============================================================================
