----------------------------- MODULE TaskQueue -----------------------------
(***************************************************************************)
(* What the task queue of a worker promises to other threads: every task   *)
(* pushed is run by the worker at most once, in the order of the pushes.   *)
(***************************************************************************)
EXTENDS Sequences

CONSTANTS Task

VARIABLES queue,    \* pushed, not run
          done      \* run, in that order

tvars == <<queue, done>>

TInit == queue = <<>> /\ done = <<>>

TPush(t) == queue' = Append(queue, t) /\ UNCHANGED done

TRun == /\ queue # <<>>
        /\ queue' = Tail(queue) /\ done' = Append(done, Head(queue))

TNext == (\E t \in Task : TPush(t)) \/ TRun

TSpec == TInit /\ [][TNext]_tvars
============================================================================
