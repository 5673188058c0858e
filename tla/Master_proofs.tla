---------------------------- MODULE Master_proofs ----------------------------
(***************************************************************************)
(* The master knows every worker that lives, and two live at most, for any  *)
(* number of processes and any sets of events in which reloads and crashes  *)
(* do not come together.                                                   *)
(*                                                                         *)
(* The two cases have little in common, so each has its invariant.  Without *)
(* reloads the master has one worker, the one it forked last.  Without      *)
(* crashes the hard part is that the current worker is never killed by the   *)
(* SIGUSR1 meant for the old one: it would be respawned, and a reload during *)
(* the 50 ms before would leave a worker nobody knows.                      *)
(***************************************************************************)
EXTENDS Master, FiniteSetTheorems, TLAPS

\* Without reloads.
AloneInv ==
    /\ "HUP" \notin pending /\ shutdown_child_pid = None /\ told = {}
    /\ \A p \in Pid : Alive(p) => p = forked /\ mpc \notin {"fork", "usleep"}
    /\ mpc = "wait" => child_pid = forked

\* Without crashes: before fork has been called, before its result is stored, and after.
NewBorn(p) == worker[p] \in {"starting", "halted"}

ForkInv ==
    /\ child_pid = None /\ shutdown_child_pid = None /\ told = {} /\ "USR1" \notin pending
    /\ \A p \in Pid : worker[p] = "unused"

AssignInv ==
    /\ child_pid = None /\ shutdown_child_pid = None /\ told = {} /\ forked # None
    /\ \A p \in Pid : /\ Alive(p) => p = forked
                      /\ worker[p] # "signaled"
    /\ forked = Failed => "USR1" \notin pending

\* A worker that is killed, or told to stop before it serves, is the old one.  -1 as the
\* old one means everybody, but then the one worker that lives has started itself.
WaitInv ==
    /\ child_pid # None
    /\ \A p \in Pid : /\ Alive(p) => p \in {child_pid, shutdown_child_pid}
                      /\ worker[p] = "signaled" => p = shutdown_child_pid
    /\ \A p \in told : Alive(p) /\ (p = shutdown_child_pid
                                    \/ (shutdown_child_pid = Failed /\ ~NewBorn(p)))
    /\ shutdown_child_pid = Failed /\ "USR1" \in pending => \A p \in Pid : ~NewBorn(p)
    /\ child_pid = Failed =>
         /\ "USR1" \notin pending /\ shutdown_child_pid \notin Pid
         /\ \A p \in Pid : ~Alive(p)

ExitedInv ==
    \/ \A p \in Pid : Alive(p) => p \in {child_pid, shutdown_child_pid}
    \/ \A p \in Pid : Alive(p) => p = forked

CalmInv ==
    /\ mpc # "usleep"
    /\ mpc = "fork" => ForkInv
    /\ mpc = "assign" => AssignInv
    /\ mpc = "wait" => WaitInv
    /\ mpc = "exited" => ExitedInv

MInv ==
    /\ TypeOK
    /\ "reload" \notin events => AloneInv
    /\ "crash" \notin events => CalmInv

----------------------------------------------------------------------------
(* Types                                                                   *)

LEMMA TypeStep == MasterAssumption /\ TypeOK /\ [Next]_mvars => TypeOK'
<1>. SUFFICES ASSUME MasterAssumption, TypeOK, [Next]_mvars PROVE TypeOK'
    OBVIOUS
<1>. USE DEF TypeOK, WorkerState, WorkerUnchanged, EndedBy
<1>1. CASE Fork
    BY <1>1 DEF Fork
<1>2. CASE Assign
    BY <1>2 DEF Assign
<1>3. CASE Usleep
    BY <1>3 DEF Usleep
<1>4. CASE WaitNoChild
    BY <1>4 DEF WaitNoChild
<1>5. ASSUME NEW p \in Pid, WaitOld(p) \/ WaitExited(p) \/ WaitSignaled(p)
      PROVE  TypeOK'
    BY <1>5 DEF WaitOld, WaitExited, WaitSignaled, Reap
<1>6. CASE ReloadWorker
    BY <1>6 DEF ReloadWorker, Handle
<1>7. CASE NewWorkerStartOk
    BY <1>7 DEF NewWorkerStartOk, Handle, Receivers
<1>8. CASE MasterShutdown
    BY <1>8 DEF MasterShutdown, Handle
<1>9. ASSUME NEW p \in Pid, StartOk(p) \/ DrainedExit(p)
      PROVE  TypeOK'
    BY <1>9 DEF StartOk, DrainedExit
<1>10. ASSUME NEW p \in Pid, LetWorkerShutdown(p)
       PROVE  TypeOK'
    BY <1>10 DEF LetWorkerShutdown
<1>11. ASSUME NEW p \in Pid, StartFails(p) \/ AdminShutdown(p) \/ WorkerCrash(p)
       PROVE  TypeOK'
    BY <1>11 DEF StartFails, AdminShutdown, WorkerCrash
<1>12. CASE SendHup \/ SendTerm
    BY <1>12 DEF SendHup, SendTerm, Send
<1>13. CASE UNCHANGED mvars
    BY <1>13 DEF mvars
<1>. QED
    BY <1>1, <1>2, <1>3, <1>4, <1>5, <1>6, <1>7, <1>8, <1>9, <1>10, <1>11, <1>12, <1>13
       DEF Next, MainStep, WorkerStep

LEMMA EventsFixed == [Next]_mvars => events' = events
BY DEF Next, MainStep, WorkerStep, mvars, Fork, Assign, Usleep, WaitNoChild, WaitOld, WaitExited,
       WaitSignaled, ReloadWorker, NewWorkerStartOk, MasterShutdown, StartOk, DrainedExit,
       LetWorkerShutdown, StartFails, AdminShutdown, WorkerCrash, SendHup, SendTerm, Send,
       WorkerUnchanged

----------------------------------------------------------------------------
(* Without reloads                                                         *)

LEMMA AloneStep ==
    ASSUME MasterAssumption, TypeOK, AloneInv, "reload" \notin events, [Next]_mvars
    PROVE  AloneInv'
<1>. USE DEF TypeOK, AloneInv, Alive
<1>1. CASE Fork
    BY <1>1 DEF Fork
<1>2. CASE Assign
    BY <1>2 DEF Assign
<1>3. CASE Usleep
    BY <1>3 DEF Usleep
<1>4. CASE WaitNoChild
    BY <1>4 DEF WaitNoChild
<1>5. ASSUME NEW p \in Pid, WaitOld(p)
      PROVE  AloneInv'
    BY <1>5 DEF WaitOld, MasterAssumption
<1>6. ASSUME NEW p \in Pid, WaitExited(p)
      PROVE  AloneInv'
    BY <1>6 DEF WaitExited, Reap
<1>7. ASSUME NEW p \in Pid, WaitSignaled(p)
      PROVE  AloneInv'
    BY <1>7 DEF WaitSignaled, Reap
<1>8. CASE ReloadWorker
    BY <1>8 DEF ReloadWorker, Handle
<1>9. CASE NewWorkerStartOk
    BY <1>9 DEF NewWorkerStartOk, Handle
<1>10. CASE MasterShutdown
    BY <1>10 DEF MasterShutdown, Handle
<1>11. ASSUME NEW p \in Pid, StartOk(p)
       PROVE  AloneInv'
    BY <1>11 DEF StartOk, WorkerUnchanged
<1>12. ASSUME NEW p \in Pid, LetWorkerShutdown(p)
       PROVE  AloneInv'
    BY <1>12 DEF LetWorkerShutdown
<1>13. ASSUME NEW p \in Pid,
              DrainedExit(p) \/ StartFails(p) \/ AdminShutdown(p) \/ WorkerCrash(p)
       PROVE  AloneInv'
    BY <1>13 DEF DrainedExit, StartFails, AdminShutdown, WorkerCrash, EndedBy, WorkerUnchanged
<1>14. CASE SendHup \/ SendTerm
    BY <1>14 DEF SendHup, SendTerm, Send, WorkerUnchanged
<1>15. CASE UNCHANGED mvars
    BY <1>15 DEF mvars
<1>. QED
    BY <1>1, <1>2, <1>3, <1>4, <1>5, <1>6, <1>7, <1>8, <1>9, <1>10, <1>11, <1>12, <1>13, <1>14,
       <1>15 DEF Next, MainStep, WorkerStep

----------------------------------------------------------------------------
(* Without crashes                                                         *)

\* The steps of master_run.
LEMMA CalmMain ==
    ASSUME MasterAssumption, TypeOK, CalmInv, MainStep
    PROVE  CalmInv'
<1>. USE DEF TypeOK, CalmInv, Alive, NewBorn, MasterAssumption
<1>1. CASE Fork
  <2>1. ForkInv /\ mpc' = "assign"
      BY <1>1 DEF Fork
  <2>2. AssignInv'
      BY <1>1, <2>1 DEF Fork, ForkInv, AssignInv
  <2>. QED
      BY <2>1, <2>2
<1>2. CASE Assign
  <2>1. AssignInv /\ mpc' = "wait"
      BY <1>2 DEF Assign
  <2>2. WaitInv'
      BY <1>2, <2>1 DEF Assign, AssignInv, WaitInv
  <2>. QED
      BY <2>1, <2>2
<1>3. CASE Usleep
    BY <1>3 DEF Usleep
<1>4. CASE WaitNoChild
    BY <1>4 DEF WaitNoChild, WaitInv, ExitedInv
<1>5. ASSUME NEW p \in Pid, WaitOld(p)
      PROVE  CalmInv'
  <2>1. /\ WaitInv /\ mpc' = "wait" /\ ~Alive(p) /\ p = shutdown_child_pid
        /\ worker' = [worker EXCEPT ![p] = "reaped"] /\ shutdown_child_pid' = None
        /\ UNCHANGED <<mpc, child_pid, told, pending>>
      BY <1>5 DEF WaitOld, Reap, Zombie
  <2>2. told = {}
      BY <2>1 DEF WaitInv
  <2>3. WaitInv'
      BY <2>1, <2>2 DEF WaitInv
  <2>. QED
      BY <2>1, <2>3
<1>6. ASSUME NEW p \in Pid, WaitExited(p)
      PROVE  CalmInv'
    BY <1>6 DEF WaitExited, Reap, WaitInv, ExitedInv
<1>7. ASSUME NEW p \in Pid, WaitSignaled(p)
      PROVE  CalmInv'
    BY <1>7 DEF WaitSignaled, Reap, WaitInv
<1>. QED
    BY <1>1, <1>2, <1>3, <1>4, <1>5, <1>6, <1>7 DEF MainStep

\* The master's signal handlers, wherever it is.
LEMMA CalmHandlers ==
    ASSUME MasterAssumption, TypeOK, CalmInv,
           ReloadWorker \/ NewWorkerStartOk \/ MasterShutdown
    PROVE  CalmInv'
<1>. USE DEF TypeOK, CalmInv, Alive, NewBorn, MasterAssumption
<1>1. CASE ReloadWorker
  <2>. USE <1>1 DEF ReloadWorker, Handle, Up
  <2>1. CASE mpc = "fork"
      BY <2>1 DEF ForkInv
  <2>2. CASE mpc = "assign"
      BY <2>2 DEF AssignInv
  <2>3. CASE mpc = "wait" /\ (shutdown_child_pid \in Pid \/ child_pid = None)
      BY <2>3 DEF WaitInv
  <2>4. CASE mpc = "wait" /\ shutdown_child_pid \notin Pid /\ child_pid # None
    <3>1. WaitInv /\ mpc' = "wait" /\ shutdown_child_pid' = child_pid
          /\ told' = told /\ ("USR1" \in pending' => "USR1" \in pending)
        BY <2>4
    <3>2. \A q \in Pid : /\ worker[q] # "signaled" /\ (Alive(q) => q = child_pid)
        BY <2>4, <3>1 DEF WaitInv
    <3>3. \A q \in told : Alive(q) /\ q = child_pid
        BY <3>1, <3>2 DEF WaitInv
    <3>4. ASSUME NEW p \in Pid, worker[p] = "unused", child_pid' = p,
                 worker' = [worker EXCEPT ![p] = "starting"]
          PROVE  WaitInv'
        BY <3>1, <3>2, <3>3, <3>4 DEF WaitInv
    <3>5. CASE UNCHANGED <<child_pid, worker>>
        BY <3>1, <3>2, <3>3, <3>5 DEF WaitInv
    <3>. QED
        BY <2>4, <3>1, <3>4, <3>5
  <2>. QED
      BY <2>1, <2>2, <2>3, <2>4
<1>2. CASE NewWorkerStartOk
  <2>. USE <1>2 DEF NewWorkerStartOk, Handle, Up, Receivers
  <2>1. CASE mpc = "fork"
      BY <2>1 DEF ForkInv
  <2>2. CASE mpc = "assign"
      BY <2>2 DEF AssignInv
  <2>3. CASE mpc = "wait"
      BY <2>3 DEF WaitInv
  <2>. QED
      BY <2>1, <2>2, <2>3
<1>3. CASE MasterShutdown
  <2>1. /\ mpc' = "exited" /\ UNCHANGED <<child_pid, shutdown_child_pid, forked>>
        /\ \A p \in Pid : worker'[p] \in {worker[p], "signaled"}
      BY <1>3 DEF MasterShutdown
  <2>2. ExitedInv
      BY <1>3 DEF MasterShutdown, Handle, Up, ForkInv, AssignInv, WaitInv, ExitedInv
  <2>. QED
      BY <2>1, <2>2 DEF ExitedInv
<1>. QED
    BY <1>1, <1>2, <1>3

\* The worker processes.
LEMMA CalmWorkers ==
    ASSUME MasterAssumption, TypeOK, CalmInv, NEW p \in Pid,
           WorkerStep(p) \/ LetWorkerShutdown(p) \/ StartFails(p) \/ AdminShutdown(p)
    PROVE  CalmInv'
<1>. USE DEF TypeOK, CalmInv, Alive, NewBorn, MasterAssumption, WorkerUnchanged, EndedBy,
         ForkInv, AssignInv, ExitedInv
<1>1. CASE StartOk(p)
    BY <1>1 DEF StartOk, WaitInv
<1>2. CASE DrainedExit(p)
    BY <1>2 DEF DrainedExit, WaitInv
<1>3. CASE LetWorkerShutdown(p)
    BY <1>3 DEF LetWorkerShutdown, WaitInv
<1>4. CASE StartFails(p)
    BY <1>4 DEF StartFails, WaitInv
<1>5. CASE AdminShutdown(p)
    BY <1>5 DEF AdminShutdown, WaitInv
<1>. QED
    BY <1>1, <1>2, <1>3, <1>4, <1>5 DEF WorkerStep

LEMMA CalmStep ==
    ASSUME MasterAssumption, TypeOK, CalmInv, "crash" \notin events, [Next]_mvars
    PROVE  CalmInv'
<1>1. CASE SendHup \/ SendTerm
    BY <1>1 DEF SendHup, SendTerm, Send, WorkerUnchanged, CalmInv, ForkInv, AssignInv, WaitInv,
                ExitedInv, Alive, NewBorn
<1>2. CASE UNCHANGED mvars
    BY <1>2 DEF mvars, CalmInv, ForkInv, AssignInv, WaitInv, ExitedInv, Alive, NewBorn
<1>3. ~\E p \in Pid : WorkerCrash(p)
    BY DEF WorkerCrash
<1>. QED
    BY <1>1, <1>2, <1>3, CalmMain, CalmHandlers, CalmWorkers DEF Next

----------------------------------------------------------------------------
LEMMA MInvInit == MasterAssumption /\ Init => MInv
BY DEF MasterAssumption, Init, MInv, TypeOK, AloneInv, CalmInv, ForkInv, Alive, WorkerState

LEMMA MInvStep == MasterAssumption /\ MInv /\ [Next]_mvars => MInv'
BY TypeStep, AloneStep, CalmStep, EventsFixed DEF MInv

LEMMA MInvAlways == Spec => []MInv
<1>. USE MasterAssumption
<1>1. Init => MInv
    BY MInvInit
<1>2. MInv /\ [Next]_mvars => MInv'
    BY MInvStep
<1>. QED
    BY <1>1, <1>2, PTL DEF Spec

\* Every variable of the master and of its workers has its type.
THEOREM TypeCorrect == Spec => []TypeOK
<1>1. MInv => TypeOK
    BY DEF MInv
<1>. QED
    BY <1>1, MInvAlways, PTL

LEMMA Known == MInv => EveryWorkerKnown
<1>. SUFFICES ASSUME MInv, Up, ~CrashDuringReload, NEW p \in Pid, Alive(p)
              PROVE  p \in {child_pid, shutdown_child_pid} \/ (mpc = "assign" /\ p = forked)
    BY DEF EveryWorkerKnown
<1>1. mpc \in {"fork", "assign", "wait", "usleep"}
    BY DEF MInv, TypeOK, Up
<1>2. CASE "reload" \notin events
    BY <1>1, <1>2 DEF MInv, AloneInv
<1>3. CASE "crash" \notin events
    BY <1>1, <1>3 DEF MInv, CalmInv, ForkInv, AssignInv, WaitInv, Alive
<1>. QED
    BY <1>2, <1>3 DEF CrashDuringReload

\* The master never loses a worker (niubix.cpp:124-209): one that lives is the current one, the
\* one being replaced, or the one whose pid master_run is about to store.  For any number of
\* processes, signals, failing forks and configurations, if reloads and crashes do not
\* come together.
THEOREM EveryWorkerIsKnown == Spec => []EveryWorkerKnown
BY Known, MInvAlways, PTL

LEMMA SingletonIsSmall ==
    ASSUME NEW x, NEW S, S \subseteq {x}
    PROVE  IsFiniteSet({x}) /\ Cardinality({x}) = 1 /\ Cardinality(S) # 2
<1>1. IsFiniteSet({x}) /\ Cardinality({x}) = 1
    BY FS_Singleton
<1>2. Cardinality(S) <= 1 /\ Cardinality(S) \in Nat
    BY <1>1, FS_Subset, FS_CardinalityType
<1>. QED
    BY <1>1, <1>2

LEMMA PairIsSmall ==
    ASSUME NEW x, NEW y, NEW S, S \subseteq {x, y}
    PROVE  Cardinality(S) <= 2
<1>1. IsFiniteSet({x}) /\ Cardinality({x}) = 1
    BY FS_Singleton
<1>2. IsFiniteSet({x} \cup {y}) /\ Cardinality({x} \cup {y}) \in {1, 2}
    BY <1>1, FS_AddElement
<1>3. S \subseteq {x} \cup {y}
    OBVIOUS
<1>4. Cardinality(S) <= Cardinality({x} \cup {y}) /\ Cardinality(S) \in Nat
    BY <1>2, <1>3, FS_Subset, FS_CardinalityType
<1>. QED
    BY <1>2, <1>4

\* Two workers at most live, two only during a reload, and then these two are the ones in
\* child_pid and shutdown_child_pid (niubix.cpp:124-138).
THEOREM AtMostTwoWorkers == Spec => []ReloadIsBounded
<1>1. ASSUME MInv
      PROVE  ReloadIsBounded
  <2>. DEFINE live == {p \in Pid : Alive(p)}
  <2>. SUFFICES ASSUME ~CrashDuringReload
                PROVE  /\ Cardinality(live) <= 2
                       /\ Cardinality(live) = 2 /\ mpc \in {"wait", "usleep"}
                            => shutdown_child_pid \in live /\ child_pid \in live
      BY DEF ReloadIsBounded
  <2>1. \/ live \subseteq {child_pid, shutdown_child_pid}
        \/ live \subseteq {forked} /\ mpc \notin {"wait", "usleep"}
    <3>1. CASE "reload" \notin events
        BY <1>1, <3>1 DEF MInv, AloneInv
    <3>2. CASE "crash" \notin events
        BY <1>1, <3>2 DEF MInv, TypeOK, CalmInv, ForkInv, AssignInv, WaitInv, ExitedInv, Alive
    <3>. QED
        BY <3>1, <3>2 DEF CrashDuringReload
  <2>2. Cardinality(live) <= 2
    <3>1. live \subseteq {child_pid, shutdown_child_pid} \/ live \subseteq {forked, forked}
        BY <2>1
    <3>. HIDE DEF live
    <3>. QED
        BY <3>1, PairIsSmall
  <2>3. ASSUME Cardinality(live) = 2, mpc \in {"wait", "usleep"}
        PROVE  shutdown_child_pid \in live /\ child_pid \in live
    <3>1. live \subseteq {child_pid, shutdown_child_pid}
        BY <2>1, <2>3
    <3>. HIDE DEF live
    <3>2. ~(live \subseteq {child_pid}) /\ ~(live \subseteq {shutdown_child_pid})
        BY <2>3, SingletonIsSmall
    <3>. QED
        BY <3>1, <3>2
  <2>. QED
      BY <2>2, <2>3
<1>. QED
    BY <1>1, MInvAlways, PTL

----------------------------------------------------------------------------
(* A careful operator, who sends SIGHUP when all workers have started and   *)
(* where fork does not fail.  What must be shown is that a pending SIGUSR1   *)
(* is never an old worker's late report, so that the old one is told to      *)
(* stop when the new one serves, and that the new one is not told.          *)

Careful == {"early_reload", "crash", "admin_stop", "fork_fails"} \cap events = {}

CarefulInv ==
    /\ Up /\ "HUP" \in pending =>
          mpc = "wait" /\ "USR1" \notin pending /\ \A p \in Pid : ~NewBorn(p)
    /\ Up => \A p \in Pid : worker[p] # "halted"
    /\ mpc = "assign" => forked \in Pid /\ worker[forked] # "unused"
    /\ mpc = "wait" =>
          /\ child_pid \in Pid /\ worker[child_pid] # "unused"
          /\ child_pid # shutdown_child_pid /\ shutdown_child_pid # Failed
          /\ \A p \in Pid : NewBorn(p) => p = child_pid
          /\ shutdown_child_pid # None /\ ("USR1" \in pending \/ told # {})
                => worker[child_pid] = "running"

LEMMA CarefulMain ==
    ASSUME MasterAssumption, TypeOK, CalmInv, CarefulInv, Careful, MainStep
    PROVE  CarefulInv'
<1>. USE DEF TypeOK, CarefulInv, NewBorn, Alive, Up, MasterAssumption
<1>1. CASE Fork
    BY <1>1 DEF Fork, Careful, CalmInv, ForkInv
<1>2. CASE Assign
    BY <1>2 DEF Assign, CalmInv, AssignInv
<1>3. CASE Usleep
    BY <1>3 DEF Usleep, CalmInv
<1>4. CASE WaitNoChild
    BY <1>4 DEF WaitNoChild
<1>5. ASSUME NEW p \in Pid, WaitOld(p)
      PROVE  CarefulInv'
    BY <1>5 DEF WaitOld, Reap, Zombie
<1>6. ASSUME NEW p \in Pid, WaitExited(p)
      PROVE  CarefulInv'
    BY <1>6 DEF WaitExited, Reap
<1>7. ASSUME NEW p \in Pid, WaitSignaled(p)
      PROVE  CarefulInv'
    BY <1>7 DEF WaitSignaled, Reap, CalmInv, WaitInv
<1>. QED
    BY <1>1, <1>2, <1>3, <1>4, <1>5, <1>6, <1>7 DEF MainStep

LEMMA CarefulHandlers ==
    ASSUME MasterAssumption, TypeOK, CalmInv, CarefulInv, Careful,
           ReloadWorker \/ NewWorkerStartOk \/ MasterShutdown
    PROVE  CarefulInv'
<1>. USE DEF TypeOK, CarefulInv, NewBorn, Alive, Up, MasterAssumption, Handle
<1>1. CASE ReloadWorker
  <2>1. mpc = "wait" /\ "USR1" \notin pending /\ \A p \in Pid : ~NewBorn(p)
      BY <1>1 DEF ReloadWorker
  <2>2. CASE shutdown_child_pid \in Pid \/ child_pid = None
      BY <1>1, <2>1, <2>2 DEF ReloadWorker
  <2>3. CASE shutdown_child_pid \notin Pid /\ child_pid # None
    <3>1. told = {}
        BY <2>1, <2>3 DEF CalmInv, WaitInv
    <3>. QED
        BY <1>1, <2>1, <2>3, <3>1 DEF ReloadWorker, Careful
  <2>. QED
      BY <2>2, <2>3
<1>2. CASE NewWorkerStartOk
    BY <1>2 DEF NewWorkerStartOk, CalmInv, ForkInv, AssignInv
<1>3. CASE MasterShutdown
    BY <1>3 DEF MasterShutdown
<1>. QED
    BY <1>1, <1>2, <1>3

\* Who is told to stop: the old worker, when the new one serves.
LEMMA ToldIsOld ==
    ASSUME MasterAssumption, TypeOK, CalmInv, CarefulInv, Up, NEW p \in told
    PROVE  /\ p = shutdown_child_pid /\ mpc = "wait" /\ ~NewBorn(p)
           /\ child_pid \in Pid /\ child_pid # p /\ worker[child_pid] = "running"
<1>1. mpc = "wait"
    BY DEF Up, CalmInv, ForkInv, AssignInv, TypeOK
<1>2. p = shutdown_child_pid
    BY <1>1 DEF CalmInv, WaitInv, CarefulInv
<1>. QED
    BY <1>1, <1>2 DEF CarefulInv, TypeOK, MasterAssumption

LEMMA CarefulWorkers ==
    ASSUME MasterAssumption, TypeOK, CalmInv, CarefulInv, Careful, NEW p \in Pid,
           WorkerStep(p) \/ LetWorkerShutdown(p) \/ StartFails(p)
    PROVE  CarefulInv'
<1>. USE DEF TypeOK, CarefulInv, NewBorn, Alive, Up, MasterAssumption, WorkerUnchanged, EndedBy
<1>1. CASE StartOk(p)
  <2>1. CASE mpc = "wait"
    <3>1. p = child_pid /\ worker[p] = "starting"
        BY <1>1, <2>1 DEF StartOk
    <3>. QED
        BY <1>1, <2>1, <3>1 DEF StartOk
  <2>2. CASE mpc # "wait"
      BY <1>1, <2>2 DEF StartOk
  <2>. QED
      BY <2>1, <2>2
<1>2. CASE DrainedExit(p)
    BY <1>2 DEF DrainedExit
<1>3. CASE LetWorkerShutdown(p)
  <2>1. CASE Up
    <3>1. mpc = "wait" /\ ~NewBorn(p) /\ child_pid # p /\ child_pid \in Pid
        BY <1>3, <2>1, ToldIsOld DEF LetWorkerShutdown
    <3>. QED
        BY <1>3, <2>1, <3>1 DEF LetWorkerShutdown
  <2>2. CASE ~Up
      BY <1>3, <2>2 DEF LetWorkerShutdown
  <2>. QED
      BY <2>1, <2>2
<1>4. CASE StartFails(p)
    BY <1>4 DEF StartFails
<1>. QED
    BY <1>1, <1>2, <1>3, <1>4 DEF WorkerStep

LEMMA CarefulStep ==
    ASSUME MasterAssumption, TypeOK, CalmInv, CarefulInv, Careful, [Next]_mvars
    PROVE  CarefulInv'
<1>. USE DEF CarefulInv, NewBorn, Up, WorkerUnchanged
<1>1. CASE SendHup
    BY <1>1 DEF SendHup, Send, Settled, Careful
<1>2. CASE SendTerm
    BY <1>2 DEF SendTerm, Send
<1>3. CASE UNCHANGED mvars
    BY <1>3 DEF mvars
<1>4. ~\E p \in Pid : WorkerCrash(p) \/ AdminShutdown(p)
    BY DEF WorkerCrash, AdminShutdown, Careful
<1>. QED
    BY <1>1, <1>2, <1>3, <1>4, CarefulMain, CarefulHandlers, CarefulWorkers DEF Next

\* Only LetWorkerShutdown takes a worker out of service, and then another one is there.
LEMMA CarefulServes ==
    ASSUME MasterAssumption, TypeOK, CalmInv, CarefulInv, Careful, [Next]_mvars,
           mpc' # "exited", Serving # {}
    PROVE  Serving' # {}
<1>. USE DEF Serving, TypeOK, WorkerUnchanged, EndedBy
<1>1. PICK s \in Pid : worker[s] = "running"
    OBVIOUS
<1>2. ASSUME NEW p \in Pid, LetWorkerShutdown(p)
      PROVE  Serving' # {}
  <2>1. child_pid \in Pid /\ child_pid # p /\ worker[child_pid] = "running"
      BY <1>2, ToldIsOld DEF LetWorkerShutdown, Up
  <2>. QED
      BY <1>2, <2>1 DEF LetWorkerShutdown
<1>3. CASE MainStep
    BY <1>1, <1>3 DEF MainStep, Fork, Assign, Usleep, WaitNoChild, WaitOld, WaitExited,
                      WaitSignaled, Reap, Zombie
<1>4. CASE ReloadWorker \/ NewWorkerStartOk \/ MasterShutdown
    BY <1>1, <1>4 DEF ReloadWorker, NewWorkerStartOk, MasterShutdown
<1>5. ASSUME NEW p \in Pid, WorkerStep(p) \/ StartFails(p)
      PROVE  Serving' # {}
    BY <1>1, <1>5 DEF WorkerStep, StartOk, DrainedExit, StartFails
<1>6. ~\E p \in Pid : WorkerCrash(p) \/ AdminShutdown(p)
    BY DEF WorkerCrash, AdminShutdown, Careful
<1>7. CASE SendHup \/ SendTerm \/ UNCHANGED mvars
    BY <1>1, <1>7 DEF SendHup, SendTerm, Send, mvars
<1>. QED
    BY <1>2, <1>3, <1>4, <1>5, <1>6, <1>7 DEF Next

\* Gracefully reload (README.md:158, niubix.cpp:294): once a worker serves, one keeps serving
\* through any number of reloads, merged and late signals and workers whose configuration
\* fails, for an operator who waits until every worker has started, until the master ends.
THEOREM CarefulReloadIsGraceful == Spec => CarefulReloadServes
<1>. DEFINE CInv == MInv /\ (Careful => CarefulInv)
<1>. USE MasterAssumption
<1>1. Init => CInv
    BY MInvInit DEF Init, CarefulInv
<1>2. CInv /\ [Next]_mvars => CInv'
  <2>. SUFFICES ASSUME CInv, [Next]_mvars PROVE CInv'
      OBVIOUS
  <2>1. MInv' /\ events' = events
      BY MInvStep, EventsFixed
  <2>2. ASSUME Careful PROVE CarefulInv'
      BY <2>2, CarefulStep DEF MInv, Careful
  <2>. QED
      BY <2>1, <2>2 DEF Careful
<1>3. ASSUME CInv, [Next]_mvars, Careful, mpc' # "exited", Serving # {}
      PROVE  Serving' # {}
    BY <1>3, CarefulServes DEF MInv, Careful
<1>4. CInv /\ [Next]_mvars =>
        [{"early_reload", "crash", "admin_stop", "fork_fails"} \cap events = {}
           => (mpc' # "exited" /\ Serving # {} => Serving' # {})]_mvars
    BY <1>3 DEF Careful
<1>. HIDE DEF CInv
<1>. QED
    BY <1>1, <1>2, <1>4, PTL DEF Spec, CarefulReloadServes
=============================================================================
