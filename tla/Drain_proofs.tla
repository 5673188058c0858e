---------------------------- MODULE Drain_proofs ----------------------------
(***************************************************************************)
(* The exit of a worker process that was told to shut down cuts no frontend *)
(* that was active when worker_shutdown::on_timeout began to read the       *)
(* counters, for any number of threads, acceptors, apps and frontends.      *)
(*                                                                         *)
(* The invariant needs the meaning of the counters (Counted) and what the   *)
(* loop has found so far (SeenOrLeft): a frontend of held either belongs to  *)
(* an app not read yet, or was counted in sum.                              *)
(***************************************************************************)
EXTENDS Drain, FiniteSetTheorems, TLAPS

Counted ==
    /\ \A c \in Active : app[c] \in App
    /\ \A a \in App : frontend_active_n[a] = Cardinality(ActiveOf(a))

SeenOrLeft ==
    doing = "check" =>
        /\ held \subseteq Active
        /\ \A c \in held : app[c] \in left \/ sum >= 1

Core == Counted /\ SeenOrLeft /\ sum >= 0 /\ EstablishedNotCut
IInv == TypeOK /\ Core

----------------------------------------------------------------------------
LEMMA ActiveOfFinite ==
    ASSUME NEW a
    PROVE  IsFiniteSet(ActiveOf(a)) /\ Cardinality(ActiveOf(a)) \in Nat
<1>1. ActiveOf(a) \subseteq Conn BY DEF ActiveOf, Active
<1>2. IsFiniteSet(ActiveOf(a)) BY <1>1, DrainAssumption, FS_Subset
<1> QED BY <1>2, FS_CardinalityType

LEMMA InitOK == Init => IInv
<1> SUFFICES ASSUME Init PROVE IInv OBVIOUS
<1>1. sent \in [n : Nat, pending : BOOLEAN] BY DEF Init
<1>2. /\ at \in [Thread -> {"top", "batch"}] /\ pc \in [Caller -> Steps]
      /\ acc \in [Acceptor -> AccState] /\ st \in [Conn -> ConnState]
  BY DEF Init, Steps, AccState, ConnState
<1>3. /\ async_taskq \in [Leader -> Nat] /\ close_tasks \in [Acceptor -> Nat]
      /\ app \in [Conn -> App \cup {NoApp}] /\ frontend_active_n \in [App -> Int]
  BY DEF Init
<1>4. /\ doing \in {"events", "admin", "stat", "check"} /\ log_mtx \in Caller \cup {"free", "stat"}
      /\ worker_shutdowning \in BOOLEAN /\ exited \in BOOLEAN /\ env \in Envs
  BY DEF Init
<1>5. timers \in Nat /\ left \subseteq App /\ sum \in Int /\ held \subseteq Conn
  BY DEF Init
<1>6. TypeOK BY <1>1, <1>2, <1>3, <1>4, <1>5 DEF TypeOK
<1>7. Active = {} BY DEF Init, Active
<1>8. \A a \in App : Cardinality(ActiveOf(a)) = 0
  BY <1>7, FS_EmptySet DEF ActiveOf
<1>9. Core BY <1>7, <1>8 DEF Init, Core, Counted, SeenOrLeft, EstablishedNotCut
<1> QED BY <1>9, <1>6 DEF IInv

----------------------------------------------------------------------------
(* Most steps change no frontend and nothing of the check.                 *)

LEMMA QuietCore ==
    ASSUME Core, UNCHANGED <<conns, check, held, exited>>,
           doing' = "check" => doing = "check"
    PROVE  Core'
<1>1. Active' = Active BY DEF Active, conns
<1>2. \A a : ActiveOf(a)' = ActiveOf(a) BY <1>1 DEF ActiveOf, conns
<1> QED BY <1>1, <1>2 DEF Core, Counted, SeenOrLeft, EstablishedNotCut, conns, check

LEMMA AccSteps ==
    ASSUME NEW a \in Acceptor, TypeOK, OutOfFds(a) \/ Resume(a)
    PROVE  TypeOK' /\ UNCHANGED <<conns, check, held, exited, doing>>
BY DEF TypeOK, OutOfFds, Resume, AccState, calls, tasks, conns, check

LEMMA LoopSteps ==
    ASSUME NEW t \in Thread, TypeOK, Top(t) \/ BatchEnd(t) \/ GracefullyClose(t)
    PROVE  TypeOK' /\ UNCHANGED <<conns, check, held, exited, doing>>
<1>1. CASE Top(t)
  <2>1. acc' \in [Acceptor -> AccState] BY <1>1 DEF Top, TypeOK, AccState
  <2>2. close_tasks' \in [Acceptor -> Nat] BY <1>1 DEF Top, TypeOK
  <2>3. at' \in [Thread -> {"top", "batch"}] BY <1>1 DEF Top, TypeOK
  <2> QED BY <1>1, <2>1, <2>2, <2>3 DEF Top, TypeOK, calls, conns, check
<1>2. CASE BatchEnd(t)
  BY <1>2 DEF BatchEnd, TypeOK, calls, tasks, conns, check
<1>3. CASE GracefullyClose(t)
  <2>1. async_taskq' \in [Leader -> Nat] BY <1>3 DEF GracefullyClose, TypeOK
  <2>2. close_tasks' \in [Acceptor -> Nat] BY <1>3 DEF GracefullyClose, TypeOK
  <2> QED BY <1>3, <2>1, <2>2 DEF GracefullyClose, TypeOK, calls, conns, check
<1> QED BY <1>1, <1>2, <1>3

LEMMA ShutdownSteps ==
    ASSUME NEW k \in Caller, TypeOK, Shutdown(k)
    PROVE  /\ TypeOK' /\ UNCHANGED <<conns, check, held, exited>>
           /\ doing' \in {doing, "events"}
<1> USE DEF TypeOK, Goto, At, Steps, Return, Caller, conns, check, tasks
<1>1. CASE LogLock(k) BY <1>1 DEF LogLock
<1>2. CASE LogUnlock(k) BY <1>2 DEF LogUnlock
<1>3. CASE Test(k) BY <1>3 DEF Test
<1>4. CASE SetFlag(k) BY <1>4 DEF SetFlag
<1>5. CASE CloseAdmin(k)
  <2>1. AdminAcc \in Acceptor BY DEF Acceptor
  <2>2. close_tasks' \in [Acceptor -> Nat] BY <1>5, <2>1 DEF CloseAdmin
  <2> QED BY <1>5, <2>2 DEF CloseAdmin
<1>6. CASE TellLeaders(k) BY <1>6 DEF TellLeaders
<1>7. CASE Schedule(k) BY <1>7 DEF Schedule
<1> QED BY <1>1, <1>2, <1>3, <1>4, <1>5, <1>6, <1>7 DEF Shutdown

LEMMA MainSteps ==
    ASSUME TypeOK, Kill \/ Signalled \/ AdminShutdown \/ StatOutput \/ StatEnd
    PROVE  /\ TypeOK' /\ UNCHANGED <<conns, check, held, exited>>
           /\ doing' = "check" => doing = "check"
<1> USE DEF TypeOK, Goto, Steps, Caller, conns, check, tasks
<1>1. CASE Kill BY <1>1 DEF Kill
<1>2. CASE Signalled BY <1>2 DEF Signalled
<1>3. CASE AdminShutdown BY <1>3 DEF AdminShutdown
<1>4. CASE StatOutput BY <1>4 DEF StatOutput
<1>5. CASE StatEnd BY <1>5 DEF StatEnd
<1> QED BY <1>1, <1>2, <1>3, <1>4, <1>5

----------------------------------------------------------------------------
(* The steps that count                                                    *)

LEMMA AcceptOK ==
    ASSUME IInv, NEW a \in Acceptor, NEW c \in Conn, Accept(a, c)
    PROVE  IInv'
<1>1. TypeOK'
  BY DEF IInv, TypeOK, Accept, ConnState, calls, tasks, check
<1>2. Active' = Active BY DEF IInv, TypeOK, Accept, Active
<1>3. \A b : ActiveOf(b)' = ActiveOf(b) BY <1>2 DEF ActiveOf, Accept
<1>4. Core'
  BY <1>2, <1>3 DEF IInv, Core, Counted, SeenOrLeft, EstablishedNotCut, Accept, check
<1> QED BY <1>1, <1>4 DEF IInv

LEMMA ActivateOK ==
    ASSUME IInv, NEW c \in Conn, NEW a \in App, Activate(c, a)
    PROVE  IInv'
<1>1. TypeOK'
  BY DEF IInv, TypeOK, Activate, ConnState, calls, tasks, check
<1>2. c \notin Active /\ Active' = Active \cup {c}
  BY DEF IInv, TypeOK, Activate, Active
<1>3. app' = [app EXCEPT ![c] = a] /\ app \in [Conn -> App \cup {NoApp}]
  BY DEF IInv, TypeOK, Activate
<1>4. ActiveOf(a)' = ActiveOf(a) \cup {c} /\ c \notin ActiveOf(a)
  BY <1>2, <1>3 DEF ActiveOf, Active
<1>5. \A b \in App \ {a} : ActiveOf(b)' = ActiveOf(b)
  BY <1>2, <1>3 DEF ActiveOf, Active
<1>6. Cardinality(ActiveOf(a)') = Cardinality(ActiveOf(a)) + 1
  BY <1>4, ActiveOfFinite, FS_AddElement
<1>7. \A b \in App : frontend_active_n'[b] = Cardinality(ActiveOf(b)')
  BY <1>5, <1>6 DEF IInv, Core, Counted, TypeOK, Activate
<1>8. Counted'
  BY <1>2, <1>3, <1>7 DEF IInv, Core, Counted, Active
<1>9. SeenOrLeft'
  BY <1>2, <1>3 DEF IInv, Core, SeenOrLeft, Activate, check, Active
<1> QED BY <1>1, <1>8, <1>9 DEF IInv, Core, EstablishedNotCut, Activate, check

LEMMA CloseConnOK ==
    ASSUME IInv, NEW c \in Conn, CloseConn(c)
    PROVE  IInv'
<1>0. Counted /\ TypeOK BY DEF IInv, Core
<1>1. Active' = Active \ {c} /\ app' = [app EXCEPT ![c] = NoApp]
  BY DEF IInv, TypeOK, CloseConn, Active
<1>2. app \in [Conn -> App \cup {NoApp}] BY DEF IInv, TypeOK
<1>3. \A b \in App : ActiveOf(b)' = ActiveOf(b) \ {c}
  BY <1>1, <1>2 DEF ActiveOf, Active
<1>4. \A b \in App : c \notin ActiveOf(b) => ActiveOf(b)' = ActiveOf(b)
  BY <1>3
<1>5. /\ frontend_active_n' \in [App -> Int]
      /\ \A b \in App : frontend_active_n'[b] = Cardinality(ActiveOf(b)')
  <2>1. CASE st[c] = "active"
    <3>1. app[c] \in App /\ c \in ActiveOf(app[c])
      BY <1>0, <2>1 DEF Counted, ActiveOf, Active
    <3>2. Cardinality(ActiveOf(app[c]) \ {c}) = Cardinality(ActiveOf(app[c])) - 1
      BY <3>1, ActiveOfFinite, FS_RemoveElement
    <3>3. \A b \in App \ {app[c]} : c \notin ActiveOf(b) BY DEF ActiveOf
    <3>4. frontend_active_n' = [frontend_active_n EXCEPT ![app[c]] = @ - 1]
      BY <2>1 DEF CloseConn
    <3>5. \A b \in App \ {app[c]} : frontend_active_n'[b] = Cardinality(ActiveOf(b)')
      BY <1>0, <1>4, <3>3, <3>4 DEF Counted, TypeOK
    <3>6. frontend_active_n'[app[c]] = Cardinality(ActiveOf(app[c]) \ {c})
      BY <1>0, <3>1, <3>2, <3>4 DEF Counted, TypeOK
    <3>7. \A b \in App : b = app[c] => ActiveOf(b)' = ActiveOf(app[c]) \ {c}
      BY <1>3
    <3>8. \A b \in App : b = app[c] => frontend_active_n'[b] = Cardinality(ActiveOf(b)')
      BY <3>6, <3>7
    <3>9. frontend_active_n' \in [App -> Int] BY <1>0, <3>1, <3>4 DEF TypeOK
    <3> QED BY <3>5, <3>8, <3>9
  <2>2. CASE st[c] # "active"
    <3>1. frontend_active_n' = frontend_active_n BY <2>2 DEF CloseConn
    <3>2. \A b \in App : c \notin ActiveOf(b) BY <2>2 DEF ActiveOf, Active
    <3> QED BY <1>0, <1>4, <3>1, <3>2 DEF Counted, TypeOK
  <2> QED BY <2>1, <2>2
<1>6. TypeOK'
  BY <1>5 DEF IInv, TypeOK, CloseConn, ConnState, calls, tasks, check
<1>7. Counted'
  BY <1>0, <1>1, <1>2, <1>5 DEF Counted, Active
<1>8. SeenOrLeft'
  BY <1>1, <1>2 DEF IInv, Core, SeenOrLeft, CloseConn, check, Active, TypeOK
<1> QED BY <1>6, <1>7, <1>8 DEF IInv, Core, EstablishedNotCut, CloseConn, check

----------------------------------------------------------------------------
(* The check                                                               *)

LEMMA CheckStartOK == ASSUME IInv, CheckStart PROVE IInv'
<1>1. TypeOK' BY DEF IInv, TypeOK, CheckStart, calls, tasks, conns, Active
<1>2. Active' = Active BY DEF Active, CheckStart, conns
<1>3. \A b : ActiveOf(b)' = ActiveOf(b) BY <1>2 DEF ActiveOf, CheckStart, conns
<1>4. Counted' BY <1>2, <1>3 DEF IInv, Core, Counted, CheckStart, conns
<1>5. SeenOrLeft' BY <1>2, <1>4 DEF SeenOrLeft, CheckStart, Counted
<1>6. ~exited /\ UNCHANGED exited BY DEF CheckStart, InBatch, Runs
<1> QED BY <1>1, <1>4, <1>5, <1>6 DEF IInv, Core, EstablishedNotCut, CheckStart

LEMMA CheckAppOK == ASSUME IInv, NEW a \in App, CheckApp(a) PROVE IInv'
<1>1. TypeOK' BY DEF IInv, TypeOK, CheckApp, calls, tasks, conns
<1>2. Active' = Active BY DEF Active, CheckApp, conns
<1>3. \A b : ActiveOf(b)' = ActiveOf(b) BY <1>2 DEF ActiveOf, CheckApp, conns
<1>4. Counted' BY <1>2, <1>3 DEF IInv, Core, Counted, CheckApp, conns
<1>5. frontend_active_n[a] \in Nat /\ frontend_active_n[a] = Cardinality(ActiveOf(a))
  BY ActiveOfFinite DEF IInv, Core, Counted
<1>6. ASSUME NEW c \in held PROVE app[c] \in left' \/ sum' >= 1
  <2>1. doing = "check" /\ c \in Active /\ (app[c] \in left \/ sum >= 1)
    BY <1>6 DEF CheckApp, IInv, Core, SeenOrLeft
  <2>2. sum' = sum + frontend_active_n[a] /\ left' = left \ {a} /\ sum \in Int /\ sum >= 0
    BY DEF CheckApp, IInv, TypeOK, Core
  <2>3. CASE app[c] = a
    <3>1. c \in ActiveOf(a) BY <2>1, <2>3 DEF ActiveOf
    <3>2. frontend_active_n[a] # 0
      BY <3>1, <1>5, ActiveOfFinite, FS_EmptySet
    <3> QED BY <3>2, <1>5, <2>2
  <2>4. CASE app[c] # a BY <2>1, <2>2, <2>4, <1>5
  <2> QED BY <2>3, <2>4
<1>7. SeenOrLeft'
  BY <1>2, <1>6 DEF IInv, Core, SeenOrLeft, CheckApp, conns
<1>8. sum' >= 0 BY <1>5 DEF IInv, Core, TypeOK, CheckApp
<1> QED BY <1>1, <1>4, <1>7, <1>8 DEF IInv, Core, EstablishedNotCut, CheckApp

LEMMA CheckEndOK == ASSUME IInv, CheckEnd PROVE IInv'
<1>1. TypeOK' BY DEF IInv, TypeOK, CheckEnd, calls, tasks, conns, check
<1>2. Active' = Active BY DEF Active, CheckEnd, conns
<1>3. \A b : ActiveOf(b)' = ActiveOf(b) BY <1>2 DEF ActiveOf, CheckEnd, conns
<1>4. Counted' BY <1>2, <1>3 DEF IInv, Core, Counted, CheckEnd, conns
<1>5. EstablishedNotCut'
  <2>1. \A c \in held : sum >= 1 BY DEF IInv, Core, SeenOrLeft, CheckEnd
  <2>2. sum < 1 => held = {} BY <2>1 DEF IInv, TypeOK
  <2> QED BY <2>2 DEF EstablishedNotCut, CheckEnd
<1> QED BY <1>1, <1>4, <1>5 DEF IInv, Core, SeenOrLeft, CheckEnd, check

----------------------------------------------------------------------------
LEMMA NextOK == IInv /\ [Next]_vars => IInv'
<1> SUFFICES ASSUME IInv, [Next]_vars PROVE IInv' OBVIOUS
<1>1. ASSUME NEW t \in Thread, Top(t) \/ BatchEnd(t) \/ GracefullyClose(t) PROVE IInv'
  BY <1>1, LoopSteps, QuietCore DEF IInv
<1>2. ASSUME NEW a \in Acceptor, OutOfFds(a) \/ Resume(a) PROVE IInv'
  BY <1>2, AccSteps, QuietCore DEF IInv
<1>3. ASSUME NEW a \in Acceptor, NEW c \in Conn, Accept(a, c) PROVE IInv'
  BY <1>3, AcceptOK
<1>4. ASSUME NEW c \in Conn, CloseConn(c) PROVE IInv' BY <1>4, CloseConnOK
<1>5. ASSUME NEW c \in Conn, NEW a \in App, Activate(c, a) PROVE IInv'
  BY <1>5, ActivateOK
<1>6. ASSUME NEW a \in App, CheckApp(a) PROVE IInv' BY <1>6, CheckAppOK
<1>7. ASSUME NEW k \in Caller, Shutdown(k) PROVE IInv'
  BY <1>7, ShutdownSteps, QuietCore DEF IInv
<1>8. CASE Kill \/ Signalled \/ AdminShutdown \/ StatOutput \/ StatEnd
  BY <1>8, MainSteps, QuietCore DEF IInv
<1>9. CASE CheckStart BY <1>9, CheckStartOK
<1>10. CASE CheckEnd BY <1>10, CheckEndOK
<1>11. CASE UNCHANGED vars
  <2>1. TypeOK' BY <1>11 DEF IInv, TypeOK, vars, calls, tasks, conns, check
  <2>2. Core' BY <1>11, QuietCore DEF IInv, vars
  <2> QED BY <2>1, <2>2 DEF IInv
<1> QED
  BY <1>1, <1>2, <1>3, <1>4, <1>5, <1>6, <1>7, <1>8, <1>9, <1>10, <1>11 DEF Next

LEMMA Invariance == Spec => []IInv
BY InitOK, NextOK, PTL DEF Spec

\* The exit of a drained process cuts no frontend that was active when
\* worker_shutdown::on_timeout began to read the counters of the apps.
THEOREM ExitCutsNobodyEstablished == Spec => []EstablishedNotCut
<1>1. IInv => EstablishedNotCut BY DEF IInv, Core
<1> QED BY <1>1, Invariance, PTL

\* Every variable of the shutdown has its type.
THEOREM TypeCorrect == Spec => []TypeOK
<1>1. IInv => TypeOK BY DEF IInv
<1> QED BY <1>1, Invariance, PTL
============================================================================
