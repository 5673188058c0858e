------------------------------- MODULE Drain -------------------------------
(***************************************************************************)
(* The graceful shutdown inside one worker process: let_worker_shutdown,   *)
(* called by the admin's handler and by the SIGUSR1 handler that may        *)
(* interrupt the main thread anywhere (niubix.cpp, global.cpp); the tasks   *)
(* that close the acceptors in their own threads (leader.cpp, worker.cpp,   *)
(* acceptor.cpp); the pause of an acceptor when descriptors run out; and    *)
(* the timer that ends the process when no frontend is active              *)
(* (worker_timing_event.cpp).                                              *)
(*                                                                         *)
(* A thread is at the top of evpoll::run, where its task queue runs, or in  *)
(* a batch of events; the 48 ms timer of worker_cache_time ends every       *)
(* epoll_wait.  An operation on a queue or a timer heap is one step.        *)
(***************************************************************************)
EXTENDS Integers, FiniteSets

CONSTANTS Leader,      \* the threads of g::g_leader
          Main,        \* the thread of g::main_worker
          Listen,      \* addresses in app::listen_set
          AdminListen, \* conf::admin_listen
          App,         \* app::alls
          Conn,        \* frontends
          NoApp,       \* matched_app == nullptr
          Envs,        \* the environments examined: each a set of EnvCases
          MaxSignals   \* bound on the signals the master sends

\* signal: the master sends SIGUSR1.  admin: the admin API is told /shutdown.
\* info_log: log_level has info.  no_fds: accept4 may fail with EMFILE.
\* epoll_full: EPOLL_CTL_ADD may fail.  one_client: nobody connects while a client is
\* connected.
EnvCases == {"signal", "admin", "info_log", "no_fds", "epoll_full", "one_client"}

ASSUME DrainAssumption ==
    /\ Main \notin Leader /\ AdminListen \notin Listen /\ NoApp \notin App
    /\ IsFiniteSet(Conn) /\ MaxSignals \in Nat
    /\ Envs \subseteq SUBSET EnvCases

Thread    == Leader \cup {Main}
AdminAcc  == <<Main, AdminListen>>
Acceptor  == (Leader \X Listen) \cup {AdminAcc}
Of(t)     == {a \in Acceptor : a[1] = t}
Caller    == {"admin", "signal"}

VARIABLES
    at,            \* where each thread's evpoll::run is
    doing,         \* what the main thread's batch is doing
    pc,            \* let_worker_shutdown, in the admin's handler and the signal's
    log_mtx,       \* who holds log_impl::mtx of log_info: nobody or a frame of main
    sent,          \* signals sent so far, and whether one is pending
    worker_shutdowning,
    async_taskq,   \* gracefully_shutdown tasks of each leader thread
    close_tasks,   \* close_acceptor tasks queued for each acceptor
    acc,           \* each acceptor's descriptor and registration
    st, app,       \* each frontend's state and matched_app
    frontend_active_n,
    timers,        \* worker_shutdown handlers in the main thread's heap
    left, sum,     \* on_timeout's loop: apps not read yet, tt_active_num
    held,          \* history: active since that loop began
    exited,        \* ::exit was called
    env            \* fixed

calls == <<pc, log_mtx, sent, worker_shutdowning>>
tasks == <<async_taskq, close_tasks>>
conns == <<st, app, frontend_active_n>>
check == <<left, sum>>
vars  == <<at, doing, calls, tasks, acc, conns, timers, check, held, exited, env>>

----------------------------------------------------------------------------
Steps == {"idle", "log", "logging", "test", "set", "close_admin", "tell_leaders", "schedule"}

\* paused: removed from the poller, timer set.  lost: removed, without a timer.
AccState == {"open", "paused", "lost", "closed"}

\* waiting: conn_ok, its backend is not connected or not even chosen
ConnState == {"none", "waiting", "active"}

Active    == {c \in Conn : st[c] = "active"}
ActiveOf(a) == {c \in Active : app[c] = a}

Init ==
    /\ at = [t \in Thread |-> "top"] /\ doing = "events"
    /\ pc = [k \in Caller |-> "idle"] /\ log_mtx = "free"
    /\ sent = [n |-> 0, pending |-> FALSE]
    /\ worker_shutdowning = FALSE
    /\ async_taskq = [t \in Leader |-> 0] /\ close_tasks = [a \in Acceptor |-> 0]
    /\ acc = [a \in Acceptor |-> "open"]
    /\ st = [c \in Conn |-> "none"] /\ app = [c \in Conn |-> NoApp]
    /\ frontend_active_n = [a \in App |-> 0]
    /\ timers = 0 /\ left = {} /\ sum = 0 /\ held = {} /\ exited = FALSE
    /\ env \in Envs

\* The signal handler interrupts the main thread, which goes on when it returns.
Runs(t)  == ~exited /\ (t = Main => pc["signal"] = "idle")
InBatch(t) == at[t] = "batch" /\ Runs(t) /\ (t = Main => doing = "events")

----------------------------------------------------------------------------
(* evpoll::run                                                             *)

\* do_tasks runs acceptor::on_close: out of the poller, timer cancelled, fd closed;
\* then epoll_wait returns
Top(t) ==
    /\ at[t] = "top" /\ Runs(t)
    /\ acc' = [a \in Acceptor |-> IF a \in Of(t) /\ close_tasks[a] > 0
                                  THEN "closed" ELSE acc[a]]
    /\ close_tasks' = [a \in Acceptor |-> IF a \in Of(t) THEN 0 ELSE close_tasks[a]]
    /\ at' = [at EXCEPT ![t] = "batch"]
    /\ UNCHANGED <<doing, calls, async_taskq, conns, timers, check, held, exited, env>>

BatchEnd(t) ==
    /\ InBatch(t)
    /\ at' = [at EXCEPT ![t] = "top"]
    /\ UNCHANGED <<doing, calls, tasks, acc, conns, timers, check, held, exited, env>>

\* async_taskq::on_read: every gracefully_shutdown task calls worker::gracefully_close,
\* where acceptor::close pushes a task to the thread's own queue
GracefullyClose(t) ==
    /\ InBatch(t) /\ t \in Leader /\ async_taskq[t] > 0
    /\ async_taskq' = [async_taskq EXCEPT ![t] = 0]
    /\ close_tasks' = [a \in Acceptor |->
          IF a \in Of(t) THEN close_tasks[a] + async_taskq[t] ELSE close_tasks[a]]
    /\ UNCHANGED <<at, doing, calls, acc, conns, timers, check, held, exited, env>>

----------------------------------------------------------------------------
(* acceptor                                                                *)

Accept(a, c) ==
    /\ InBatch(a[1]) /\ acc[a] = "open" /\ a # AdminAcc
    /\ st[c] = "none"
    /\ "one_client" \in env => \A d \in Conn : st[d] = "none"
    /\ st' = [st EXCEPT ![c] = "waiting"]
    /\ UNCHANGED <<at, doing, calls, tasks, acc, app, frontend_active_n, timers, check,
                   held, exited, env>>

\* (mutant) the acceptor removes itself and sets no timer
OutOfFdsForGood(a) ==
    /\ "no_fds" \in env /\ InBatch(a[1]) /\ acc[a] = "open"
    /\ acc' = [acc EXCEPT ![a] = "lost"]
    /\ UNCHANGED <<at, doing, calls, tasks, conns, timers, check, held, exited, env>>

\* EMFILE or ENFILE: 200 ms away from the poller
OutOfFds(a) ==
    /\ "no_fds" \in env /\ InBatch(a[1]) /\ acc[a] = "open"
    /\ acc' = [acc EXCEPT ![a] = "paused"]
    /\ UNCHANGED <<at, doing, calls, tasks, conns, timers, check, held, exited, env>>

\* acceptor::on_timeout, which ignores the result of add_ev
Resume(a) ==
    /\ InBatch(a[1]) /\ acc[a] = "paused"
    /\ \/ acc' = [acc EXCEPT ![a] = "open"]
       \/ "epoll_full" \in env /\ acc' = [acc EXCEPT ![a] = "lost"]
    /\ UNCHANGED <<at, doing, calls, tasks, conns, timers, check, held, exited, env>>

----------------------------------------------------------------------------
(* http_frontend, as far as its app counts it                              *)

\* on_backend_connect_ok
Activate(c, a) ==
    /\ st[c] = "waiting" /\ ~exited
    /\ st' = [st EXCEPT ![c] = "active"] /\ app' = [app EXCEPT ![c] = a]
    /\ frontend_active_n' = [frontend_active_n EXCEPT ![a] = @ + 1]
    /\ UNCHANGED <<at, doing, calls, tasks, acc, timers, check, held, exited, env>>

\* on_close
CloseConn(c) ==
    /\ st[c] # "none" /\ ~exited
    /\ st' = [st EXCEPT ![c] = "none"] /\ app' = [app EXCEPT ![c] = NoApp]
    /\ frontend_active_n' = IF st[c] = "active"
                            THEN [frontend_active_n EXCEPT ![app[c]] = @ - 1]
                            ELSE frontend_active_n
    /\ held' = held \ {c}
    /\ UNCHANGED <<at, doing, calls, tasks, acc, timers, check, exited, env>>

----------------------------------------------------------------------------
(* let_worker_shutdown and g::let_worker_shutdown.  k is the frame it runs  *)
(* in; the admin's frame waits while the signal's runs.                     *)

At(k, step) == pc[k] = step /\ (k = "admin" => pc["signal"] = "idle") /\ ~exited
Goto(k, step) == pc' = [pc EXCEPT ![k] = step]

\* the signal comes: the main thread may be anywhere, in the handler's own log::info
\* of another frame too
Signalled ==
    /\ sent.pending /\ Runs(Main)
    /\ sent' = [sent EXCEPT !.pending = FALSE]
    /\ Goto("signal", "log")
    /\ UNCHANGED <<at, doing, log_mtx, worker_shutdowning, tasks, acc, conns, timers, check,
                   held, exited, env>>

\* new_worker_start_ok of the master; a signal that is pending is not queued twice
Kill ==
    /\ "signal" \in env /\ sent.n < MaxSignals /\ ~exited
    /\ sent' = [n |-> sent.n + 1, pending |-> TRUE]
    /\ UNCHANGED <<at, doing, pc, log_mtx, worker_shutdowning, tasks, acc, conns, timers,
                   check, held, exited, env>>

\* admin::shutdown
AdminShutdown ==
    /\ "admin" \in env /\ InBatch(Main)
    /\ Goto("admin", "log") /\ doing' = "admin"
    /\ UNCHANGED <<at, log_mtx, sent, worker_shutdowning, tasks, acc, conns, timers, check,
                   held, exited, env>>

\* log::info: the mutex of the log is not recursive
LogLock(k) ==
    /\ At(k, "log")
    /\ IF "info_log" \in env
       THEN log_mtx = "free" /\ log_mtx' = k /\ Goto(k, "logging")
       ELSE Goto(k, "test") /\ UNCHANGED log_mtx
    /\ UNCHANGED <<at, doing, sent, worker_shutdowning, tasks, acc, conns, timers, check,
                   held, exited, env>>

LogUnlock(k) ==
    /\ At(k, "logging")
    /\ log_mtx' = "free" /\ Goto(k, "test")
    /\ UNCHANGED <<at, doing, sent, worker_shutdowning, tasks, acc, conns, timers, check,
                   held, exited, env>>

\* return of a frame
Return(k) == /\ Goto(k, "idle")
             /\ doing' = IF k = "admin" THEN "events" ELSE doing

\* (mutant) the first call finds itself already under way
TestInverted(k) ==
    /\ At(k, "test")
    /\ IF ~worker_shutdowning THEN Return(k) ELSE Goto(k, "set") /\ UNCHANGED doing
    /\ UNCHANGED <<at, log_mtx, sent, worker_shutdowning, tasks, acc, conns, timers, check,
                   held, exited, env>>

Test(k) ==
    /\ At(k, "test")
    /\ IF worker_shutdowning THEN Return(k) ELSE Goto(k, "set") /\ UNCHANGED doing
    /\ UNCHANGED <<at, log_mtx, sent, worker_shutdowning, tasks, acc, conns, timers, check,
                   held, exited, env>>

SetFlag(k) ==
    /\ At(k, "set")
    /\ worker_shutdowning' = TRUE /\ Goto(k, "close_admin")
    /\ UNCHANGED <<at, doing, log_mtx, sent, tasks, acc, conns, timers, check, held, exited, env>>

CloseAdmin(k) ==
    /\ At(k, "close_admin")
    /\ close_tasks' = [close_tasks EXCEPT ![AdminAcc] = @ + 1] /\ Goto(k, "tell_leaders")
    /\ UNCHANGED <<at, doing, log_mtx, sent, worker_shutdowning, async_taskq, acc, conns,
                   timers, check, held, exited, env>>

\* leader::gracefully_close_all; pushes to different threads commute
TellLeaders(k) ==
    /\ At(k, "tell_leaders")
    /\ async_taskq' = [t \in Leader |-> async_taskq[t] + 1] /\ Goto(k, "schedule")
    /\ UNCHANGED <<at, doing, log_mtx, sent, worker_shutdowning, close_tasks, acc, conns,
                   timers, check, held, exited, env>>

Schedule(k) ==
    /\ At(k, "schedule")
    /\ timers' = timers + 1 /\ Return(k)
    /\ UNCHANGED <<at, log_mtx, sent, worker_shutdowning, tasks, acc, conns, check, held,
                   exited, env>>

Shutdown(k) ==
    \/ LogLock(k) \/ LogUnlock(k) \/ Test(k) \/ SetFlag(k) \/ CloseAdmin(k)
    \/ TellLeaders(k) \/ Schedule(k)

----------------------------------------------------------------------------
(* Timers of the main thread                                               *)

\* worker_stat_output::on_timeout, every second, holds the log's mutex on the way
StatOutput ==
    /\ "info_log" \in env /\ InBatch(Main) /\ log_mtx = "free"
    /\ doing' = "stat" /\ log_mtx' = "stat"
    /\ UNCHANGED <<at, pc, sent, worker_shutdowning, tasks, acc, conns, timers, check, held,
                   exited, env>>

StatEnd ==
    /\ doing = "stat" /\ Runs(Main)
    /\ doing' = "events" /\ log_mtx' = "free"
    /\ UNCHANGED <<at, pc, sent, worker_shutdowning, tasks, acc, conns, timers, check, held,
                   exited, env>>

\* worker_shutdown::on_timeout, every 100 ms: reads the apps' counters one by one
CheckStart ==
    /\ timers > 0 /\ InBatch(Main)
    /\ doing' = "check" /\ left' = App /\ sum' = 0 /\ held' = Active
    /\ UNCHANGED <<at, calls, tasks, acc, conns, timers, exited, env>>

CheckApp(a) ==
    /\ doing = "check" /\ Runs(Main) /\ a \in left
    /\ left' = left \ {a} /\ sum' = sum + frontend_active_n[a]
    /\ UNCHANGED <<at, doing, calls, tasks, acc, conns, timers, held, exited, env>>

\* (mutant) one active frontend does not keep the process
CheckEndOneOff ==
    /\ doing = "check" /\ Runs(Main) /\ left = {}
    /\ exited' = (sum <= 1) /\ doing' = "events"
    /\ UNCHANGED <<at, calls, tasks, acc, conns, timers, check, held, env>>

\* (mutant) the timer is not periodic
CheckEndOnce ==
    /\ doing = "check" /\ Runs(Main) /\ left = {}
    /\ exited' = (sum < 1) /\ doing' = "events" /\ timers' = timers - 1
    /\ UNCHANGED <<at, calls, tasks, acc, conns, check, held, env>>

CheckEnd ==
    /\ doing = "check" /\ Runs(Main) /\ left = {}
    /\ exited' = (sum < 1) /\ doing' = "events"
    /\ UNCHANGED <<at, calls, tasks, acc, conns, timers, check, held, env>>

----------------------------------------------------------------------------
Next ==
    \/ \E t \in Thread : Top(t) \/ BatchEnd(t) \/ GracefullyClose(t)
    \/ \E a \in Acceptor : OutOfFds(a) \/ Resume(a) \/ \E c \in Conn : Accept(a, c)
    \/ \E c \in Conn : CloseConn(c) \/ \E a \in App : Activate(c, a)
    \/ \E a \in App : CheckApp(a)
    \/ \E k \in Caller : Shutdown(k)
    \/ Kill \/ Signalled \/ AdminShutdown
    \/ StatOutput \/ StatEnd \/ CheckStart \/ CheckEnd

Spec == Init /\ [][Next]_vars

----------------------------------------------------------------------------
(* Properties                                                              *)

\* Every variable has its type.
TypeOK ==
    /\ at \in [Thread -> {"top", "batch"}] /\ doing \in {"events", "admin", "stat", "check"}
    /\ pc \in [Caller -> Steps] /\ log_mtx \in Caller \cup {"free", "stat"}
    /\ sent \in [n : Nat, pending : BOOLEAN] /\ worker_shutdowning \in BOOLEAN
    /\ async_taskq \in [Leader -> Nat] /\ close_tasks \in [Acceptor -> Nat]
    /\ acc \in [Acceptor -> AccState]
    /\ st \in [Conn -> ConnState] /\ app \in [Conn -> App \cup {NoApp}]
    /\ frontend_active_n \in [App -> Int]
    /\ timers \in Nat /\ left \subseteq App /\ sum \in Int /\ held \subseteq Conn
    /\ exited \in BOOLEAN /\ env \in Envs

\* worker_shutdown::on_timeout reads the apps' counters one after the other while other
\* threads change them: no frontend that was active when it began to read is cut by its
\* exit.  (One that becomes active on the way, and every one that waits, is.)
EstablishedNotCut == exited => held = {}

----------------------------------------------------------------------------
(* Fairness: the threads run and epoll is level-triggered; a pending signal  *)
(* is delivered; the periodic timer and a pause expire.  Clients need not    *)
(* do anything.                                                             *)

FairSpec ==
    /\ Spec
    /\ \A t \in Thread : WF_vars(Top(t)) /\ SF_vars(BatchEnd(t))
    /\ \A t \in Leader : SF_vars(GracefullyClose(t))
    /\ \A a \in Acceptor : SF_vars(Resume(a))
    /\ \A k \in Caller : WF_vars(Shutdown(k))
    /\ WF_vars(Signalled) /\ WF_vars(StatEnd)
    /\ SF_vars(CheckStart) /\ WF_vars(CheckEnd)
    /\ WF_vars(\E a \in App : CheckApp(a))

\* The signal's log::info on top of another log::info of the main thread waits for a
\* mutex its own thread holds (log.cpp:70): that thread stops for good.
MayLockItself == {"signal", "info_log"} \subseteq env

\* A process told to shut down, even twice, closes every acceptor, whatever its threads do and also
\* one that is paused for lack of descriptors (worker::gracefully_close, acceptor::on_close).
AcceptorsClose ==
    (~MayLockItself /\ \E k \in Caller : pc[k] # "idle")
        ~> (exited \/ \A a \in Acceptor : acc[a] = "closed")

\* "gracefully exit" (worker_timing_event.cpp:22): a process told to shut down does not
\* stay for ever without an active frontend.
DrainedExits ==
    []<>(~worker_shutdowning \/ exited \/ Active # {} \/ MayLockItself)

\* An acceptor that paused for lack of descriptors is back in the poller or closed after a
\* while (acceptor.cpp:40): not if add_ev fails then, or if the main thread, which owns
\* the admin's, has locked itself out.
PausedComesBack ==
    \A a \in Acceptor :
        (acc[a] # "open" /\ "epoll_full" \notin env /\ ~MayLockItself)
            ~> (acc[a] \in {"open", "closed"} \/ exited)
============================================================================
