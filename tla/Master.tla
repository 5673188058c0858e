------------------------------- MODULE Master -------------------------------
(***************************************************************************)
(* The master process of niubix (niubix.cpp): it forks and execs the       *)
(* worker process, respawns it after a crash, and replaces it on SIGHUP by *)
(* a new one that tells it with SIGUSR1 that the old one may stop.         *)
(* A signal is a pending flag: a second one that arrives before the first  *)
(* is handled is lost.  Signal handlers run between any two statements of  *)
(* the main loop.                                                          *)
(***************************************************************************)
EXTENDS Naturals, FiniteSets

CONSTANTS Pid,          \* process ids the kernel can hand out, none used twice
          None,         \* 0: no process
          Failed,       \* -1: what fork returns when it fails
          EventSets     \* the sets of EventCases examined

\* reload: an operator or the admin API sends SIGHUP.  early_reload: even when a
\*   worker it forked has not said yet that it runs.
\* stop: SIGTERM.  crash: a worker dies by a signal.  bad_conf: a worker exits
\*   because its configuration does not load.  fork_fails: fork returns -1.
\* admin_stop: a worker is told by its admin API to shut down.
EventCases == {"reload", "early_reload", "stop", "crash", "bad_conf", "fork_fails",
               "admin_stop"}

ASSUME MasterAssumption ==
    /\ None \notin Pid /\ Failed \notin Pid /\ None # Failed
    /\ EventSets \subseteq SUBSET EventCases

VARIABLES
    mpc,                  \* where master_run is: a statement, or "exited"
    child_pid,            \* g::child_pid
    shutdown_child_pid,   \* g::shutdown_child_pid
    forked,               \* what exec_worker returned to master_run
    pending,              \* signals to the master not handled yet
    worker,               \* state of each process
    told,                 \* workers with a SIGUSR1 pending
    crashed_before,       \* exception_exit_time is set
    events                \* what may happen to this master; fixed

mvars == <<mpc, child_pid, shutdown_child_pid, forked, pending, worker, told,
           crashed_before, events>>

----------------------------------------------------------------------------
\* starting: between fork and g_leader->run; halted: told to stop before that;
\* running: serving; draining: its acceptors closed; exited, signaled: a zombie
WorkerState == {"unused", "starting", "halted", "running", "draining", "exited",
                "signaled", "reaped"}
Alive(p)  == worker[p] \in {"starting", "halted", "running", "draining"}
Zombie(p) == worker[p] \in {"exited", "signaled"}
Children  == {p \in Pid : Alive(p) \/ Zombie(p)}
Up        == mpc # "exited"

Init ==
    /\ mpc = "fork" /\ child_pid = None /\ shutdown_child_pid = None /\ forked = None
    /\ pending = {} /\ told = {} /\ crashed_before = FALSE
    /\ worker = [p \in Pid |-> "unused"]
    /\ events \in EventSets

----------------------------------------------------------------------------
(* kill(2): a pid means that process, 0 the caller's process group, -1 every  *)
(* process the caller may signal.  The group of the master is the workers.  *)

Receivers(pid) == {p \in Pid : Alive(p) /\ (pid = p \/ pid \in {None, Failed})}

EndedBy(p, how) == [worker EXCEPT ![p] = how]

\* The bound of an instance: a reload or a crash happens only while the pids left
\* are enough for every fork it and the earlier ones cause.
Owed == Cardinality({p \in Pid : worker[p] = "signaled"} \cup {s \in {None} : "HUP" \in pending}
                    \cup {s \in {Failed} : mpc \in {"usleep", "fork"}})
Room == Cardinality({p \in Pid : worker[p] = "unused"}) > Owed

----------------------------------------------------------------------------
(* master_run                                                              *)

\* exec_worker: fork and execv; the result is in a local variable only
Fork ==
    /\ mpc = "fork"
    /\ \/ \E p \in Pid :
            /\ worker[p] = "unused"
            /\ worker' = [worker EXCEPT ![p] = "starting"] /\ forked' = p
       \/ /\ "fork_fails" \in events
          /\ forked' = Failed /\ UNCHANGED worker
    /\ mpc' = "assign"
    /\ UNCHANGED <<child_pid, shutdown_child_pid, pending, told, crashed_before, events>>

\* (mutant) only the first worker's pid is kept
AssignOnce ==
    /\ mpc = "assign"
    /\ child_pid' = IF child_pid = None THEN forked ELSE child_pid
    /\ mpc' = "wait"
    /\ UNCHANGED <<shutdown_child_pid, forked, pending, worker, told, crashed_before, events>>

\* g::child_pid = pid
Assign ==
    /\ mpc = "assign"
    /\ child_pid' = forked /\ mpc' = "wait"
    /\ UNCHANGED <<shutdown_child_pid, forked, pending, worker, told, crashed_before, events>>

\* waitpid returns the pid of a zombie
Reap(p) == /\ mpc = "wait" /\ Zombie(p)
           /\ worker' = [worker EXCEPT ![p] = "reaped"]

\* (mutant) the end of the old worker is not recorded
WaitOldForgets(p) ==
    /\ Reap(p) /\ p = shutdown_child_pid
    /\ UNCHANGED <<mpc, child_pid, shutdown_child_pid, forked, pending, told,
                   crashed_before, events>>

\* the old worker of a reload has ended
WaitOld(p) ==
    /\ Reap(p) /\ p = shutdown_child_pid
    /\ shutdown_child_pid' = None
    /\ UNCHANGED <<mpc, child_pid, forked, pending, told, crashed_before, events>>

\* WIFEXITED: the master ends too
WaitExited(p) ==
    /\ Reap(p) /\ p # shutdown_child_pid /\ worker[p] = "exited"
    /\ mpc' = "exited"
    /\ UNCHANGED <<child_pid, shutdown_child_pid, forked, pending, told, crashed_before, events>>

\* WIFSIGNALED: a new worker after 50 ms, the end if the last crash was less than
\* ten seconds ago, nothing if it was not the current worker
WaitSignaled(p) ==
    /\ Reap(p) /\ p # shutdown_child_pid /\ worker[p] = "signaled"
    /\ IF p # child_pid THEN UNCHANGED <<mpc, crashed_before>>
       ELSE \/ mpc' = "usleep" /\ crashed_before' = TRUE
            \/ crashed_before /\ mpc' = "exited" /\ UNCHANGED crashed_before
    /\ UNCHANGED <<child_pid, shutdown_child_pid, forked, pending, told, events>>

\* waitpid fails: ECHILD
WaitNoChild ==
    /\ mpc = "wait" /\ Children = {}
    /\ mpc' = "exited"
    /\ UNCHANGED <<child_pid, shutdown_child_pid, forked, pending, worker, told,
                   crashed_before, events>>

Usleep ==
    /\ mpc = "usleep" /\ mpc' = "fork"
    /\ UNCHANGED <<child_pid, shutdown_child_pid, forked, pending, worker, told,
                   crashed_before, events>>

----------------------------------------------------------------------------
(* The master's signal handlers                                            *)

Handle(sig) == Up /\ sig \in pending /\ pending' = pending \ {sig}

\* (mutant) no check that a reload is under way
ReloadWorkerAgain ==
    /\ Handle("HUP")
    /\ IF child_pid = None
       THEN UNCHANGED <<child_pid, shutdown_child_pid, worker>>
       ELSE \E p \in Pid :
               /\ worker[p] = "unused"
               /\ shutdown_child_pid' = child_pid
               /\ worker' = [worker EXCEPT ![p] = "starting"] /\ child_pid' = p
    /\ UNCHANGED <<mpc, forked, told, crashed_before, events>>

\* reload_worker
ReloadWorker ==
    /\ Handle("HUP")
    /\ IF shutdown_child_pid \in Pid \/ child_pid = None
       THEN UNCHANGED <<child_pid, shutdown_child_pid, worker>>
       ELSE /\ shutdown_child_pid' = child_pid
            /\ \/ \E p \in Pid :
                    /\ worker[p] = "unused"
                    /\ worker' = [worker EXCEPT ![p] = "starting"] /\ child_pid' = p
               \/ "fork_fails" \in events /\ UNCHANGED <<child_pid, worker>>
    /\ UNCHANGED <<mpc, forked, told, crashed_before, events>>

\* (mutant) the worker told to stop is the new one
NewWorkerStartOkSwapped ==
    /\ Handle("USR1")
    /\ told' = IF shutdown_child_pid = None THEN told ELSE told \cup Receivers(child_pid)
    /\ UNCHANGED <<mpc, child_pid, shutdown_child_pid, forked, worker, crashed_before, events>>

\* new_worker_start_ok
NewWorkerStartOk ==
    /\ Handle("USR1")
    /\ told' = IF shutdown_child_pid = None THEN told
               ELSE told \cup Receivers(shutdown_child_pid)
    /\ UNCHANGED <<mpc, child_pid, shutdown_child_pid, forked, worker, crashed_before, events>>

\* (mutant) the master ends without a signal to its worker
MasterShutdownSilent ==
    /\ Handle("TERM")
    /\ mpc' = "exited"
    /\ UNCHANGED <<child_pid, shutdown_child_pid, forked, told, worker, crashed_before, events>>

\* master_shutdown: a worker has no handler for SIGUSR2
MasterShutdown ==
    /\ Handle("TERM")
    /\ worker' = [p \in Pid |-> IF p \in Receivers(child_pid) THEN "signaled" ELSE worker[p]]
    /\ mpc' = "exited"
    /\ UNCHANGED <<child_pid, shutdown_child_pid, forked, told, crashed_before, events>>

----------------------------------------------------------------------------
(* A worker process (main, after fork)                                     *)

WorkerUnchanged == UNCHANGED <<mpc, child_pid, shutdown_child_pid, forked, crashed_before, events>>

\* (mutant) the wrong signal tells the master
StartOkUsr2(p) ==
    /\ worker[p] \in {"starting", "halted"}
    /\ worker' = [worker EXCEPT ![p] = IF @ = "starting" THEN "running" ELSE "draining"]
    /\ pending' = IF Up THEN pending \cup {"USR2"} ELSE pending
    /\ UNCHANGED told /\ WorkerUnchanged

\* app::run_all and the worker threads are up: tell the master
StartOk(p) ==
    /\ worker[p] \in {"starting", "halted"}
    /\ worker' = [worker EXCEPT ![p] = IF @ = "starting" THEN "running" ELSE "draining"]
    /\ pending' = IF Up THEN pending \cup {"USR1"} ELSE pending
    /\ UNCHANGED told /\ WorkerUnchanged

\* main: conf::load, log::open, g::init or app::run_all fails, exit(1)
StartFails(p) ==
    /\ "bad_conf" \in events
    /\ worker[p] = "starting"
    /\ worker' = EndedBy(p, "exited")
    /\ told' = told \ {p}
    /\ UNCHANGED pending /\ WorkerUnchanged

\* SIGUSR1: let_worker_shutdown closes the acceptors, once.  Before its handler
\* is installed, or while g_leader is not there, the signal is fatal; from then on
\* until the worker runs, it will drain as soon as it does.
LetWorkerShutdown(p) ==
    /\ p \in told
    /\ told' = told \ {p}
    /\ \/ worker[p] = "running" /\ worker' = [worker EXCEPT ![p] = "draining"]
       \/ worker[p] = "starting" /\ \E s \in {"signaled", "halted"} : worker' = EndedBy(p, s)
       \/ worker[p] \in {"halted", "draining"} /\ UNCHANGED worker
    /\ UNCHANGED pending /\ WorkerUnchanged

\* the admin API's /shutdown does the same without a signal
AdminShutdown(p) ==
    /\ "admin_stop" \in events
    /\ worker[p] = "running"
    /\ worker' = [worker EXCEPT ![p] = "draining"]
    /\ UNCHANGED <<pending, told>> /\ WorkerUnchanged

\* worker_shutdown::on_timeout: no active frontend is left, exit(0)
DrainedExit(p) ==
    /\ worker[p] = "draining"
    /\ worker' = EndedBy(p, "exited")
    /\ told' = told \ {p}
    /\ UNCHANGED pending /\ WorkerUnchanged

\* a worker ends by a signal of its own (SIGSEGV, the OOM killer)
WorkerCrash(p) ==
    /\ "crash" \in events
    /\ Alive(p) /\ Room
    /\ worker' = EndedBy(p, "signaled")
    /\ told' = told \ {p}
    /\ UNCHANGED pending /\ WorkerUnchanged

----------------------------------------------------------------------------
(* The operator.  A careful one reloads only when every worker that was    *)
(* forked has started and said so.                                         *)

Settled == /\ "USR1" \notin pending /\ mpc = "wait"
           /\ \A p \in Pid : worker[p] \notin {"starting", "halted"}

Send(sig) ==
    /\ Up /\ sig \notin pending
    /\ pending' = pending \cup {sig}
    /\ UNCHANGED <<worker, told>> /\ WorkerUnchanged

SendHup  == "reload" \in events /\ ("early_reload" \in events \/ Settled) /\ Room
           /\ Send("HUP")
SendTerm == "stop" \in events /\ Send("TERM")

----------------------------------------------------------------------------

MainStep ==
    \/ Fork \/ Assign \/ Usleep \/ WaitNoChild
    \/ \E p \in Pid : WaitOld(p) \/ WaitExited(p) \/ WaitSignaled(p)

WorkerStep(p) == StartOk(p) \/ DrainedExit(p)

Next ==
    \/ MainStep
    \/ ReloadWorker \/ NewWorkerStartOk \/ MasterShutdown
    \/ \E p \in Pid : \/ WorkerStep(p) \/ LetWorkerShutdown(p) \/ StartFails(p)
                      \/ AdminShutdown(p) \/ WorkerCrash(p)
    \/ SendHup \/ SendTerm

Spec == Init /\ [][Next]_mvars

\* The kernel runs every process and delivers its signals.  A starting worker gets
\* ready, and one that drains becomes empty: its clients leave, or are idle and
\* closed by worker_check_frontend_active.
FairSpec ==
    /\ Spec
    /\ WF_mvars(MainStep) /\ WF_mvars(ReloadWorker) /\ WF_mvars(NewWorkerStartOk)
    /\ WF_mvars(MasterShutdown)
    /\ \A p \in Pid : WF_mvars(WorkerStep(p)) /\ WF_mvars(LetWorkerShutdown(p))

----------------------------------------------------------------------------
(* Properties                                                              *)

\* Every variable has its type.
TypeOK ==
    /\ mpc \in {"fork", "assign", "wait", "usleep", "exited"}
    /\ {child_pid, shutdown_child_pid, forked} \subseteq Pid \cup {None, Failed}
    /\ pending \subseteq {"HUP", "USR1", "TERM"}
    /\ worker \in [Pid -> WorkerState]
    /\ told \subseteq Pid
    /\ crashed_before \in BOOLEAN
    /\ events \in EventSets

Serving == {p \in Pid : worker[p] = "running"}

\* Reload is graceful (README.md:158, "like nginx reload"; niubix.cpp:294, the old
\* worker is shut down when the new one has started): once a worker serves, one
\* keeps serving as long as none crashes and nobody stops the service.
NoServiceGap ==
    [][mpc' # "exited" /\ Serving # {} => Serving' # {}]_mvars

\* The same for an operator who waits with a reload until every worker has started,
\* where fork succeeds (after a fork that failed child_pid is -1, kill(-1) is for all).
CarefulReloadServes ==
    [][{"early_reload", "crash", "admin_stop", "fork_fails"} \cap events = {}
       => (mpc' # "exited" /\ Serving # {} => Serving' # {})]_mvars

\* A reload and a crash together: the respawn replaces a pid the reload stored.
CrashDuringReload == {"reload", "crash"} \subseteq events

\* At most two workers live at a time, and two only during a reload.
ReloadIsBounded ==
    ~CrashDuringReload =>
    LET live == {p \in Pid : Alive(p)} IN
    /\ Cardinality(live) <= 2
    /\ Cardinality(live) = 2 /\ mpc \in {"wait", "usleep"}
         => shutdown_child_pid \in live /\ child_pid \in live

\* The master never loses a worker it runs: a worker that lives is the current
\* one, the one being replaced, or the one whose pid is about to be stored.
EveryWorkerKnown ==
    Up /\ ~CrashDuringReload =>
        \A p \in Pid : Alive(p) =>
            p \in {child_pid, shutdown_child_pid} \/ (mpc = "assign" /\ p = forked)

\* "stop niubix `kill -TERM master_pid`" (niubix.cpp:98): once the master has
\* obeyed, every worker it had ends, where no reload can be under way, nor the
\* respawn after a crash between its fork and the assignment of child_pid.
StopStopsAll ==
    \A p \in Pid :
        ({"reload", "crash"} \cap events = {} /\ mpc = "exited" /\ Alive(p)) ~> ~Alive(p)

\* "reload niubix `kill -HUP master_pid`" (niubix.cpp:99): a reload comes to its
\* end, the old worker is gone and the next SIGHUP is not refused, where every
\* worker that was forked stays.
ReloadEnds ==
    ({"crash", "fork_fails"} \cap events = {} /\ Up /\ shutdown_child_pid # None)
        ~> (~Up \/ shutdown_child_pid = None)

============================================================================
