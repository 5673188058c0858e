---------------------------- MODULE ProxyWorker ----------------------------
(***************************************************************************)
(* One worker thread of niubix: the epoll loop (evpoll), its task queue    *)
(* (task_in_worker), the connection handlers (http_frontend, backend,      *)
(* in_progress_connect), the acceptor and the per-worker timers that end a *)
(* connect attempt or an idle frontend.                                    *)
(*                                                                         *)
(* A handler is an address: a member of Frontend or Backend that is "free" *)
(* when no object lives there and is reused by a later `new'.  A frontend  *)
(* and its backend hold raw pointers to each other (peer) and may touch    *)
(* each other only through tasks.  File descriptors are reused as soon as  *)
(* they are closed.  The bytes are abstracted: a send is complete or       *)
(* leaves something in the send queue.                                     *)
(***************************************************************************)
EXTENDS Integers, Sequences, FiniteSets

CONSTANTS Frontend,    \* addresses at which an http_frontend can live
          Backend,     \* addresses at which a backend can live
          Fd,          \* descriptors of connections
          ListenFd,    \* the acceptor's descriptor
          TimerFd,     \* the timer_qheap's descriptor
          None,        \* nullptr, or fd == -1
          Envs,        \* the environments examined: each a set of EnvCases
          MaxReady,    \* events one epoll_wait returns (128 in evpoll::run)
          MaxBacklog   \* tasks beyond which no accept fails (64 accepts in the
                       \* code bound what one accept event can leave behind)

Conn == Frontend \cup Backend

\* single_port: the listening port is bound to one app, a backend is connected
\*   on accept; host_port: several apps, the first request's Host decides.
\* sync_connect: ::connect() may succeed at once.  slow_client, slow_server: a
\*   frontend's or a backend's socket may take fewer bytes than offered.
\* epoll_full: EPOLL_CTL_ADD may fail.  bad_request: a request may be rejected by
\* the parser.  one_client: nobody connects while a client is connected.
EnvCases == {"single_port", "host_port", "sync_connect", "slow_client",
             "slow_server", "epoll_full", "bad_request", "one_client"}

ASSUME ConstantsAssumption ==
    /\ Frontend \cap Backend = {}
    /\ None \notin Conn \cup Fd
    /\ ListenFd # TimerFd /\ {ListenFd, TimerFd} \cap (Fd \cup {None}) = {}
    /\ Envs \subseteq SUBSET EnvCases
    /\ MaxReady \in Nat /\ MaxBacklog \in Nat

\* objects live in a memory, which is finite
ASSUME FiniteMemory == IsFiniteSet(Frontend) /\ IsFiniteSet(Backend)

VARIABLES
    st,       \* life of the object at an address
    peer,     \* http_frontend::backend_conn and backend::frontend_conn
    fd,       \* ev_handler::fd; while a backend is new_ok, its connect's fd
    io,       \* io_handle: the send queue, async_send_polling, recv_paused
    req,      \* matched_app and received_data_before_match_app
    pd,       \* poll_desc_map, equal to what epoll has registered
    taskq,    \* evpoll::taskq
    todo,     \* tasks do_tasks has still to run (its `len' snapshot)
    ready,    \* ready_events not yet handled
    cur,      \* the event being handled
    due,      \* handlers whose timer expired, not yet called by timer_qheap
    phase,    \* where evpoll::run is
    frontend_active_n, backend_active_n,    \* counters of the app
    env       \* what the environment does in this run of the worker; fixed

vars == <<st, peer, fd, io, req, pd, taskq, todo, ready, cur, due, phase,
          frontend_active_n, backend_active_n, env>>

handlers == <<st, peer, fd, io, req, frontend_active_n, backend_active_n>>
loop     == <<todo, ready, cur, due, phase, env>>

----------------------------------------------------------------------------
(* Values                                                                  *)

\* A frontend is conn_ok until its backend is connected; a backend is new_ok
\* while its in_progress_connect lives.  closed and conn_fail are left within
\* the call that enters them (delete this).
LiveState == {"new_ok", "conn_ok", "active_ok"}
Live(h)   == st[h] \in LiveState

FreshIo == [buf |-> "none", polling |-> FALSE, paused |-> FALSE]
IoState == [buf : {"none", "empty", "data"}, polling : BOOLEAN, paused : BOOLEAN]

\* kind tells an in_progress_connect ("connect") from an io_handle ("io")
NoPd    == [eh |-> None, kind |-> "io", ev |-> {}]
PdState == [eh : Conn \cup {None}, kind : {"io", "connect"}, ev : SUBSET {"r", "w"}]

Task     == [type : {"backend_conn_ok", "backend_conn_fail", "backend_close",
                     "frontend_inactive", "backend_send_buffer_drained"},
             p : Frontend]
            \cup [type : {"frontend_close", "frontend_send_buffer_drained"},
                  p : Backend]
T(t, h)  == [type |-> t, p |-> h]

\* the code keeps &poll_desc, not the handler whose event epoll_wait reported
Event == [fd : Fd \cup {ListenFd, TimerFd}, ev : SUBSET {"in", "out", "err"}]

\* cur = None says that no event is at hand
ASSUME NoneIsNoEvent == None \notin Event

FreeFds     == {n \in Fd : \A h \in Conn : fd[h] # n}
Registered(n) == pd[n].eh # None

----------------------------------------------------------------------------
(* Poller calls, as functions on the poll_desc table                       *)

\* evpoll::remove(fd, ev_all)
RemoveAll(p, n) == [p EXCEPT ![n] = NoPd]

\* evpoll::remove(fd, ev): the descriptor goes when no interest is left
RemoveEv(p, n, e) ==
    IF p[n].eh # None /\ p[n].ev \subseteq {e} THEN RemoveAll(p, n)
    ELSE [p EXCEPT ![n].ev = @ \ {e}]

\* evpoll::append: MOD of a registered descriptor, without effect otherwise
AppendEv(p, n, e) ==
    IF p[n].eh = None THEN p ELSE [p EXCEPT ![n].ev = @ \cup {e}]

\* evpoll::add: EPOLL_CTL_ADD refuses a descriptor that is registered already
AddEv(p, n, h, k, e) == [p EXCEPT ![n] = [eh |-> h, kind |-> k, ev |-> e]]
CanAdd(p, n)   == p[n].eh = None
MayFailAdd(p, n) == p[n].eh # None \/ "epoll_full" \in env

----------------------------------------------------------------------------
(* Closing a handler and telling its peer                                  *)

\* (mutant) every close counts, the close of a waiting connection too
IsActiveAlways(h) == 1

IsActive(h) == IF st[h] = "active_ok" THEN 1 ELSE 0

\* (mutant) the task goes to the wrong kind of handler
PeerTaskSwapped(h) ==
    IF peer[h] = None THEN <<>>
    ELSE << T(IF h \in Frontend THEN "backend_close" ELSE "frontend_close", peer[h]) >>

\* (mutant) a handler that is not active yet does not tell its peer
PeerTaskActiveOnly(h) ==
    IF peer[h] = None \/ st[h] # "active_ok" THEN <<>>
    ELSE << T(IF h \in Frontend THEN "frontend_close" ELSE "backend_close", peer[h]) >>

\* frontend_close() / backend_close(): the peer forgets h and gets a task
\* unless it had forgotten h already
PeerTask(h) ==
    IF peer[h] = None THEN <<>>
    ELSE << T(IF h \in Frontend THEN "frontend_close" ELSE "backend_close",
              peer[h]) >>

\* (mutant) the close of h leaves the peer's pointer to it
UnlinkedOneSided(h) == [peer EXCEPT ![h] = None]

\* both pointers of the pair become null
Unlinked(h) == [x \in Conn |-> IF x \in {h, peer[h]} THEN None ELSE peer[x]]

\* on_close: release h.  q, p and s are the task queue, the poller table and the
\* send queues reached so far: the caller removes the descriptor from the poller.
OnClose(h, q, p, s) ==
    /\ peer' = Unlinked(h)
    /\ st' = [st EXCEPT ![h] = "free"]
    /\ fd' = [fd EXCEPT ![h] = None]
    /\ io' = [s EXCEPT ![h] = FreshIo]
    /\ req' = IF h \in Frontend THEN [req EXCEPT ![h] = "no"] ELSE req
    /\ IF h \in Frontend
       THEN /\ frontend_active_n' = frontend_active_n - IsActive(h)
            /\ UNCHANGED backend_active_n
       ELSE /\ backend_active_n' = backend_active_n - IsActive(h)
            /\ UNCHANGED frontend_active_n
    /\ taskq' = q \o PeerTask(h)
    /\ pd' = p

\* (mutant) on_close without the remove_ev before it
CloseKeepsPd(h, q) == OnClose(h, q, pd, io)

\* the sequence of evpoll::run and of the tasks: remove_ev(ev_all), on_close
Close(h, q) == OnClose(h, q, RemoveAll(pd, fd[h]), io)

----------------------------------------------------------------------------
(* Sending and flow control                                                *)

CanBeSlow(h) == (IF h \in Frontend THEN "slow_client" ELSE "slow_server") \in env

\* io_handle::send to h: everything is taken, or the rest is queued and write
\* interest asked for once.  A backend that is still connecting has no fd.
SendIo(h) ==
    IF st[h] = "new_ok" THEN {io[h]}
    ELSE IF io[h].buf = "data" THEN {io[h]}
    ELSE {io[h]} \cup (IF CanBeSlow(h)
                       THEN {[io[h] EXCEPT !.buf = "data", !.polling = TRUE]} ELSE {})

\* (mutant) the write interest is never asked for
SendPdSilent(h, new, p) == p

SendPd(h, new, p) ==
    IF new.buf = "data" /\ io[h].buf # "data" /\ ~io[h].polling
    THEN AppendEv(p, fd[h], "w") ELSE p

\* (mutant) pause_recv without remove_ev
PausePdKeeps(h, p) == p

\* pause_recv of h
PauseIo(h)    == [io[h] EXCEPT !.paused = TRUE]
PausePd(h, p) == IF io[h].paused THEN p ELSE RemoveEv(p, fd[h], "r")

\* forward_to_backend, and the data path of backend::on_read: h passes what it
\* received to its peer g and stops reading while g has data to send.
\* Result: all pairs of the new io and poller table.
Forward(h) ==
    IF peer[h] = None THEN {<<io, pd>>}
    ELSE LET g == peer[h] IN
      { IF new.buf = "data"
        THEN <<[io EXCEPT ![g] = new, ![h] = PauseIo(h)],
               PausePd(h, SendPd(g, new, pd))>>
        ELSE <<[io EXCEPT ![g] = new], SendPd(g, new, pd)>> : new \in SendIo(g) }

----------------------------------------------------------------------------
(* Connecting a backend (http_frontend::to_connect_backend, connector)     *)

\* (mutant) the frontend is told before the connect has ended
ConnectingTellsEarly(f, b, m, q, p) ==
    /\ st' = [st EXCEPT ![f] = "conn_ok", ![b] = "new_ok"]
    /\ pd' = AddEv(p, m, b, "connect", {"r", "w"})
    /\ taskq' = Append(q, T("backend_conn_ok", f))
    /\ UNCHANGED backend_active_n

\* The connect is under way: an in_progress_connect owns descriptor m
Connecting(f, b, m, q, p) ==
    /\ st' = [st EXCEPT ![f] = "conn_ok", ![b] = "new_ok"]
    /\ pd' = AddEv(p, m, b, "connect", {"r", "w"})
    /\ taskq' = q
    /\ UNCHANGED backend_active_n

\* ::connect() returned 0: backend::on_open runs inside connector::connect
Connected(f, b, m, q, p) ==
    /\ "sync_connect" \in env
    /\ st' = [st EXCEPT ![f] = "conn_ok", ![b] = "active_ok"]
    /\ pd' = AddEv(p, m, b, "io", {"r"})
    /\ taskq' = Append(q, T("backend_conn_ok", f))
    /\ backend_active_n' = backend_active_n + 1

ToConnectBackend(f, n, r, q, p) ==
    \E b \in Backend, m \in FreeFds \ {n} :
        /\ st[b] = "free"
        /\ peer' = [peer EXCEPT ![f] = b, ![b] = f]
        /\ fd' = [fd EXCEPT ![f] = n, ![b] = m]
        /\ req' = [req EXCEPT ![f] = r]
        /\ Connecting(f, b, m, q, p) \/ Connected(f, b, m, q, p)
        /\ UNCHANGED <<io, frontend_active_n>>

\* tasks left by a connect that succeeds at once and whose add_ev fails:
\* on_open has told the frontend twice when connect() returns -1
SyncFailTasks(f) == <<T("backend_conn_ok", f), T("backend_close", f)>>

\* the ways to_connect_backend returns -1: no backend, no descriptor, an error
\* of connect(), or the case above
FailedConnectTasks(f) ==
    {<<>>} \cup (IF {"sync_connect", "epoll_full"} \subseteq env
                 THEN {SyncFailTasks(f)} ELSE {})

----------------------------------------------------------------------------
(* The loop of evpoll::run                                                 *)

Init ==
    /\ st = [h \in Conn |-> "free"]
    /\ peer = [h \in Conn |-> None]
    /\ fd = [h \in Conn |-> None]
    /\ io = [h \in Conn |-> FreshIo]
    /\ req = [f \in Frontend |-> "no"]
    /\ pd = [n \in Fd |-> NoPd]
    /\ taskq = <<>> /\ todo = 0
    /\ ready = {} /\ cur = None /\ due = {}
    /\ phase = "tasks"
    /\ frontend_active_n = 0 /\ backend_active_n = 0
    /\ env \in Envs

\* events epoll can report on n: a hang-up or error at any time
EventsOf(n) ==
    [fd : {n},
     ev : {{"err"}} \cup
          {e \in SUBSET {"in", "out"} :
              /\ e # {} /\ ("in" \in e => "r" \in pd[n].ev)
              /\ ("out" \in e => "w" \in pd[n].ev)}]

ListenEvent == [fd |-> ListenFd, ev |-> {"in"}]
TimerEvent  == [fd |-> TimerFd,  ev |-> {"in"}]

\* epoll_wait: at most one event for each descriptor.  An empty batch stands
\* for the wakeup eventfd or a timer that concerns no connection.
EpollWait ==
    /\ phase = "tasks" /\ todo = 0
    /\ \E b \in SUBSET ({ListenEvent, TimerEvent} \cup
                       (UNION {EventsOf(n) : n \in {m \in Fd : Registered(m)}})) :
        /\ Cardinality(b) <= MaxReady
        /\ \A e1, e2 \in b : e1.fd = e2.fd => e1 = e2
        /\ ready' = b
    /\ phase' = "events"
    /\ UNCHANGED <<handlers, pd, taskq, todo, cur, due, env>>

\* (mutant) no timer is scheduled for a connect
NextEventNoConnectTimer ==
    /\ phase = "events" /\ cur = None
    /\ \E e \in ready :
        /\ cur' = e /\ ready' = ready \ {e}
        /\ IF e.fd = TimerFd
           THEN due' \in SUBSET {f \in Frontend : st[f] = "active_ok"}
           ELSE due' = due
    /\ UNCHANGED <<handlers, pd, taskq, todo, phase, env>>

\* the next entry of ready_events
NextEvent ==
    /\ phase = "events" /\ cur = None
    /\ \E e \in ready :
        /\ cur' = e /\ ready' = ready \ {e}
        /\ IF e.fd = TimerFd
           THEN due' \in SUBSET {h \in Conn : \/ h \in Backend /\ st[h] = "new_ok"
                                              \/ h \in Frontend /\ st[h] = "active_ok"}
           ELSE due' = due
    /\ UNCHANGED <<handlers, pd, taskq, todo, phase, env>>

\* end of the `for': back to the top of the loop, where do_tasks takes the
\* length of the queue before it runs the first task
LoopTop ==
    /\ phase = "events" /\ cur = None /\ ready = {}
    /\ phase' = "tasks" /\ todo' = Len(taskq)
    /\ UNCHANGED <<handlers, pd, taskq, ready, cur, due, env>>

\* a null virtual call or the use of a freed object ends the process ...
Crash == /\ phase' = "crashed"
         /\ UNCHANGED <<handlers, pd, taskq, todo, ready, cur, due, env>>

\* ... and the master forks a new worker (niubix.cpp, master_run)
Restart ==
    /\ phase = "crashed"
    /\ st' = [h \in Conn |-> "free"]
    /\ peer' = [h \in Conn |-> None]
    /\ fd' = [h \in Conn |-> None]
    /\ io' = [h \in Conn |-> FreshIo]
    /\ req' = [f \in Frontend |-> "no"]
    /\ pd' = [n \in Fd |-> NoPd]
    /\ taskq' = <<>> /\ todo' = 0
    /\ ready' = {} /\ cur' = None /\ due' = {}
    /\ phase' = "tasks"
    /\ frontend_active_n' = 0 /\ backend_active_n' = 0
    /\ UNCHANGED env

----------------------------------------------------------------------------
(* Event handlers.  Handling(h, k, e): the event at hand is e for the      *)
(* handler its poll_desc names NOW, which is what the loop dispatches on.   *)

InEvent == phase = "events" /\ cur # None
IoEvent == InEvent /\ cur.fd \in Fd

Handling(h, k, e) ==
    /\ IoEvent
    /\ pd[cur.fd].eh = h /\ pd[cur.fd].kind = k
    /\ CASE e = "err" -> "err" \in cur.ev
         [] e = "out" -> "out" \in cur.ev
         [] e = "in"  -> cur.ev = {"in"}

EndEvent == cur' = None /\ UNCHANGED <<todo, ready, due, phase, env>>

\* pd->eh == nullptr: somebody removed the descriptor, the event is dropped
SkipEvent ==
    /\ IoEvent /\ pd[cur.fd].eh = None
    /\ EndEvent
    /\ UNCHANGED <<handlers, pd, taskq>>

\* EPOLLHUP | EPOLLERR on an established connection
OnError(h) == Handling(h, "io", "err") /\ Close(h, taskq) /\ EndEvent

\* backend::on_connect_fail, then the in_progress_connect closes its fd
ConnectFail(b, q) ==
    /\ peer' = Unlinked(b)
    /\ st' = [st EXCEPT ![b] = "free"]
    /\ fd' = [fd EXCEPT ![b] = None]
    /\ io' = [io EXCEPT ![b] = FreshIo]
    /\ pd' = RemoveAll(pd, fd[b])
    /\ taskq' = IF peer[b] = None THEN q ELSE Append(q, T("backend_conn_fail", peer[b]))
    /\ UNCHANGED <<req, frontend_active_n, backend_active_n>>

\* the connect attempt ends with an error or an early read event
OnConnectFail(b) ==
    /\ Handling(b, "connect", "err") \/ Handling(b, "connect", "in")
    /\ ConnectFail(b, taskq)
    /\ EndEvent

\* in_progress_connect::on_write, removal, on_close, backend::on_open: the
\* frontend learns of it by a task; without a frontend, or when the descriptor
\* cannot be added again, the backend closes itself
OnConnectOk(b) ==
    /\ Handling(b, "connect", "out")
    /\ LET p == RemoveAll(pd, fd[b])
           f == peer[b]
           q == IF f # None /\ st[f] = "conn_ok"
                THEN Append(taskq, T("backend_conn_ok", f)) ELSE taskq
       IN \/ /\ f # None
             /\ st' = [st EXCEPT ![b] = "active_ok"]
             /\ pd' = AddEv(p, fd[b], b, "io", {"r"})
             /\ taskq' = q
             /\ backend_active_n' = backend_active_n + 1
             /\ UNCHANGED <<peer, fd, io, req, frontend_active_n>>
          \/ /\ f = None \/ MayFailAdd(p, fd[b])
             /\ OnClose(b, q, p, io)
    /\ EndEvent

\* io_handle::on_write: flush the queue; when it empties, drop the write
\* interest and tell the peer.  The socket may also take a part only.
\* EPOLLIN of the same event comes next.
DrainedTask(h) ==
    IF peer[h] = None THEN <<>>
    ELSE << T(IF h \in Frontend THEN "frontend_send_buffer_drained"
              ELSE "backend_send_buffer_drained", peer[h]) >>

OnWrite(h) ==
    /\ Handling(h, "io", "out")
    /\ IF io[h].buf = "none" THEN Crash       \* async_send_buf_q == nullptr
       ELSE /\ \/ io[h].buf = "data" /\ UNCHANGED <<io, pd, taskq>>
               \/ /\ io' = [io EXCEPT ![h].buf = "empty", ![h].polling = FALSE]
                  /\ IF io[h].polling
                     THEN /\ pd' = RemoveEv(pd, fd[h], "w")
                          /\ taskq' = taskq \o DrainedTask(h)
                     ELSE UNCHANGED <<pd, taskq>>
            /\ cur' = IF "in" \in cur.ev THEN [cur EXCEPT !.ev = {"in"}] ELSE None
            /\ UNCHANGED <<st, peer, fd, req, frontend_active_n, backend_active_n,
                           todo, ready, due, phase, env>>

\* recv() returns -1 or an incomplete request: nothing happens
OnReadNothing(h) ==
    /\ Handling(h, "io", "in")
    /\ h \in Backend => peer[h] # None
    /\ EndEvent
    /\ UNCHANGED <<handlers, pd, taskq>>

\* recv() returns 0, or backend::on_read finds no frontend, or the request is
\* refused before anything was forwarded
OnReadClose(h) == Handling(h, "io", "in") /\ Close(h, taskq) /\ EndEvent

\* data for the peer
OnReadForward(h) ==
    /\ Handling(h, "io", "in")
    /\ IF h \in Frontend THEN req[h] = "yes" ELSE peer[h] # None
    /\ \E r \in Forward(h) : io' = r[1] /\ pd' = r[2]
    /\ EndEvent
    /\ UNCHANGED <<st, peer, fd, req, taskq, frontend_active_n, backend_active_n>>

\* pipelined requests in one read: the first is forwarded, a later one is
\* refused.  on_read returns false; evpoll::run then takes pd->eh, which the
\* pause of the first request may have cleared.
OnReadForwardThenClose(f) ==
    /\ "bad_request" \in env
    /\ Handling(f, "io", "in") /\ f \in Frontend /\ req[f] = "yes" /\ peer[f] # None
    /\ \E r \in Forward(f) :
          IF r[2][cur.fd].eh = None THEN Crash
          ELSE OnClose(f, taskq, RemoveAll(r[2], fd[f]), r[1]) /\ EndEvent

\* (mutant) asks for the backend where it should ask for the app
OnReadMatchAgain(f) ==
    /\ Handling(f, "io", "in") /\ f \in Frontend /\ peer[f] = None
    /\ \/ ToConnectBackend(f, fd[f], "saved", taskq, RemoveEv(pd, fd[f], "r"))
       \/ \E s \in FailedConnectTasks(f) : Close(f, taskq \o s)
    /\ EndEvent

\* the first complete request of a port shared by several apps: save it, pick
\* the app by Host, connect, stop reading until the backend is there
OnReadMatch(f) ==
    /\ Handling(f, "io", "in") /\ f \in Frontend /\ req[f] = "no"
    /\ \/ ToConnectBackend(f, fd[f], "saved", taskq, RemoveEv(pd, fd[f], "r"))
       \/ \E s \in FailedConnectTasks(f) : Close(f, taskq \o s)
    /\ EndEvent

----------------------------------------------------------------------------
(* acceptor::on_read: up to 64 connections in one event                    *)

Accept(f) ==
    /\ InEvent /\ cur.fd = ListenFd
    /\ st[f] = "free"
    /\ "one_client" \in env => \A g \in Frontend : ~Live(g)
    /\ \E n \in FreeFds :
        \/ /\ "single_port" \in env
           /\ ToConnectBackend(f, n, "yes", taskq, pd)
        \/ /\ "host_port" \in env
           /\ st' = [st EXCEPT ![f] = "conn_ok"]
           /\ fd' = [fd EXCEPT ![f] = n]
           /\ pd' = AddEv(pd, n, f, "io", {"r"})
           /\ UNCHANGED <<peer, io, req, taskq, frontend_active_n, backend_active_n>>
        \* to_connect_backend failed: f is deleted before anything was kept
        \/ /\ "single_port" \in env
           /\ Len(taskq) <= MaxBacklog
           /\ \E s \in FailedConnectTasks(f) : s # <<>> /\ taskq' = taskq \o s
           /\ UNCHANGED <<handlers, pd>>
    /\ UNCHANGED loop

AcceptDone ==
    /\ InEvent /\ cur.fd = ListenFd
    /\ EndEvent
    /\ UNCHANGED <<handlers, pd, taskq>>

----------------------------------------------------------------------------
(* timer_qheap::on_read: every expired item is called                      *)

\* in_progress_connect::on_timeout
ConnectTimeout(b) ==
    /\ InEvent /\ b \in due /\ b \in Backend
    /\ ConnectFail(b, taskq)
    /\ due' = due \ {b}
    /\ UNCHANGED <<todo, ready, cur, phase, env>>

\* worker_check_frontend_active::on_timeout
FrontendInactive(f) ==
    /\ InEvent /\ f \in due /\ f \in Frontend
    /\ taskq' = Append(taskq, T("frontend_inactive", f))
    /\ due' = due \ {f}
    /\ UNCHANGED <<handlers, pd, todo, ready, cur, phase, env>>

TimerDone ==
    /\ InEvent /\ cur.fd = TimerFd /\ due = {}
    /\ EndEvent
    /\ UNCHANGED <<handlers, pd, taskq>>

----------------------------------------------------------------------------
(* Tasks: do_task, then pop_front                                          *)

RunsTask(t, h) ==
    /\ phase = "tasks" /\ todo > 0
    /\ Head(taskq).type = t /\ Head(taskq).p = h

EndTask == todo' = todo - 1 /\ UNCHANGED <<ready, cur, due, phase, env>>

DropTask == taskq' = Tail(taskq) /\ EndTask /\ UNCHANGED <<handlers, pd>>

\* The object of the task was deleted after the task was pushed and its memory
\* is free.  What the call does depends on what the allocator left there: the
\* members read as closed, or the call goes through a clobbered vtable.
StaleTask ==
    /\ phase = "tasks" /\ todo > 0 /\ ~Live(Head(taskq).p)
    /\ DropTask \/ Crash

\* on_backend_connect_fail, on_backend_close, on_frontend_inactive
TaskClosesFrontend(f) ==
    /\ \/ RunsTask("backend_conn_fail", f) \/ RunsTask("backend_close", f)
       \/ RunsTask("frontend_inactive", f)
    /\ Live(f)
    /\ Close(f, Tail(taskq)) /\ EndTask

\* (mutant) the check of the state is the wrong way round
TaskFrontendCloseInverted(b) ==
    /\ RunsTask("frontend_close", b) /\ Live(b)
    /\ IF st[b] # "new_ok" THEN DropTask
       ELSE Close(b, Tail(taskq)) /\ EndTask

\* backend::on_frontend_close: a connect under way keeps the backend
TaskFrontendClose(b) ==
    /\ RunsTask("frontend_close", b) /\ Live(b)
    /\ IF st[b] = "new_ok" THEN DropTask
       ELSE Close(b, Tail(taskq)) /\ EndTask

\* on_backend_send_buffer_drained, on_frontend_send_buffer_drained
TaskDrained(h) ==
    /\ \/ RunsTask("backend_send_buffer_drained", h)
       \/ RunsTask("frontend_send_buffer_drained", h)
    /\ Live(h)
    /\ \/ ~io[h].paused /\ DropTask
       \/ /\ io[h].paused /\ CanAdd(pd, fd[h])
          /\ pd' = AddEv(pd, fd[h], h, "io", {"r"})
          /\ io' = [io EXCEPT ![h].paused = FALSE]
          /\ taskq' = Tail(taskq)
          /\ EndTask
          /\ UNCHANGED <<st, peer, fd, req, frontend_active_n, backend_active_n>>
       \/ /\ io[h].paused /\ MayFailAdd(pd, fd[h])
          /\ Close(h, Tail(taskq)) /\ EndTask

\* http_frontend::on_backend_connect_ok: flush the saved request, start reading
TaskConnOk(f) ==
    /\ RunsTask("backend_conn_ok", f) /\ Live(f)
    /\ \/ peer[f] = None /\ DropTask
       \/ /\ peer[f] # None
          /\ \E r \in IF req[f] = "saved" THEN Forward(f) ELSE {<<io, pd>>} :
             \/ /\ CanAdd(r[2], fd[f])
                /\ io' = r[1]
                /\ pd' = AddEv(r[2], fd[f], f, "io", {"r"})
                /\ st' = [st EXCEPT ![f] = "active_ok"]
                /\ req' = [req EXCEPT ![f] = "yes"]
                /\ frontend_active_n' = frontend_active_n + 1
                /\ taskq' = Tail(taskq)
                /\ UNCHANGED <<peer, fd, backend_active_n>>
             \/ /\ MayFailAdd(r[2], fd[f])
                /\ OnClose(f, Tail(taskq), RemoveAll(r[2], fd[f]), r[1])
             \* a later request in the saved data is refused: no remove_ev here
             \/ /\ "bad_request" \in env /\ req[f] = "saved"
                /\ OnClose(f, Tail(taskq), r[2], r[1])
          /\ EndTask

----------------------------------------------------------------------------

Events(h) == OnError(h) \/ OnWrite(h) \/ OnReadNothing(h) \/ OnReadClose(h) \/ OnReadForward(h)

Next ==
    \/ EpollWait \/ NextEvent \/ LoopTop \/ Restart
    \/ SkipEvent \/ AcceptDone \/ TimerDone \/ StaleTask
    \/ \E h \in Conn : Events(h) \/ TaskDrained(h)
    \/ \E f \in Frontend :
         \/ Accept(f) \/ OnReadMatch(f) \/ OnReadForwardThenClose(f)
         \/ FrontendInactive(f) \/ TaskClosesFrontend(f) \/ TaskConnOk(f)
    \/ \E b \in Backend :
         OnConnectOk(b) \/ OnConnectFail(b) \/ ConnectTimeout(b) \/ TaskFrontendClose(b)

Spec == Init /\ [][Next]_vars

----------------------------------------------------------------------------
(* Properties                                                              *)

\* Every variable has its type.
TypeOK ==
    /\ st \in [Conn -> LiveState \cup {"free"}]
    /\ peer \in [Conn -> Conn \cup {None}]
    /\ fd \in [Conn -> Fd \cup {None}]
    /\ io \in [Conn -> IoState]
    /\ req \in [Frontend -> {"no", "saved", "yes"}]
    /\ pd \in [Fd -> PdState]
    /\ taskq \in Seq(Task) /\ todo \in Nat
    /\ ready \subseteq Event /\ cur \in Event \cup {None} /\ due \subseteq Conn
    /\ phase \in {"tasks", "events", "crashed"}
    /\ frontend_active_n \in Int /\ backend_active_n \in Int
    /\ env \in Envs

\* backend_conn and frontend_conn are never dangling nor one-sided: whoever
\* points at a peer is alive and the peer, alive and of the other class, points
\* back (http_frontend.cpp:95-97, on_close and *_close of both classes).
LinkSymmetry ==
    \A h \in Conn : peer[h] # None =>
        /\ Live(h) /\ Live(peer[h])
        /\ peer[peer[h]] = h
        /\ h \in Frontend <=> peer[h] \in Backend

\* What the poller would dispatch to is alive, owns that descriptor and is in
\* the state its registration is for: no poll_desc outlives its handler
\* (evpoll::run, "MUST before on_close").
PollerOwnsLive ==
    \A n \in Fd : Registered(n) =>
        LET h == pd[n].eh IN
        /\ Live(h) /\ fd[h] = n
        /\ pd[n].kind = "connect" <=> st[h] = "new_ok"

\* The counters that decide a graceful exit (worker_shutdown::on_timeout) count
\* exactly the active connections.
ActiveCountExact ==
    phase # "crashed" =>
        /\ frontend_active_n = Cardinality({f \in Frontend : st[f] = "active_ok"})
        /\ backend_active_n = Cardinality({b \in Backend : st[b] = "active_ok"})

\* No connection is left behind: one that lost its peer has a task that will
\* close it, or is a connect that closes itself when it ends.
NoOrphan ==
    phase # "crashed" =>
    \A h \in Conn : Live(h) /\ peer[h] = None =>
        IF h \in Frontend
        THEN req[h] = "no" \/ \E i \in 1..Len(taskq) :
                taskq[i].p = h /\ taskq[i].type \in {"backend_close", "backend_conn_fail"}
        ELSE st[h] = "new_ok" \/ \E i \in 1..Len(taskq) :
                taskq[i] = T("frontend_close", h)

\* A side that cannot be written to is not fed: while it has data queued, its
\* peer is paused and not registered for reading (pause_recv of both classes).
\* With host_port the frontend of a saved request that was sent in part only is
\* paused, yet registered by on_backend_connect_ok (http_frontend.cpp:121).  Where
\* that frontend's backend feeds it, and connects may succeed at once, a backend can
\* be resumed by the notice that a client drained, meant for the one that was at its
\* address before.
Backpressure ==
    ~({"host_port", "sync_connect", "slow_client", "slow_server"} \subseteq env) =>
    \A h \in Conn : io[h].buf = "data" /\ peer[h] # None =>
        LET g == peer[h] IN
        /\ io[g].paused
        /\ "r" \in pd[fd[g]].ev => g \in Frontend /\ "host_port" \in env

\* With congestion on one side, a paused handler can be resumed: its peer will be
\* reported writable and then drain, or the task that resumes it is queued.  With
\* both sides slow append_ev in io_handle::send has no effect on a handler whose
\* read interest, removed by the pause, was its only one.  Nor has it one on a frontend
\* that is out of the poller, waiting for its backend, which a backend that is connected
\* at once may feed: an event of its descriptor's last owner makes it read.
PausedCanResume ==
    ~({"slow_client", "slow_server"} \subseteq env \/ {"slow_client", "sync_connect"} \subseteq env) =>
    \A h \in Conn : io[h].paused /\ peer[h] # None =>
        \/ io[peer[h]].buf = "data" /\ "w" \in pd[fd[peer[h]]].ev
        \/ \E i \in 1..Len(taskq) :
              /\ taskq[i].p = h
              /\ taskq[i].type \in {"frontend_send_buffer_drained",
                                   "backend_send_buffer_drained"}

\* A frontend is read from only once its backend is connected: before, send()
\* has no descriptor and the request would be lost (io_handle::send, fd == -1).
\* Not so where a connect may fail after on_open has told the frontend of its
\* success: the next connection at that address gets the stale task.
ReadsOnlyWhenConnected ==
    ~({"sync_connect", "epoll_full"} \subseteq env) =>
    \A f \in Frontend : st[f] = "active_ok" /\ peer[f] # None
        => st[peer[f]] = "active_ok"

\* "released by the taskq, so the wait list does not matter" (backend.cpp:12-14,
\* http_frontend.cpp:95-97): the object a queued task names still exists.
NoDanglingTask == \A i \in 1..Len(taskq) : Live(taskq[i].p)

\* "continue recv data" (backend.cpp:74, http_frontend.cpp:215): a handler that is
\* told that its peer drained is not closed by it, as long as epoll_ctl can add.
\* With host_port it is: the frontend that Backpressure excepts is registered, and
\* so is, for writing, the backend it went on to feed.
ResumeContinues ==
    [][{"epoll_full", "host_port"} \cap env = {} =>
          \A h \in Conn : TaskDrained(h) => st'[h] = st[h]]_vars

----------------------------------------------------------------------------
(* The worker implements Sessions.  A connection whose pointer is null is    *)
(* parted, except a frontend that has not been given an app yet.            *)

StageOf(h) ==
    CASE ~Live(h) -> "none"
      [] Live(h) /\ peer[h] # None -> "joined"
      [] Live(h) /\ peer[h] = None /\ h \in Frontend /\ req[h] = "no" -> "fresh"
      [] OTHER -> "parted"

Served == INSTANCE Sessions WITH Client <- Frontend, Server <- Backend,
             stage <- [h \in Conn |-> StageOf(h)], partner <- peer

\* Every step of the worker is a step of Sessions or leaves sessions alone: at reused
\* addresses, with stale tasks and after failed connects too, a client is never given a
\* second backend, nor a backend a second client, and one whose peer closed only closes.
OneBackendPerClient == Served!SSpec

----------------------------------------------------------------------------
(* Fairness: the thread runs, the 48 ms cache timer ends every epoll_wait   *)
(* and the timer of a connect under way expires.                           *)

TimerFires      == EpollWait /\ TimerEvent \in ready'
TimerExpires(b) == NextEvent /\ cur' = TimerEvent /\ b \in due'

FairSpec == Spec /\ WF_vars(Next) /\ SF_vars(TimerFires)
                 /\ \A b \in Backend : SF_vars(TimerExpires(b))

\* A connection whose peer is gone is closed, and its address becomes free,
\* whatever the clients and servers do.
LeftBehindCloses ==
    \A h \in Conn :
        (Live(h) /\ peer[h] = None /\ (h \in Frontend => req[h] # "no")) ~> ~Live(h)

\* A connect attempt ends.
ConnectEnds == \A b \in Backend : (st[b] = "new_ok") ~> (st[b] # "new_ok")

============================================================================
