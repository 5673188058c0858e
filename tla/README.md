# niubix in TLA+

niubix is an HTTP reverse proxy. A master process forks one worker process; the
worker runs one event loop per thread; each loop accepts clients, connects each of
them to a backend server and moves bytes between the two. This directory models the
parts of it whose correctness depends on the order of things: the event loop with its
connections, the master with its signals, the graceful shutdown inside a worker, the
balancing and health checking of backends, the cross-thread task queue, the timer heap,
the framing of HTTP requests, and what the configuration of the apps lets through. TLC
checks them on small instances; TLAPS proves all of the safety results for all instances.

Paths below are relative to the repository; the C++ sources are in `src/`.

## 1. The system

| component | state | operations | talks to |
|---|---|---|---|
| event loop (`evpoll`, `poll_desc.h`, `ev_handler.h`) | table fd -> handler, epoll's interest list, the batch of ready events | `add`, `append`, `remove`, `run` | every handler, by virtual calls |
| worker (`worker.cpp`, `worker_timing_event.cpp`) | loop, queues, timers of a thread | 48 ms cache timer, wakeup, shutdown, idle frontends | loop, `async_taskq`, `timer_qheap` |
| task queue (`task_in_worker`, `ringq.h`) | FIFO of (type, pointer) | `add_task`, `do_tasks` | http_frontend, backend, acceptor |
| `http_frontend` | state, `backend_conn`, `matched_app`, saved first request, `recv_paused`, parser | events of the client's socket, tasks from the backend | backend (only by tasks, and by `send`) |
| `backend` | state, `frontend_conn`, `recv_paused` | events of the server's socket, end of the connect, tasks from the frontend | http_frontend |
| `connector`, `in_progress_connect` | a connect under way and its timer | `connect`, `on_write`, `on_read`, `on_timeout`, `on_close` | backend, loop, timers |
| `io_handle` | send queue, `async_send_polling` | `send`, `on_write`, `recv`, `destroy` | loop |
| `acceptor` | listening fd, app list | `on_read` (64 accepts), pause on EMFILE, `close` | http_frontend |
| `timer_qheap` | four-child heap, timerfd | `schedule`, `cancel`, `on_read` | every handler with a timer |
| `async_taskq` | two queues, `notified`, eventfd | `push` from any thread, `on_read` in the worker | leader, admin |
| `app` | backend list with weight, `current`, `down`, `offline` under `backend_mtx` | smooth weighted round robin, admin changes, health verdicts | frontend, admin, health check |
| `health_check` | one connection under way per backend | timer, connect, answer, timeout | app |
| request framing (`http_frontend_handle_req.cpp`, `http_parser.cpp`) | partial buffer, `content_length`, `host`, parser positions | `handle_data`, `handle_request`, `filter_headers`, `a_complete_req` | backend's send queue |
| master (`niubix.cpp`) | `child_pid`, `shutdown_child_pid`, `exception_exit_time` | fork, waitpid loop, SIGHUP, SIGUSR1, SIGTERM handlers | worker process, by signals |
| worker process (`global.cpp`, `leader.cpp`, `admin.cpp`) | `g_leader`, `worker_shutdowning`, the timer of `worker_shutdown` | start, SIGUSR1, admin API, exit when no frontend is active | master, every worker thread |
| configuration of the apps (`app::load_conf`, `run_all`, `match_app_by_host`) | `alls`, name, host, default and protocol sets, `listen_set` | load, open the listening addresses, match a Host | acceptor, http_frontend |
| log (`log.cpp`) | the mutex of one record | `info`, `error`, ... from threads and from signal handlers | every other part |
| helpers, stubs (`conf`, `http`, `socket.h`, `ssl`, `router`, `stat`, ...) | - | - | - |

What is hard about it:

* **Pointers without owners.** A frontend and its backend hold raw pointers to each
  other, die independently, and may be named by events, timers and tasks at that time.
  The rule of the code is that neither touches the other within its own call: it clears
  both pointers and pushes a task. Addresses and descriptors are reused at once.
* **Stale events.** `epoll_wait` returns a batch; handling one event may close the
  handler of a later one. Only the null check on `poll_desc::eh` protects the loop.
* **Flow control across two sockets**: who has data queued pauses its peer, and must
  resume it.
* **Signals.** Handlers run between any two statements of `master_run`, SIGUSR1 does not
  say which worker sent it, and two of a kind can merge into one.
* **A shutdown that is asked for twice**: by the admin's handler in the main thread and by a
  signal handler on top of it, told to threads that are busy, while acceptors pause and apps'
  counters, read one after the other, change.
* **A notification flag** (`async_taskq`) that is set by any thread and cleared by one.
* **A heap with lazy deletion** and a timerfd whose last setting is cached.
* **TCP segments** that end anywhere in a request.

`PROJECT.json` lists these hazards line by line, with the properties that cover them.

## 2. Modules

Each component has one module; `MC...` modules add symmetry sets and the sets of environments or configurations for TLC.

| module | models | proofs |
|---|---|---|
| `ProxyWorker` | one worker thread: loop, tasks, http_frontend, backend, connector, io_handle, acceptor, and the timers of connects and idle frontends | `ProxyWorker_proofs` |
| `Sessions` | what the proxy promises of connections: who is joined with whom, and when a connection is only left to end | |
| `Drain` | the graceful shutdown of a worker process: threads, acceptors, the exit | `Drain_proofs` |
| `Master` | master process, its signal handlers, the lives of worker processes | `Master_proofs` |
| `Upstream` | `app`'s backend list: round robin, admin changes, health checks | `Upstream_proofs` |
| `AsyncTaskq` | `push` from many threads against `on_read`, statement by statement | `AsyncTaskq_proofs` |
| `TaskQueue` | what `async_taskq` promises: one FIFO queue | |
| `TimerHeap` | the heap as a sequence, and the timerfd | `TimerHeap_proofs` |
| `HttpStream` | cutting the client's byte stream into requests and forwarding them | `HttpStream_proofs` |
| `AppConf` | which configurations of apps are accepted, and which app a Host leads to | `AppConf_proofs` |

The modules meet where the code's parts do. `Master` sees a worker process as `starting`, `running`,
`draining`; `Drain` is what happens in `draining`, and its `exited` is `Master`'s `DrainedExit`. `Drain`'s acceptors
and active frontends are those of `ProxyWorker`, each of whose instances is one thread of `Drain`. A frontend's backend in
`ProxyWorker` is any free address: which server it stands for is `Upstream`'s `Pick`, which app `AppConf`'s
`MatchAppByHost`. `HttpStream` is what `ProxyWorker` abstracts to `OnReadNothing`, `OnReadMatch`,
`OnReadForward` and the refusals.

### ProxyWorker

The composition of all handlers of one thread in one module, because they share the
poller's table, the task queue and each other's pointers.

* A **handler is an address**: `st[h] = "free"` when no object lives there. `delete` makes
  it free, the next `new` may take it again; the same holds for descriptors in `Fd`. This
  is what makes dangling pointers and descriptor reuse visible.
* **`st`** keeps `new_ok` (a backend whose `in_progress_connect` lives), `conn_ok` (a
  frontend that waits for its backend), `active_ok`. `closed` and `conn_fail` exist only
  inside one call.
* **`pd`** is `poll_desc_map` and epoll's interest list at once: the code changes them
  together. `AddEv`, `AppendEv`, `RemoveEv`, `RemoveAll` are the poller's calls.
* **`io`** abstracts the send queue to `none` (never allocated), `empty`, `data`.
* **`phase`, `todo`, `ready`, `cur`, `due`** are where the loop is: `do_tasks` with its length
  snapshot, then `epoll_wait`, then one event after the other. Each handler is one action
  that ends with `EndEvent` or `EndTask`, so that a whole C++ call is one step and steps of
  different connections interleave as the loop interleaves them. `due` holds the handlers
  whose timers `timer_qheap::on_read` is about to call.
* **`Crash`** stands for a call through a null pointer or into a freed object;
  `Restart` is the new worker the master forks. `StaleTask` is a task whose object is gone:
  what it does depends on the freed memory, so it either does nothing or crashes. When the
  address has been reused the task runs on the new object: the ordinary task actions.
* **`env`** is a variable that never changes: the initial states range over `Envs`, a set
  of environments (ports with one app or several, connects that succeed at once, slow
  clients or servers, epoll failures, refused requests). One run thus covers several
  environments, and a property that holds only in some of them says so with `env`.

### Sessions

The abstract specification of the composition: a connection is `none`, `fresh` (a client without a
backend so far), `joined` or `parted`. A join needs a client that is fresh or new and a server that is new, a joined
connection parts with its partner, and a parted one can only end. `OneBackendPerClient` in `ProxyWorker` is the
refinement: `StageOf` is the mapping, `peer` is `partner`. What it excludes is a client that is given a
second backend, or a backend that is reused for a second client, by a stale task, a late event or a reused address.

### Drain

Threads are `g_leader`'s and the main one; each is at the `top` of `evpoll::run`, where its task queue runs, or in
a `batch` of events. `pc` holds both frames of `let_worker_shutdown`, the admin's in the main thread and the signal
handler's, which stops the main thread wherever it is; `log_mtx` is the mutex of the log record that both take.
`close_tasks` are the `close_acceptor` tasks of each acceptor, `async_taskq` the shutdown tasks of each leader.
An acceptor is `open`, `paused` (out of the poller with a timer), `lost` (out without a timer, when `add_ev` failed) or
`closed`. `CheckStart`, `CheckApp` and `CheckEnd` are `worker_shutdown::on_timeout`, which adds up the apps' counters one
after the other while other threads change them; `held` is the history the property needs: who was active when it
began and still is. The signal is delivered to the main thread, which Linux prefers when it
does not block it, and the operations on a queue or a heap are atomic for it.

### Master

`mpc` is the statement of `master_run`; a signal is a pending flag, and its handler is an
action that can occur between any two statements, also between `fork` and the assignment
of `child_pid`. `Receivers` is `kill(2)` with its special pids 0 and -1, which the
program can reach. Worker processes have a life (`starting`, `running`, `draining`, ...).
`events` plays the part of `env`. `Room` bounds the run: reloads and crashes stop when the
pids of `Pid` are used up.

### Upstream

All operations on the list hold `backend_mtx`, so each is one action. `counts` counts picks
since the currents were all zero, `steady` remembers whether weights and flags were left
alone since then, `last` the last three verdicts of a backend's checks: history variables,
read by properties and by the bound `cf.picks` only. `cf` is the configuration, a variable that never changes: which
backends there are, which weights they may have, what may happen to them, and the bound on the picks.

### AsyncTaskq and TaskQueue

A push has three steps (append under the mutex, compare-and-swap of `notified`, write of
the eventfd), `on_read` five (swap under the mutex, run up to 64 tasks, decide, read the
eventfd, store `notified`). `Fifo` is the refinement: `readq \o writeq` implements `queue`.

### TimerHeap

Times are relative to the clock, so that `Tick` lowers them all and the state space is
finite; `MaxLate` is the bound on how late an item can be told to be. `ShiftUp` and
`ShiftDown` are defined by the path the item takes, with recursive functions.

### HttpStream

The stream is a sequence of tokens (two halves of a request line, a header line, the empty
line, a byte of a body); a segment is any prefix of what is left. A byte beyond the received
data, which the parser's `pos + 1` can include, is the token `Junk`.

### AppConf

An entry is a record of what the checks of `load_conf` tell apart; `Refused` is the disjunction of its exits, in
which one refused entry ends the program. The sets are kept as the code keeps them, with its `app_host_set` for all
ports together, and `listen_set` in which the last app of an address decides. `Fold` is `strcasecmp`.

## 3. Runs

Every passing run's properties have a mutant: a plausible bug in a mapped definition with
which TLC finds the property violated. Deadlock is checked except where noted.

| run | instance | states | shows |
|---|---|---|---|
| `ProxyWorker` | 2 frontends, 2 backends, 4 fds, batches of 3 events, 7 environments | 620 k | links, poller, counters, no orphan, flow control; it implements `Sessions` |
| `ProxyWorkerLive` | 1 frontend, 2 backends, 3 fds, 3 environments | 171 k | left connections close, connects end |
| `ProxyWorkerDangling` | as `ProxyWorker`, one app | - | **violated**: a task outlives its object |
| `Drain` | 2 threads with an acceptor each, 2 apps, 2 clients, 5 environments | 48 k | a shutdown closes, drains and ends, and cuts nobody who is active |
| `Master` | 4 pids, 6 sets of events | 268 k | bounds and knowledge of workers, graceful reload, reload and stop end |
| `MasterEarlyReload` | 3 pids | - | **violated**: service gap after an early reload |
| `Upstream` | 3 backends with weights 0, 1, 2, 4 and changes; 2 with checks; 1 with checks that fail at once | 1.2 M | credit and proportions; one failure offline, three successes online |
| `AsyncTaskq` | 4 pushes, batches of 2 | 19 k | notification, FIFO, woken tasks run |
| `TimerHeap` | 6 handlers, one periodic | 120 k | heap order, timerfd in time, never dead |
| `HttpStream` | 2 requests of 11 kinds each, any cut | 101 k | framing and forwarding |
| `HttpStreamSplit` | 2 requests, cut heads | - | **violated**: order of the bytes |
| `AppConf` | 3 entries, 2 listen strings of one port | - | **violated**: two protocols on one port |

**The properties**, beside the `TypeOK` of a module:

* `ProxyWorker`: `LinkSymmetry` (the pointers of a pair agree, or both are null), `PollerOwnsLive` (an
  entry of the poller names a live handler that owns the descriptor), `ActiveCountExact` (the two
  counters are the numbers of active objects), `NoOrphan` (a connection without a
  peer has a queued task that closes it, is a connect under way, or a client without a request so far),
  `ReadsOnlyWhenConnected`, `Backpressure` and `PausedCanResume` (who has data queued
  has a paused peer, and a paused one has somebody to resume it; each states the environments of section 5 in
  which the code does not keep it), `ResumeContinues` (an action
  property: a handler told that its peer drained goes on, it is not closed), `OneBackendPerClient` (the refinement
  of `Sessions`).
* `ProxyWorkerLive`: `LeftBehindCloses`, `ConnectEnds`. `ProxyWorkerDangling`: `NoDanglingTask`.
* `Drain`: `EstablishedNotCut` (no exit while somebody who was active at the start of the count still is),
  `AcceptorsClose` (every acceptor of a process told to shut down is closed, a paused one too), `DrainedExits` (it does
  not stay for ever without an active frontend), `PausedComesBack` (an acceptor without descriptors is polled again).
* `Master`: `ReloadIsBounded`, `EveryWorkerKnown`, `CarefulReloadServes`, and the liveness properties `ReloadEnds` and
  `StopStopsAll`. `MasterEarlyReload`: `NoServiceGap`.
* `Upstream`: `CreditConserved` (the currents of all backends add up to 0), `CreditBounded` (a current is at most the greatest
  weight for each of the other backends, credit or debt), `Proportional` (while nothing changes nobody is ahead of its share by a
  whole pick, and each is exact after a round; with six backends one may be behind by more than a pick), `OnlineNeedsThree`, `FailedCheckTakesOffline`; the last two hold
  when every connect is asynchronous, and say so with `sync_fail`.
* `AsyncTaskq`: `NotifyOwned`, `Fifo`, `WokenTasksRun`.
* `TimerHeap`: `OneItemEach`, `MinIsFirst` and `ArmedInTime` (until a cancel), `NeverDead`.
* `HttpStream`: `InOrderUncut`, `AllForwarded`, `Synchronised`, each while no head was cut. `HttpStreamSplit`: `InOrder`
  without that condition.
* `AppConf`: `OneProtocolPerPort`. `NamesUnique`, `OneDefault` and `HostDecides` are proved.

**Why the bounds are enough.** *ProxyWorker*: every interaction is between a frontend, its
backend and at most one other connection that reuses an address or a descriptor; two of
each allow this, and four descriptors let a closed one be taken while all others are in use.
Three ready events let two handlers' events and an accept or a timer meet in one batch.
`MaxBacklog` only limits how many failed accepts leave tasks behind. The two environments
with both sides slow are run with refused requests on a shared port, and with one client at a
time on a port of one app, which is where flow control acts. *Master*: four pids allow a start
and three more forks, two reloads one after the other with a respawn between them included. *Upstream*: a steady
round is as long as the sum of its weights, up to 12; `picks` (4, 3 or 2) bounds the picks after a
change. *Drain*: a leader's thread and the main one have every role there is, more leaders repeat the first; two apps are
needed for a sum that changes while it is computed, two clients for one that leaves while the other comes; one signal on
top of the admin's call is every nesting, since the master sends a worker one and later ones find the flag set.
*AppConf*: the violation needs two entries. *TimerHeap*: with six items the root has all four children and one of them a child of
its own, so that every branch of the index arithmetic is taken. *AsyncTaskq*: four tasks are
two full batches. *HttpStream*: the second request exercises every state the first can leave.

**Deadlock.** `CHECK_DEADLOCK FALSE` is set where the system may stop: the master ends, all
pushed tasks are run, the client's stream is over, the drained process exits, the configuration is refused or runs.

**Fairness.** `ProxyWorker`: the thread runs (`WF` of `Next`); `epoll_wait` reports the timerfd again
and again, because the 48 ms cache timer of every worker is periodic (`SF` of `TimerFires`); and
a connect's timer is scheduled with the connect and expires unless the connect ends
before (`SF` of `TimerExpires`). Nothing is assumed of clients and servers. `Master`: processes run
and pending signals are delivered; a starting worker gets ready or fails, a draining one
empties, since idle clients are closed by `worker_check_frontend_active`. `AsyncTaskq`: both threads
run, and epoll reports a readable eventfd. `Drain`: threads run (`WF` of `Top` and of the calls, `SF` of `BatchEnd`, which the
signal handler interrupts); epoll is level-triggered, so that what is readable is handled in some later batch
(`SF` of `GracefullyClose`); the periodic timer of `worker_shutdown` and the 200 ms of a paused acceptor expire (`SF` of
`CheckStart` and `Resume`); a signal that is pending is delivered. Clients and backends need not do anything.

## 4. Proofs

Each proof module EXTENDS the module it is about and assumes nothing but that module's named assumptions on
its constants. These say that `None` and the special descriptors are values of their own (`ConstantsAssumption`,
`NoneIsNoEvent`), that the objects of a worker live in a memory that is finite (`FiniteMemory`, for the cardinalities the counters
are compared with), that batches, delays and bounds are numbers, and that an app has a backend (`c.list # {}`: `app.cpp:125` refuses
one without) and finitely many weights. The results hold for any sets of addresses, descriptors, pids, threads, apps,
backends, tasks, timers and bodies, and for every environment.

**`ProxyWorker_proofs`**, in five layers, each resting on the one before.

* `TypeCorrect` and `LinksSymmetric` (neither pointer of a pair ever dangles or is one-sided).
  The inductive invariant `IInv` is `TypeOK /\ LinkSymmetry` with two more parts. `NoAppNoBackend`: a
  frontend without an app has no backend; without it `OnReadMatch` could give a linked
  frontend a second backend and leave the first pointing at it. `TasksThere`: the snapshot
  `todo` never exceeds the queue; without it `Head(taskq)` is not a task. The proof splits `IInv` into a
  handlers' part, a poller's part and a loop's part, shows once what the composite steps
  (`OnClose`, `ConnectFail`, `ToConnectBackend`, `Forward`) do to the first two, and then treats every
  action with the lemmas `EventStep` and `TaskStep` for the loop's part.
* `NobodyLeftBehind` (`NoOrphan`) and `ServesOneBackendPerClient` (the worker implements
  `Sessions`). The invariant `SInv` adds that a free address remembers no app, and that whoever lost
  its peer is `Doomed`: a task in the queue will close it. Every action is first shown to be one of seven kinds of step on
  lives, pointers and closing tasks (`Stays`, `Closes(h)`, `Fails(b)`, ...); each kind keeps `SInv` and is a step of `Sessions` or
  none. The point of the proof is which tasks may be dropped: `TaskFrontendClose` drops one for a backend that
  is still connecting, which therefore must count as accounted for by its connect.
* `PollerNeverStale` (`PollerOwnsLive`). The invariant `PInv` adds that no descriptor has two owners, that only a
  connected handler that serves an app is paused, and that a frontend whose request is saved is out of the poller:
  `on_backend_connect_ok` may close such a frontend without removing it.
* `CountsNeverDrift` (`ActiveCountExact`) and `ReadsWhenConnected` (`ReadsOnlyWhenConnected`): the task that tells a frontend of its
  backend, a notice, starts the frontend, and each counter is incremented there and decremented when an active object goes.
  What could go wrong is a second notice for a frontend that has started: a stale one, for an address that was reused, would
  count it twice, and a worker that is told to stop would wait for it for ever. The invariant `RInv` says that it cannot happen
  even when a connect fails after `on_open` has pushed its notice: between two notices to one address there is always a task
  that closes what lives there (`NoticesApart`), an active frontend is closed before a notice to its address is run (`ActiveIsOld`),
  and a notice that no closing task follows finds the frontend waiting (`ToldWaits`), out of the poller, where no event can delete it (`WaitsUnpolled`). All
  three are statements on positions in the queue; each action is shown to push nothing, a closing task or a notice at the end,
  or to take the head (`TellingStep`). Where no connect fails late the backend of whoever is told is connected (`ToldConnected`).
* `SlowSideIsNotFed` (`Backpressure`), `PausedIsResumed` (`PausedCanResume`) and `ResumedGoesOn` (`ResumeContinues`): flow control. None
  of the three is inductive, because what a pause means depends on three things that change apart from each other: the send queue of
  one side, what each side is registered for, and the tasks that say that one has drained, which reach whoever lives at their
  address by then. Every action is first shown to be one of eleven kinds of step on these (`FlowStep`: `Congests(h)`, `Drains(h)`,
  `Resumes(h)`, `Serves(f)`, `Couples(f, b)`, ...), and the invariant `MInv` is kept by each kind. Its parts:
  `BInv`, that descriptors without interests are not registered (`Tidy`), that a batch has one event for each descriptor, and that
  addresses are taken with a fresh send queue; `GInv`, that write interest is only there with data, that who serves and is not paused is read
  from, and that who is paused is not, nor is an event at hand that would make it read (`PausedDeaf`: without it the pause could be undone by
  the batch that caused it); `OInv`, that who has data has a paused peer (`Tamed`), and that a notice of a drain finds its handler out
  of the poller, or not reading (`Awaits`), whoever it was meant for, since it is read in the round of tasks that follows its event (`OwedLater`) and
  before a connection that reuses the address is started (`OwedFirst`); `NInv`, that who is paused has a peer polled for writing or a notice coming
  (`Resumed`), which needs that a backend has nothing to read until its frontend was told of it (`Quiet`): a frontend out of the poller, fed that early,
  could not ask for write interest. Each part says under which environments of section 5 it holds (`Plain`, `OneSlow`).

**`AsyncTaskq_proofs`**: `TypeCorrect`, `NotificationNeverStuck` (`NotifyOwned`, inductive with the types and the
bounds of the batch) and `RunsInPushOrder` (`Spec => Fifo`: every step of the two queues is a step of the one queue or
a stutter, because a swap happens only when the read queue is empty).

**`Drain_proofs`**: `TypeCorrect` and `ExitCutsNobodyEstablished` (`EstablishedNotCut`). Each app's counter is the
number of its active frontends (`Counted`), and while the loop of `on_timeout` runs, whoever is still held belongs to an app that is
not read yet, or the sum is 1 at least (`SeenOrLeft`).

**`Master_proofs`**: `TypeCorrect`, `EveryWorkerIsKnown`, `AtMostTwoWorkers` and `CarefulReloadIsGraceful`. Without reloads the
master has the worker it forked last (`AloneInv`); without crashes `CalmInv` says for each statement of `master_run` what may
be pending, and that the current worker is never the one a SIGUSR1 tells to stop. For a careful operator `CarefulInv` adds that
a pending SIGUSR1 is never an old worker's late report.

**`Upstream_proofs`**: `FailureTakesOffline` and `ThreeBringOnline`: the counter `ok_times` is tied to the verdicts it has
counted (`CountIsRun`); the number alone does not say that they came in a row. `NoCreditLost`, `CreditNeverPilesUp` and
`SharesAreKept` are about sums over the backends of an app (`Total`, of which the module proves what it needs: sums of
equal, scaled and changed functions and of parts of a set). A bound on each current is not inductive: one pick lends to one backend what
it takes from the others. `SharesBounded` bounds the credit of every set of k of the n backends, by k (n - k) times the greatest
weight: where a pick adds credit to a set, the backend picked is outside of it with at least as much as any inside, which
bounds what the set held before. Sets of one and of n - 1 backends give `CreditBounded`. `Fair` says that in a steady
round a current is exactly what its backend is behind, and that nobody owes a whole pick.

**`TimerHeap_proofs`**: `MinimumFirst`, `WakesInTime`, `AlwaysArmed`, `OneTimerEach` and `TypeCorrect`. The first half is about sequences
of any length: a node's ancestors are a chain (`Chain`), an item that climbs or sinks stops on it, and what is left holds
the given items once each (a permutation, `Shuffled`, from a function on positions that is one to one) and is in order if
one item only was out of place (`ClimbedIs`, `SunkIs`, `InsertIs`, `PoppedIs`). The second is the invariant `HInv`. As long as nothing was
cancelled the heap is in order and the timerfd is armed for its first item or before (`Whole`). The difficulty is
`timerfd_settime`, which `handle_expired` leaves stale and `schedule` compares with the first item to save a call: were it
stale and in the future, a new first item of just that time would not be armed for. `Whole` says that it is then the time of
an item of the heap, so that the new item cannot be before that one; `Fresh` that without a periodic timer it is in
the past or exact, which is what counts when the heap runs empty after a cancel. A periodic timer never leaves the heap.

**`HttpStream_proofs`**: `StreamTypes`, `ForwardedInOrder` (`InOrderUncut`), `AllIsForwarded` and `FramingInStep` (`Synchronised`). What
clients send is described once more, by an automaton (`Moves`), of which the stream is a run `b` that never changes. The invariant `HInv`
says that the buffers, put together behind what was forwarded, are the stream (`Ordered`), and that the frontend is where
the client was: what was forwarded ends at a place where `b` has `content_length` bytes of a body left, and the head that is
being parsed is a head of `b` (`Framed`). The automaton knows the length of a body from the first line of its head on, so that a
head that is parsed twice, for the app and then with the app, stores the same length again.

**`AppConf_proofs`**: `NamesAreUnique`, `OneDefaultOnly`, `HostDecidesAlways`, for configurations of any length, from the
invariant that the sets of `load_conf` are the names and hosts of the apps it has let through.

**Only model-checked**: liveness (`LeftBehindCloses`, `ConnectEnds`, `AcceptorsClose`, `DrainedExits`, `PausedComesBack`, `ReloadEnds`,
`StopStopsAll`, `WokenTasksRun`), which is out of the prover's reach. Every other property of a passing run, invariant, action property or
refinement, is a theorem. That `PausedCanResume`, `Backpressure` and `ResumeContinues` except environments is not for want of a proof: each is false in them. For the
first and the last a small instance is enough to see it; for `Backpressure` it takes three frontends, five descriptors and a batch of five events.

## 5. What the models say about the code

Four runs end in a violation and are listed under `findings`: a task that names a deleted
object (`http_frontend.cpp:182`), an early reload that leaves nobody serving
(`niubix.cpp:208`), a byte too many in a request whose head was cut
(`http_frontend_handle_req.cpp:99`), and two protocols on one port (`app.cpp:54`).

Other behaviours met while modelling. The models contain them; the properties state their
exception where they touch them.

*Connections*

* **An event for the wrong connection** (`evpoll.cpp:104`): a connect times out, its
  descriptor is closed, an accept of the same batch gets the same number, and the old event is
  dispatched to the new handler. The null check covers the case without reuse.
* **A congested saved request** (`http_frontend.cpp:121`): on a port of several apps the flush
  of the first request may pause the frontend; read interest is added all the same, and when
  the backend drains, adding it again fails and closes the connection (`Backpressure`,
  `ResumeContinues`).
* **A drained notice for another backend** (`backend.cpp:71`): a client that drains tells its backend by a task. When
  that backend closes before, and a connect that succeeds at once takes its address, the task resumes the new one, whose
  own client may be congested (`Backpressure` excepts it; it takes three clients).
* **A frontend fed before it is told** (`io_handle.cpp:53`): a backend that is connected at once may be read from, by an event of
  its descriptor's last owner, before its frontend is back in the poller. If the client's socket is full `append_ev` has
  no effect, and nobody writes what is queued (`PausedCanResume` excepts it).
* **Pipelined requests** (`evpoll.cpp:133`): the first pauses the frontend, which clears `pd->eh`; the
  second is refused; `run` then calls `pd->eh->on_close`.
* **Both sides congested** (`io_handle.cpp:53`): the pause removed the only interest of a
  handler, so that `append_ev` of the write interest fails, while `async_send_polling` is set. Both
  sides wait for each other (`PausedCanResume` excepts it).
* **A connect that succeeds at once and cannot be polled** (`connector.cpp:92`) leaves two tasks
  for a frontend that was deleted; the next connection at that address is read from
  before its backend is there (`ReadsOnlyWhenConnected`).
* **Idle clients of a port of several apps** (`worker_timing_event.cpp:29`): one that has not sent its
  first request has no app, and no timer ever closes it. `NoOrphan` and `LeftBehindCloses` except it.
* **No Host** on a port of several apps (`http_frontend_handle_req.cpp:110`): the null host is compared.
* **A policy other than roundrobin** gives no backend at all (`http_frontend.cpp:77`).

*Queues and timers*

* **A task that is not announced** (`async_taskq.cpp:68`): pushed between the swap and the store of
  `notified`, it waits for the next push. `WokenTasksRun` states what does hold.
* **A wakeup that works once** (`worker.cpp:94`): `waked` is set and never reset. Later tasks wait for
  the end of `epoll_wait`, 48 ms at most: a delay, no loss.
* **A heap after a cancel** (`timer_qheap.cpp:73`): the item keeps its place with another key, a
  later insert stops below it, and an earlier timer can end under a later one. Timers then
  fire late, never not at all as far as `NeverDead` goes.

*Processes*

* **A reload whose fork fails** (`niubix.cpp:133`): `shutdown_child_pid` stays set and every later
  reload is refused. **SIGTERM during a reload** (`niubix.cpp:140`) reaches the new worker only.
  **SIGTERM between the fork and the assignment of a respawn** reaches a pid that is gone. **A fork that
  failed** leaves -1 in `child_pid`, and a later report of a new worker is passed on with
  `kill(-1)`. **A crash and a reload** within 50 ms leave two workers of which one is unknown. `EveryWorkerKnown`,
  `ReloadIsBounded`, `ReloadEnds`, `StopStopsAll` and `CarefulReloadServes` except these.
* **A shutdown told twice at once**: both frames find `worker_shutdowning` unset, and the acceptors are told, and the
  timer is set, twice. Nothing comes of it: `Drain` has the case and its properties hold in it.
* **The log in a signal handler** (`log.cpp:69`): the mutex is not recursive, and the SIGUSR1 handler logs. On
  top of a `log::info` of the same thread it waits for itself, and the process neither drains nor ends
  (`MayLockItself`, which the liveness properties of `Drain` except).
* **Who waits is cut** (`worker_timing_event.cpp:21`): the exit counts active frontends, those whose backend
  is not connected yet are not (`EstablishedNotCut` is about the active ones).
* **An acceptor that cannot be added again** (`acceptor.cpp`, `on_timeout`) ignores the failure and is lost for
  good. It is still closed by a shutdown (`AcceptorsClose`); `PausedComesBack` excepts it.

*Health and configuration*

* **A check whose connect fails at once** (`health_check.cpp:100`) is not counted: the backend stays online, and a
  failure between good answers does not break "three consecutive". **Any bytes are a good answer** (the TODO at
  `health_check.cpp:40`); `niubix.json:45` says the status must be 200.
* **One default app over all ports**, where `default_app_set` is kept per port: the default's empty host enters
  `app_host_set`, and so does that of a tcp app, after which no default is accepted (`OneDefault`). **Hosts that differ in
  case** are accepted and only the first is matched (`HostDecides`). **The last app of a listen string** decides its
  protocol in `listen_set`.

## 6. Not modelled, and why

* Chunked bodies: the code answers 501 before it reaches them. Added `X-` headers and
  the character classes of the parser: no property depends on them.
* `worker_wakeup`: it only shortens an `epoll_wait`; an empty batch stands for every return. CPU affinity.
* The object lifetimes behind `timer_item::eh`: an access to freed memory inside one step.
* Of the configuration: the parts that are read once into values nothing changes, and, within an app, its backends,
  policy and timeouts, which are one Boolean (`valid`). Address parsing, daemonising, the pid file, log files
  and formatting, URL decoding, tables of messages: sequential code without state that others share.
* `https_frontend`, `ssl`, `router`, `stat`: stubs no handler uses. `thirdparty/nlohmann`: vendored, and
  some 24 800 of the repository's 30 200 lines. The map stands for about 2 300 of the other 5 400.

## 7. Plan

Done: all modules of section 2 and the proofs of section 4. What is left, the most worthwhile first:

1. `HttpStream`: tokens cut in the middle, and its composition with the backend's send queue and with the pause
   of the frontend between two pipelined requests.
2. A health check at the level of events, with its registration and its own timer.
