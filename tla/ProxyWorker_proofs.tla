------------------------- MODULE ProxyWorker_proofs -------------------------
(***************************************************************************)
(* Proofs about ProxyWorker, for any number of addresses and descriptors   *)
(* and whatever the environment does: its type invariant, the symmetry of  *)
(* the pointers between a frontend and its backend, then that the worker   *)
(* implements Sessions and leaves no connection behind, that the poller    *)
(* never dispatches to a handler that is gone, that neither the counters   *)
(* nor the start of a frontend is misled by a stale notice, and that a     *)
(* side that cannot be written to is not fed and lets its peer go on.      *)
(***************************************************************************)
EXTENDS ProxyWorker, FiniteSetTheorems, TLAPS

\* The inductive invariant.  A frontend without an app has no backend yet, and
\* do_tasks never runs past the end of the queue.
NoAppNoBackend == \A f \in Frontend : req[f] = "no" => peer[f] = None
TasksThere     == todo <= Len(taskq)

IInv == TypeOK /\ LinkSymmetry /\ NoAppNoBackend /\ TasksThere

----------------------------------------------------------------------------
(* Lemmas on the operators the actions are built from                      *)

\* Poller calls keep the type of the poll_desc table.
LEMMA PdTypes ==
    ASSUME NEW p \in [Fd -> PdState], NEW n, NEW e \in {"r", "w"}
    PROVE  /\ RemoveAll(p, n) \in [Fd -> PdState]
           /\ RemoveEv(p, n, e) \in [Fd -> PdState]
           /\ AppendEv(p, n, e) \in [Fd -> PdState]
<1>1. NoPd \in PdState
  BY DEF NoPd, PdState
<1>2. RemoveAll(p, n) \in [Fd -> PdState]
  BY <1>1 DEF RemoveAll
<1>3. [p EXCEPT ![n].ev = @ \ {e}] \in [Fd -> PdState]
  BY DEF PdState
<1>4. [p EXCEPT ![n].ev = @ \cup {e}] \in [Fd -> PdState]
  BY DEF PdState
<1>5. QED
  BY <1>2, <1>3, <1>4 DEF RemoveEv, AppendEv

\* Registering a handler keeps the type of the poll_desc table.
LEMMA AddEvType ==
    ASSUME NEW p \in [Fd -> PdState], NEW n, NEW h \in Conn,
           NEW k \in {"io", "connect"}, NEW e \in SUBSET {"r", "w"}
    PROVE  AddEv(p, n, h, k, e) \in [Fd -> PdState]
BY DEF AddEv, PdState

\* Forwarding keeps the types of the send queues and of the poller.
LEMMA ForwardType ==
    ASSUME TypeOK, NEW h \in Conn, NEW r \in Forward(h)
    PROVE  r[1] \in [Conn -> IoState] /\ r[2] \in [Fd -> PdState]
<1>1. io \in [Conn -> IoState] /\ pd \in [Fd -> PdState] /\ peer \in [Conn -> Conn \cup {None}]
  BY DEF TypeOK
<1>2. CASE peer[h] = None
  BY <1>1, <1>2 DEF Forward
<1>3. CASE peer[h] # None
  <2> DEFINE g == peer[h]
  <2>1. g \in Conn
    BY <1>1, <1>3
  <2>2. SendIo(g) \subseteq IoState
    BY <1>1, <2>1 DEF SendIo, IoState
  <2>3. \A new : SendPd(g, new, pd) \in [Fd -> PdState]
    BY <1>1, PdTypes DEF SendPd
  <2>4. \A p \in [Fd -> PdState] : PausePd(h, p) \in [Fd -> PdState]
    BY PdTypes DEF PausePd
  <2>5. PauseIo(h) \in IoState
    BY <1>1 DEF PauseIo, IoState
  <2>6. PICK new \in SendIo(g) :
          r = IF new.buf = "data"
              THEN <<[io EXCEPT ![g] = new, ![h] = PauseIo(h)],
                     PausePd(h, SendPd(g, new, pd))>>
              ELSE <<[io EXCEPT ![g] = new], SendPd(g, new, pd)>>
    BY <1>3 DEF Forward
  <2>7. /\ [io EXCEPT ![g] = new, ![h] = PauseIo(h)] \in [Conn -> IoState]
        /\ [io EXCEPT ![g] = new] \in [Conn -> IoState]
    BY <1>1, <2>2, <2>5
  <2>8. QED
    BY <2>3, <2>4, <2>6, <2>7
<1>4. QED
  BY <1>2, <1>3

----------------------------------------------------------------------------
(* What the composite steps do to the invariant                            *)

\* The types and the invariant of everything but the loop.
HandlerTypes ==
    /\ st \in [Conn -> LiveState \cup {"free"}]
    /\ peer \in [Conn -> Conn \cup {None}]
    /\ fd \in [Conn -> Fd \cup {None}]
    /\ io \in [Conn -> IoState]
    /\ req \in [Frontend -> {"no", "saved", "yes"}]
    /\ frontend_active_n \in Int /\ backend_active_n \in Int

PollerTypes == pd \in [Fd -> PdState]
LoopTypes   == /\ todo \in Nat
               /\ ready \subseteq Event /\ cur \in Event \cup {None} /\ due \subseteq Conn
               /\ phase \in {"tasks", "events", "crashed"}
               /\ env \in Envs

HInv == HandlerTypes /\ LinkSymmetry /\ NoAppNoBackend

\* The parts of the invariant: each action disturbs some of them only.
LEMMA IInvParts ==
    IInv <=> /\ HInv /\ PollerTypes /\ LoopTypes
             /\ taskq \in Seq(Task) /\ TasksThere
BY DEF IInv, TypeOK, HInv, HandlerTypes, PollerTypes, LoopTypes

\* The same parts in the next state.
LEMMA IInvPartsPrime ==
    IInv' <=> /\ HInv' /\ PollerTypes' /\ LoopTypes'
              /\ taskq' \in Seq(Task) /\ TasksThere'
BY DEF IInv, TypeOK, HInv, HandlerTypes, PollerTypes, LoopTypes

\* A step of the loop alone leaves the handlers' part as it is.
LEMMA HInvUnchanged == HInv /\ UNCHANGED handlers => HInv'
BY DEF HInv, handlers, HandlerTypes, LinkSymmetry, NoAppNoBackend, Live, Conn

\* Clearing both pointers of a pair keeps every other pair as it was, and
\* leaves nobody pointing at h.
LEMMA UnlinkedLinks ==
    ASSUME HInv, NEW h \in Conn
    PROVE  /\ Unlinked(h) \in [Conn -> Conn \cup {None}]
           /\ \A x \in Conn : Unlinked(h)[x] # None =>
                 /\ x # h /\ Unlinked(h)[x] = peer[x] /\ peer[x] # h
                 /\ Unlinked(h)[peer[x]] = x
<1>1. /\ peer \in [Conn -> Conn \cup {None}] /\ None \notin Conn
      /\ \A x \in Conn : peer[x] # None => peer[peer[x]] = x
  BY ConstantsAssumption DEF HInv, HandlerTypes, LinkSymmetry
<1>2. QED
  BY <1>1 DEF Unlinked

\* The task for the peer names a handler of the right class: links join the two.
LEMMA PeerTaskType ==
    ASSUME HInv, NEW h \in Conn
    PROVE  PeerTask(h) \in Seq(Task)
<1>1. CASE peer[h] = None
  BY <1>1 DEF PeerTask
<1>2. CASE peer[h] # None
  <2>1. /\ h \in Frontend => peer[h] \in Backend
        /\ h \notin Frontend => peer[h] \in Frontend
    BY <1>2 DEF HInv, HandlerTypes, LinkSymmetry, Conn
  <2>2. QED
    BY <1>2, <2>1 DEF PeerTask, T, Task
<1>3. QED
  BY <1>1, <1>2

\* A close from any state keeps the handlers' invariant.
LEMMA OnCloseKeeps ==
    ASSUME HInv, NEW h \in Conn, NEW q \in Seq(Task), NEW p \in [Fd -> PdState],
           NEW s \in [Conn -> IoState], OnClose(h, q, p, s)
    PROVE  /\ HInv' /\ PollerTypes' /\ taskq' \in Seq(Task)
           /\ Len(taskq') >= Len(q)
<1>1. HandlerTypes'
  BY UnlinkedLinks DEF HInv, HandlerTypes, OnClose, IsActive, FreshIo, IoState
<1>2. LinkSymmetry'
  <2>1. ASSUME NEW x \in Conn, peer'[x] # None
        PROVE  /\ Live(x)' /\ Live(peer[x])'
               /\ peer'[peer'[x]] = x
               /\ x \in Frontend <=> peer'[x] \in Backend
    BY <2>1, UnlinkedLinks DEF HInv, HandlerTypes, LinkSymmetry, OnClose, Live
  <2>2. QED
    BY <2>1 DEF LinkSymmetry
<1>3. NoAppNoBackend'
  BY UnlinkedLinks DEF HInv, HandlerTypes, NoAppNoBackend, OnClose, Conn
<1>4. PollerTypes'
  BY DEF OnClose, PollerTypes
<1>5. taskq' \in Seq(Task) /\ Len(taskq') >= Len(q)
  BY PeerTaskType DEF OnClose
<1>6. QED
  BY <1>1, <1>2, <1>3, <1>4, <1>5 DEF HInv

\* The same with the removal from the poller, as evpoll::run and the tasks do it.
LEMMA CloseKeeps ==
    ASSUME HInv, PollerTypes, NEW h \in Conn, NEW q \in Seq(Task), Close(h, q)
    PROVE  /\ HInv' /\ PollerTypes' /\ taskq' \in Seq(Task)
           /\ Len(taskq') >= Len(q)
BY PdTypes, OnCloseKeeps DEF Close, PollerTypes, HInv, HandlerTypes

\* A connect that failed frees the backend and leaves the frontend unlinked.
LEMMA ConnectFailKeeps ==
    ASSUME HInv, PollerTypes, NEW b \in Backend, NEW q \in Seq(Task), ConnectFail(b, q)
    PROVE  /\ HInv' /\ PollerTypes' /\ taskq' \in Seq(Task)
           /\ Len(taskq') >= Len(q)
<1>0. b \in Conn /\ b \notin Frontend
  BY ConstantsAssumption DEF Conn
<1>1. HandlerTypes'
  BY <1>0, UnlinkedLinks DEF HInv, HandlerTypes, ConnectFail, FreshIo, IoState
<1>2. LinkSymmetry'
  <2>1. ASSUME NEW x \in Conn, peer'[x] # None
        PROVE  /\ Live(x)' /\ Live(peer[x])'
               /\ peer'[peer'[x]] = x
               /\ x \in Frontend <=> peer'[x] \in Backend
    BY <1>0, <2>1, UnlinkedLinks DEF HInv, HandlerTypes, LinkSymmetry, ConnectFail, Live
  <2>2. QED
    BY <2>1 DEF LinkSymmetry
<1>3. NoAppNoBackend'
  BY <1>0, UnlinkedLinks DEF HInv, HandlerTypes, NoAppNoBackend, ConnectFail, Conn
<1>4. PollerTypes'
  BY PdTypes DEF ConnectFail, PollerTypes
<1>5. taskq' \in Seq(Task) /\ Len(taskq') >= Len(q)
  <2>1. CASE peer[b] = None
    BY <2>1 DEF ConnectFail
  <2>2. CASE peer[b] # None
    <3>1. peer[b] \in Frontend
      BY <1>0, <2>2 DEF HInv, HandlerTypes, LinkSymmetry, Conn
    <3>2. T("backend_conn_fail", peer[b]) \in Task
      BY <3>1 DEF T, Task
    <3>3. QED
      BY <2>2, <3>2 DEF ConnectFail
  <2>3. QED
    BY <2>1, <2>2
<1>6. QED
  BY <1>1, <1>2, <1>3, <1>4, <1>5 DEF HInv

\* A frontend that has no backend yet and a fresh backend become a pair.
LEMMA ToConnectBackendKeeps ==
    ASSUME HInv, NEW f \in Frontend, NEW n \in Fd \cup {None}, NEW r \in {"saved", "yes"},
           NEW q \in Seq(Task), NEW p \in [Fd -> PdState],
           peer[f] = None, ToConnectBackend(f, n, r, q, p)
    PROVE  /\ HInv' /\ PollerTypes' /\ taskq' \in Seq(Task)
           /\ Len(taskq') >= Len(q)
<1>1. PICK b \in Backend, m \in FreeFds \ {n} :
        /\ st[b] = "free"
        /\ peer' = [peer EXCEPT ![f] = b, ![b] = f]
        /\ fd' = [fd EXCEPT ![f] = n, ![b] = m]
        /\ req' = [req EXCEPT ![f] = r]
        /\ Connecting(f, b, m, q, p) \/ Connected(f, b, m, q, p)
        /\ UNCHANGED <<io, frontend_active_n>>
  BY DEF ToConnectBackend
<1>2. f \in Conn /\ b \in Conn /\ f # b /\ m \in Fd /\ None \notin Conn
  BY ConstantsAssumption DEF Conn, FreeFds
<1>3. \A x \in Conn : peer[x] # f /\ peer[x] # b
  BY <1>1, <1>2 DEF HInv, HandlerTypes, LinkSymmetry, Live, LiveState
<1>4. /\ st' \in [Conn -> LiveState \cup {"free"}]
      /\ \A x \in Conn : Live(x) => Live(x)'
      /\ Live(f)' /\ Live(b)'
  BY <1>1, <1>2 DEF Connecting, Connected, HInv, HandlerTypes, Live, LiveState
<1>5. HandlerTypes'
  BY <1>1, <1>2, <1>4 DEF Connecting, Connected, HInv, HandlerTypes
<1>6. LinkSymmetry'
  <2>1. ASSUME NEW x \in Conn, peer'[x] # None
        PROVE  /\ Live(x)' /\ Live(peer[x])'
               /\ peer'[peer'[x]] = x
               /\ x \in Frontend <=> peer'[x] \in Backend
    <3>1. CASE x \in {f, b}
      BY <1>1, <1>2, <1>4, <3>1, ConstantsAssumption DEF HInv, HandlerTypes, Live
    <3>2. CASE x \notin {f, b}
      BY <1>1, <1>2, <1>3, <1>4, <2>1, <3>2 DEF HInv, HandlerTypes, LinkSymmetry, Live
    <3>3. QED
      BY <3>1, <3>2
  <2>2. QED
    BY <2>1 DEF LinkSymmetry
<1>7. NoAppNoBackend'
  BY <1>1, <1>2, ConstantsAssumption DEF HInv, HandlerTypes, NoAppNoBackend, Conn
<1>8. PollerTypes'
  <2>1. /\ AddEv(p, m, b, "connect", {"r", "w"}) \in [Fd -> PdState]
        /\ AddEv(p, m, b, "io", {"r"}) \in [Fd -> PdState]
    BY <1>2, AddEvType
  <2>2. QED
    BY <1>1, <2>1 DEF Connecting, Connected, PollerTypes
<1>9. taskq' \in Seq(Task) /\ Len(taskq') >= Len(q)
  <2>1. T("backend_conn_ok", f) \in Task
    BY DEF T, Task
  <2>2. QED
    BY <1>1, <2>1 DEF Connecting, Connected
<1>10. QED
  BY <1>5, <1>6, <1>7, <1>8, <1>9 DEF HInv

----------------------------------------------------------------------------
(* The invariant holds at the start and is kept by every step              *)

\* The worker starts without connections.
LEMMA InitIInv == Init => IInv
<1>1. ASSUME Init PROVE HInv /\ PollerTypes
  BY <1>1 DEF Init, HInv, HandlerTypes, LinkSymmetry, NoAppNoBackend, Live, FreshIo,
              IoState, Conn, PollerTypes, PdState, NoPd
<1>2. ASSUME Init PROVE LoopTypes /\ taskq \in Seq(Task) /\ TasksThere
  BY <1>2 DEF Init, LoopTypes, TasksThere
<1>3. QED
  BY <1>1, <1>2, IInvParts

\* What an event handler leaves to be shown: the loop's part is the same for all.
LEMMA EventStep ==
    ASSUME IInv, EndEvent, HInv', PollerTypes', taskq' \in Seq(Task),
           Len(taskq') >= Len(taskq)
    PROVE  IInv'
<1>1. LoopTypes /\ TasksThere /\ taskq \in Seq(Task)
  BY IInvParts
<1>2. LoopTypes' /\ TasksThere'
  BY <1>1 DEF LoopTypes, TasksThere, EndEvent
<1>3. QED
  BY <1>2, IInvPartsPrime

\* The same for a task: it leaves the queue with the tasks behind it, and more.
LEMMA TaskStep ==
    ASSUME IInv, todo > 0, EndTask, HInv', PollerTypes', taskq' \in Seq(Task),
           Len(taskq') >= Len(Tail(taskq))
    PROVE  IInv'
<1>1. LoopTypes /\ TasksThere /\ taskq \in Seq(Task)
  BY IInvParts
<1>2. Len(Tail(taskq)) = Len(taskq) - 1
  BY <1>1 DEF TasksThere, LoopTypes
<1>3. LoopTypes' /\ TasksThere'
  BY <1>1, <1>2 DEF LoopTypes, TasksThere, EndTask
<1>4. QED
  BY <1>3, IInvPartsPrime

\* do_tasks finds a task while its snapshot of the length is not used up.
LEMMA TailTasks ==
    ASSUME IInv, todo > 0
    PROVE  /\ taskq # <<>> /\ Tail(taskq) \in Seq(Task) /\ Head(taskq) \in Task
           /\ taskq \in Seq(Task)
<1>1. LoopTypes /\ TasksThere /\ taskq \in Seq(Task)
  BY IInvParts
<1>2. QED
  BY <1>1 DEF TasksThere, LoopTypes

\* Steps that change the loop only, or end the process, or start it again.
LEMMA LoopSteps ==
    ASSUME IInv, EpollWait \/ NextEvent \/ LoopTop \/ Restart \/ SkipEvent
                 \/ AcceptDone \/ TimerDone \/ StaleTask \/ UNCHANGED vars
    PROVE  IInv'
<1> USE DEF PollerTypes
<1>0. /\ HInv /\ PollerTypes /\ LoopTypes /\ taskq \in Seq(Task) /\ TasksThere
  BY IInvParts
<1>1. CASE EpollWait
  <2>1. \A n \in Fd : EventsOf(n) \subseteq Event
    BY <1>0 DEF EventsOf, Event, PdState
  <2>2. ListenEvent \in Event /\ TimerEvent \in Event
    BY DEF ListenEvent, TimerEvent, Event
  <2>3. ready' \subseteq Event
    BY <1>1, <2>1, <2>2 DEF EpollWait
  <2>4. phase' = "events" /\ UNCHANGED <<taskq, todo, cur, due, env>>
    BY <1>1 DEF EpollWait
  <2>5. LoopTypes' /\ TasksThere'
    BY <1>0, <2>3, <2>4 DEF LoopTypes, TasksThere
  <2>6. QED
    BY <1>0, <1>1, <2>5, HInvUnchanged, IInvPartsPrime DEF EpollWait
<1>2. CASE NextEvent
  <2>1. LoopTypes' /\ TasksThere'
    BY <1>0, <1>2 DEF NextEvent, LoopTypes, TasksThere
  <2>2. QED
    BY <1>0, <1>2, <2>1, HInvUnchanged, IInvPartsPrime DEF NextEvent
<1>3. CASE LoopTop
  <2>1. LoopTypes' /\ TasksThere'
    BY <1>0, <1>3 DEF LoopTop, LoopTypes, TasksThere
  <2>2. QED
    BY <1>0, <1>3, <2>1, HInvUnchanged, IInvPartsPrime DEF LoopTop
<1>4. CASE Restart
  <2>1. HInv' /\ PollerTypes'
    BY <1>4 DEF Restart, HInv, HandlerTypes, LinkSymmetry, NoAppNoBackend, Live, FreshIo,
                IoState, Conn, PdState, NoPd
  <2>2. LoopTypes' /\ taskq' \in Seq(Task) /\ TasksThere'
    BY <1>0, <1>4 DEF Restart, LoopTypes, TasksThere
  <2>3. QED
    BY <2>1, <2>2, IInvPartsPrime
<1>5. CASE SkipEvent \/ AcceptDone \/ TimerDone
  BY <1>0, <1>5, HInvUnchanged, EventStep DEF SkipEvent, AcceptDone, TimerDone
<1>6. CASE StaleTask
  <2>1. CASE DropTask
    BY <1>0, <1>6, <2>1, HInvUnchanged, TailTasks, TaskStep DEF StaleTask, DropTask
  <2>2. CASE Crash
    <3>1. LoopTypes' /\ TasksThere'
      BY <1>0, <2>2 DEF Crash, LoopTypes, TasksThere
    <3>2. QED
      BY <1>0, <2>2, <3>1, HInvUnchanged, IInvPartsPrime DEF Crash
  <2>3. QED
    BY <1>6, <2>1, <2>2 DEF StaleTask
<1>7. CASE UNCHANGED vars
  <2>1. UNCHANGED handlers /\ UNCHANGED <<pd, taskq>> /\ LoopTypes' /\ TasksThere'
    BY <1>0, <1>7 DEF vars, handlers, LoopTypes, TasksThere
  <2>2. QED
    BY <1>0, <2>1, HInvUnchanged, IInvPartsPrime
<1>8. QED
  BY <1>1, <1>2, <1>3, <1>4, <1>5, <1>6, <1>7

\* Handlers that change neither a life, a pointer nor an app.
LEMMA IoOnly ==
    ASSUME HInv, io' \in [Conn -> IoState],
           UNCHANGED <<st, peer, fd, req, frontend_active_n, backend_active_n>>
    PROVE  HInv'
BY DEF HInv, HandlerTypes, LinkSymmetry, NoAppNoBackend, Live

\* An event that ends with a close, after tasks may have been pushed.
LEMMA CloseEvent ==
    ASSUME IInv, NEW h \in Conn, NEW q \in Seq(Task), Len(q) >= Len(taskq),
           Close(h, q), EndEvent
    PROVE  IInv'
<1>1. HInv /\ PollerTypes /\ taskq \in Seq(Task)
  BY IInvParts
<1>2. HInv' /\ PollerTypes' /\ taskq' \in Seq(Task) /\ Len(taskq') >= Len(q)
  BY <1>1, CloseKeeps
<1>3. Len(taskq') >= Len(taskq)
  BY <1>1, <1>2
<1>4. QED
  BY <1>2, <1>3, EventStep

\* Events of established connections.
LEMMA IoEventSteps ==
    ASSUME IInv, NEW h \in Conn, Events(h)
    PROVE  IInv'
<1>0. /\ HInv /\ PollerTypes /\ LoopTypes /\ taskq \in Seq(Task) /\ TasksThere
      /\ io \in [Conn -> IoState] /\ TypeOK
  BY IInvParts DEF HInv, HandlerTypes, IInv
<1>1. CASE OnError(h) \/ OnReadClose(h)
  BY <1>0, <1>1, CloseEvent DEF OnError, OnReadClose
<1>2. CASE OnReadNothing(h)
  BY <1>0, <1>2, HInvUnchanged, EventStep DEF OnReadNothing, PollerTypes
<1>3. CASE OnReadForward(h)
  <2>1. io' \in [Conn -> IoState] /\ pd' \in [Fd -> PdState]
    BY <1>0, <1>3, ForwardType DEF OnReadForward
  <2>2. QED
    BY <1>0, <1>3, <2>1, IoOnly, EventStep DEF OnReadForward, PollerTypes
<1>4. CASE OnWrite(h)
  <2>1. CASE Crash
    <3>1. LoopTypes' /\ TasksThere' /\ UNCHANGED handlers /\ PollerTypes' /\ taskq' = taskq
      BY <1>0, <2>1 DEF Crash, LoopTypes, TasksThere, PollerTypes
    <3>2. QED
      BY <1>0, <3>1, HInvUnchanged, IInvPartsPrime
  <2>2. CASE ~Crash
    <3>0. /\ UNCHANGED <<st, peer, fd, req, frontend_active_n, backend_active_n>>
          /\ UNCHANGED <<todo, ready, due, phase, env>>
          /\ cur' = IF "in" \in cur.ev THEN [cur EXCEPT !.ev = {"in"}] ELSE None
          /\ InEvent
          /\ \/ UNCHANGED <<io, pd, taskq>>
             \/ /\ io' = [io EXCEPT ![h].buf = "empty", ![h].polling = FALSE]
                /\ IF io[h].polling
                   THEN /\ pd' = RemoveEv(pd, fd[h], "w")
                        /\ taskq' = taskq \o DrainedTask(h)
                   ELSE UNCHANGED <<pd, taskq>>
      BY <1>4, <2>2 DEF OnWrite, Handling, IoEvent
    <3>1. DrainedTask(h) \in Seq(Task)
      <4>1. CASE peer[h] = None
        BY <4>1 DEF DrainedTask
      <4>2. CASE peer[h] # None
        <5>1. /\ h \in Frontend => peer[h] \in Backend
              /\ h \notin Frontend => peer[h] \in Frontend
          BY <1>0, <4>2 DEF HInv, HandlerTypes, LinkSymmetry, Conn
        <5>2. QED
          BY <4>2, <5>1 DEF DrainedTask, T, Task
      <4>3. QED
        BY <4>1, <4>2
    <3>2. io' \in [Conn -> IoState]
      <4>1. [io EXCEPT ![h].buf = "empty", ![h].polling = FALSE] \in [Conn -> IoState]
        BY <1>0 DEF IoState
      <4>2. QED
        BY <1>0, <3>0, <4>1
    <3>3. PollerTypes'
      BY <1>0, <3>0, PdTypes DEF PollerTypes
    <3>4. taskq' \in Seq(Task) /\ Len(taskq') >= Len(taskq)
      <4>1. /\ taskq \o DrainedTask(h) \in Seq(Task)
            /\ Len(taskq \o DrainedTask(h)) >= Len(taskq)
        BY <1>0, <3>1
      <4>2. CASE UNCHANGED <<io, pd, taskq>>
        BY <1>0, <4>2
      <4>3. CASE IF io[h].polling
                 THEN /\ pd' = RemoveEv(pd, fd[h], "w")
                      /\ taskq' = taskq \o DrainedTask(h)
                 ELSE UNCHANGED <<pd, taskq>>
        <5>1. CASE io[h].polling
          BY <4>1, <4>3, <5>1
        <5>2. CASE ~io[h].polling
          BY <1>0, <4>3, <5>2
        <5>3. QED
          BY <5>1, <5>2
      <4>4. QED
        BY <3>0, <4>2, <4>3
    <3>5. cur' \in Event \cup {None}
      BY <1>0, <3>0 DEF LoopTypes, Event, InEvent
    <3>6. LoopTypes' /\ TasksThere'
      BY <1>0, <3>0, <3>4, <3>5 DEF LoopTypes, TasksThere
    <3>7. QED
      BY <1>0, <3>0, <3>2, <3>3, <3>4, <3>6, IoOnly, IInvPartsPrime
  <2>3. QED
    BY <2>1, <2>2
<1>5. QED
  BY <1>1, <1>2, <1>3, <1>4 DEF Events

\* Events that concern a connect, a pipelined request or the first request.
LEMMA ConnectEventSteps ==
    ASSUME IInv, NEW b \in Backend, OnConnectOk(b) \/ OnConnectFail(b) \/ ConnectTimeout(b)
    PROVE  IInv'
<1>0. /\ HInv /\ PollerTypes /\ LoopTypes /\ taskq \in Seq(Task) /\ TasksThere
      /\ b \in Conn /\ b \notin Frontend
  BY IInvParts, ConstantsAssumption DEF Conn
<1>1. CASE OnConnectFail(b)
  <2>1. ConnectFail(b, taskq) /\ EndEvent
    BY <1>1 DEF OnConnectFail
  <2>2. QED
    BY <1>0, <2>1, ConnectFailKeeps, EventStep
<1>2. CASE ConnectTimeout(b)
  <2>1. ConnectFail(b, taskq) /\ due' = due \ {b} /\ UNCHANGED <<todo, ready, cur, phase, env>>
    BY <1>2 DEF ConnectTimeout
  <2>2. HInv' /\ PollerTypes' /\ taskq' \in Seq(Task) /\ Len(taskq') >= Len(taskq)
    BY <1>0, <2>1, ConnectFailKeeps
  <2>3. LoopTypes' /\ TasksThere'
    BY <1>0, <2>1, <2>2 DEF LoopTypes, TasksThere
  <2>4. QED
    BY <2>2, <2>3, IInvPartsPrime
<1>3. CASE OnConnectOk(b)
  <2> DEFINE p == RemoveAll(pd, fd[b])
             f == peer[b]
             q == IF f # None /\ st[f] = "conn_ok"
                  THEN Append(taskq, T("backend_conn_ok", f)) ELSE taskq
  <2>1. p \in [Fd -> PdState]
    BY <1>0, PdTypes DEF PollerTypes
  <2>2. f # None => f \in Frontend
    BY <1>0 DEF HInv, HandlerTypes, LinkSymmetry, Conn
  <2>3. q \in Seq(Task) /\ Len(q) >= Len(taskq)
    <3>1. CASE f # None /\ st[f] = "conn_ok"
      <4>1. T("backend_conn_ok", f) \in Task
        BY <2>2, <3>1 DEF T, Task
      <4>2. QED
        BY <1>0, <3>1, <4>1
    <3>2. CASE ~(f # None /\ st[f] = "conn_ok")
      BY <1>0, <3>2
    <3>3. QED
      BY <3>1, <3>2
  <2>4. EndEvent
    BY <1>3 DEF OnConnectOk
  <2>5. \/ /\ f # None
           /\ st' = [st EXCEPT ![b] = "active_ok"]
           /\ pd' = AddEv(p, fd[b], b, "io", {"r"})
           /\ taskq' = q
           /\ backend_active_n' = backend_active_n + 1
           /\ UNCHANGED <<peer, fd, io, req, frontend_active_n>>
        \/ OnClose(b, q, p, io)
    BY <1>3 DEF OnConnectOk
  <2>6. CASE OnClose(b, q, p, io)
    <3> HIDE DEF p, q
    <3>0. io \in [Conn -> IoState]
      BY <1>0 DEF HInv, HandlerTypes
    <3>1. HInv' /\ PollerTypes' /\ taskq' \in Seq(Task) /\ Len(taskq') >= Len(q)
      BY <1>0, <2>1, <2>3, <2>6, <3>0, OnCloseKeeps
    <3>2. Len(taskq') >= Len(taskq)
      BY <1>0, <2>3, <3>1
    <3>3. QED
      BY <2>4, <3>1, <3>2, EventStep
  <2>7. CASE /\ f # None
             /\ st' = [st EXCEPT ![b] = "active_ok"]
             /\ pd' = AddEv(p, fd[b], b, "io", {"r"})
             /\ taskq' = q
             /\ backend_active_n' = backend_active_n + 1
             /\ UNCHANGED <<peer, fd, io, req, frontend_active_n>>
    <3>1. HInv'
      BY <1>0, <2>7 DEF HInv, HandlerTypes, LinkSymmetry, NoAppNoBackend, Live, LiveState
    <3>2. PollerTypes'
      BY <1>0, <2>1, <2>7, AddEvType DEF PollerTypes
    <3>3. QED
      BY <2>3, <2>4, <2>7, <3>1, <3>2, EventStep
  <2>8. QED
    BY <2>5, <2>6, <2>7
<1>4. QED
  BY <1>1, <1>2, <1>3

\* What a failed connect leaves in the queue are tasks.
LEMMA FailedConnectTasksType ==
    ASSUME NEW f \in Frontend, NEW s \in FailedConnectTasks(f)
    PROVE  s \in Seq(Task)
<1>1. /\ T("backend_conn_ok", f) \in Task
      /\ T("backend_close", f) \in Task
  BY DEF T, Task
<1>2. SyncFailTasks(f) \in Seq(Task) /\ <<>> \in Seq(Task)
  BY <1>1 DEF SyncFailTasks
<1>3. QED
  BY <1>2 DEF FailedConnectTasks

\* A frontend at a free address, or without an app, is not linked.
LEMMA NotLinkedYet ==
    ASSUME HInv, NEW f \in Frontend, st[f] = "free" \/ req[f] = "no"
    PROVE  f \in Conn /\ peer[f] = None
BY DEF HInv, LinkSymmetry, NoAppNoBackend, Live, LiveState, Conn

\* Accepting, the first request, pipelined requests and the idle timer.
LEMMA FrontendEventSteps ==
    ASSUME IInv, NEW f \in Frontend,
           \/ Accept(f) \/ OnReadMatch(f) \/ OnReadForwardThenClose(f) \/ FrontendInactive(f)
    PROVE  IInv'
<1>0. /\ HInv /\ PollerTypes /\ LoopTypes /\ taskq \in Seq(Task) /\ TasksThere
      /\ f \in Conn /\ TypeOK /\ fd \in [Conn -> Fd \cup {None}]
  BY IInvParts DEF Conn, IInv, HInv, HandlerTypes
<1>1. CASE Accept(f)
  <2>1. st[f] = "free" /\ UNCHANGED loop
    BY <1>1 DEF Accept
  <2>2. PICK n \in FreeFds :
          \/ ToConnectBackend(f, n, "yes", taskq, pd)
          \/ /\ st' = [st EXCEPT ![f] = "conn_ok"]
             /\ fd' = [fd EXCEPT ![f] = n]
             /\ pd' = AddEv(pd, n, f, "io", {"r"})
             /\ UNCHANGED <<peer, io, req, taskq, frontend_active_n, backend_active_n>>
          \/ /\ \E s \in FailedConnectTasks(f) : s # <<>> /\ taskq' = taskq \o s
             /\ UNCHANGED <<handlers, pd>>
    BY <1>1 DEF Accept
  <2>3. n \in Fd /\ peer[f] = None
    BY <1>0, <2>1, NotLinkedYet DEF FreeFds
  <2>4. HInv' /\ PollerTypes' /\ taskq' \in Seq(Task) /\ Len(taskq') >= Len(taskq)
    <3>1. CASE ToConnectBackend(f, n, "yes", taskq, pd)
      BY <1>0, <2>3, <3>1, ToConnectBackendKeeps DEF PollerTypes
    <3>2. CASE /\ st' = [st EXCEPT ![f] = "conn_ok"]
               /\ fd' = [fd EXCEPT ![f] = n]
               /\ pd' = AddEv(pd, n, f, "io", {"r"})
               /\ UNCHANGED <<peer, io, req, taskq, frontend_active_n, backend_active_n>>
      <4>1. HInv'
        BY <1>0, <2>3, <3>2 DEF HInv, HandlerTypes, LinkSymmetry, NoAppNoBackend, Live, LiveState
      <4>2. PollerTypes'
        BY <1>0, <3>2, AddEvType DEF PollerTypes
      <4>3. QED
        BY <1>0, <3>2, <4>1, <4>2
    <3>3. CASE /\ \E s \in FailedConnectTasks(f) : s # <<>> /\ taskq' = taskq \o s
               /\ UNCHANGED <<handlers, pd>>
      BY <1>0, <3>3, HInvUnchanged, FailedConnectTasksType DEF PollerTypes
    <3>4. QED
      BY <2>2, <3>1, <3>2, <3>3
  <2>5. LoopTypes' /\ TasksThere'
    BY <1>0, <2>1, <2>4 DEF loop, LoopTypes, TasksThere
  <2>6. QED
    BY <2>4, <2>5, IInvPartsPrime
<1>2. CASE OnReadMatch(f)
  <2>1. req[f] = "no" /\ EndEvent
    BY <1>2 DEF OnReadMatch
  <2>2. peer[f] = None
    BY <1>0, <2>1, NotLinkedYet
  <2>3. CASE ToConnectBackend(f, fd[f], "saved", taskq, RemoveEv(pd, fd[f], "r"))
    <3>1. RemoveEv(pd, fd[f], "r") \in [Fd -> PdState] /\ fd[f] \in Fd \cup {None}
      BY <1>0, PdTypes DEF PollerTypes
    <3>2. HInv' /\ PollerTypes' /\ taskq' \in Seq(Task) /\ Len(taskq') >= Len(taskq)
      BY <1>0, <2>2, <2>3, <3>1, ToConnectBackendKeeps
    <3>3. QED
      BY <2>1, <3>2, EventStep
  <2>4. ASSUME NEW s \in FailedConnectTasks(f), Close(f, taskq \o s)
        PROVE  IInv'
    <3>1. taskq \o s \in Seq(Task) /\ Len(taskq \o s) >= Len(taskq)
      BY <1>0, FailedConnectTasksType
    <3>2. QED
      BY <1>0, <2>1, <2>4, <3>1, CloseEvent
  <2>5. QED
    BY <1>2, <2>3, <2>4 DEF OnReadMatch
<1>3. CASE OnReadForwardThenClose(f)
  <2>1. PICK r \in Forward(f) :
          \/ Crash
          \/ OnClose(f, taskq, RemoveAll(r[2], fd[f]), r[1]) /\ EndEvent
    BY <1>3 DEF OnReadForwardThenClose
  <2>2. CASE Crash
    <3>1. /\ LoopTypes' /\ TasksThere' /\ UNCHANGED handlers /\ PollerTypes'
          /\ taskq' = taskq
      BY <1>0, <2>2 DEF Crash, LoopTypes, TasksThere, PollerTypes
    <3>2. QED
      BY <1>0, <3>1, HInvUnchanged, IInvPartsPrime
  <2>3. CASE OnClose(f, taskq, RemoveAll(r[2], fd[f]), r[1]) /\ EndEvent
    <3>1. /\ r[1] \in [Conn -> IoState] /\ RemoveAll(r[2], fd[f]) \in [Fd -> PdState]
          /\ HInv /\ taskq \in Seq(Task)
      BY <1>0, <2>1, ForwardType, PdTypes, IInvParts DEF IInv
    <3>2. QED
      BY <1>0, <2>3, <3>1, OnCloseKeeps, EventStep
  <2>4. QED
    BY <2>1, <2>2, <2>3
<1>4. CASE FrontendInactive(f)
  <2>1. T("frontend_inactive", f) \in Task
    BY DEF T, Task
  <2>2. taskq' \in Seq(Task) /\ Len(taskq') >= Len(taskq)
    BY <1>0, <1>4, <2>1 DEF FrontendInactive
  <2>3. UNCHANGED handlers /\ PollerTypes' /\ LoopTypes' /\ TasksThere'
    BY <1>0, <1>4, <2>2 DEF FrontendInactive, PollerTypes, LoopTypes, TasksThere
  <2>4. QED
    BY <1>0, <2>2, <2>3, HInvUnchanged, IInvPartsPrime
<1>5. QED
  BY <1>1, <1>2, <1>3, <1>4

\* A task that closes the handler it names.
LEMMA CloseTask ==
    ASSUME IInv, NEW h \in Conn, todo > 0, Close(h, Tail(taskq)), EndTask
    PROVE  IInv'
BY CloseKeeps, TailTasks, TaskStep, IInvParts

\* A task that finds nothing to do.
LEMMA DropTaskStep ==
    ASSUME IInv, todo > 0, DropTask
    PROVE  IInv'
<1>1. HInv /\ PollerTypes /\ Tail(taskq) \in Seq(Task)
  BY IInvParts, TailTasks
<1>2. HInv' /\ PollerTypes' /\ taskq' = Tail(taskq) /\ EndTask
  BY <1>1, HInvUnchanged DEF DropTask, PollerTypes
<1>3. QED
  BY <1>1, <1>2, TaskStep

\* All tasks about connections.
LEMMA TaskSteps ==
    ASSUME IInv,
           \/ \E h \in Conn : TaskDrained(h)
           \/ \E f \in Frontend : TaskClosesFrontend(f) \/ TaskConnOk(f)
           \/ \E b \in Backend : TaskFrontendClose(b)
    PROVE  IInv'
<1>0. /\ HInv /\ PollerTypes /\ LoopTypes /\ taskq \in Seq(Task) /\ TasksThere
      /\ TypeOK /\ io \in [Conn -> IoState] /\ pd \in [Fd -> PdState]
  BY IInvParts DEF IInv, HInv, HandlerTypes, PollerTypes
<1>1. ASSUME NEW h \in Conn, TaskDrained(h) PROVE IInv'
  <2>1. todo > 0
    BY <1>1 DEF TaskDrained, RunsTask
  <2>2. Tail(taskq) \in Seq(Task)
    BY <2>1, TailTasks
  <2>3. CASE DropTask \/ (Close(h, Tail(taskq)) /\ EndTask)
    BY <2>1, <2>3, DropTaskStep, CloseTask
  <2>4. CASE /\ pd' = AddEv(pd, fd[h], h, "io", {"r"})
             /\ io' = [io EXCEPT ![h].paused = FALSE]
             /\ taskq' = Tail(taskq)
             /\ EndTask
             /\ UNCHANGED <<st, peer, fd, req, frontend_active_n, backend_active_n>>
    <3>1. io' \in [Conn -> IoState]
      BY <1>0, <2>4 DEF IoState
    <3>2. PollerTypes'
      BY <1>0, <2>4, AddEvType DEF PollerTypes
    <3>3. Len(taskq') >= Len(Tail(taskq))
      BY <2>2, <2>4
    <3>4. QED
      BY <1>0, <2>1, <2>2, <2>4, <3>1, <3>2, <3>3, IoOnly, TaskStep
  <2>5. QED
    BY <1>1, <2>3, <2>4 DEF TaskDrained
<1>2. ASSUME NEW f \in Frontend, TaskClosesFrontend(f) PROVE IInv'
  BY <1>2, CloseTask DEF TaskClosesFrontend, RunsTask, Conn
<1>3. ASSUME NEW b \in Backend, TaskFrontendClose(b) PROVE IInv'
  BY <1>3, CloseTask, DropTaskStep DEF TaskFrontendClose, RunsTask, Conn
<1>4. ASSUME NEW f \in Frontend, TaskConnOk(f) PROVE IInv'
  <2>1. todo > 0 /\ Live(f) /\ f \in Conn
    BY <1>4 DEF TaskConnOk, RunsTask, Conn
  <2>2. Tail(taskq) \in Seq(Task) /\ Len(Tail(taskq)) >= Len(Tail(taskq))
    BY <2>1, TailTasks
  <2>3. CASE DropTask
    BY <2>1, <2>3, DropTaskStep
  <2>4. CASE ~DropTask
    <3>1. EndTask
      BY <1>4, <2>4 DEF TaskConnOk
    <3>2. PICK r \in IF req[f] = "saved" THEN Forward(f) ELSE {<<io, pd>>} :
             \/ /\ io' = r[1]
                /\ pd' = AddEv(r[2], fd[f], f, "io", {"r"})
                /\ st' = [st EXCEPT ![f] = "active_ok"]
                /\ req' = [req EXCEPT ![f] = "yes"]
                /\ frontend_active_n' = frontend_active_n + 1
                /\ taskq' = Tail(taskq)
                /\ UNCHANGED <<peer, fd, backend_active_n>>
             \/ OnClose(f, Tail(taskq), RemoveAll(r[2], fd[f]), r[1])
             \/ OnClose(f, Tail(taskq), r[2], r[1])
      BY <1>4, <2>4 DEF TaskConnOk
    <3>3. r[1] \in [Conn -> IoState] /\ r[2] \in [Fd -> PdState]
      BY <1>0, <2>1, <3>2, ForwardType
    <3>4. RemoveAll(r[2], fd[f]) \in [Fd -> PdState]
      BY <3>3, PdTypes
    <3>5. CASE \/ OnClose(f, Tail(taskq), RemoveAll(r[2], fd[f]), r[1])
               \/ OnClose(f, Tail(taskq), r[2], r[1])
      BY <1>0, <2>1, <2>2, <3>1, <3>3, <3>4, <3>5, OnCloseKeeps, TaskStep
    <3>6. CASE /\ io' = r[1]
               /\ pd' = AddEv(r[2], fd[f], f, "io", {"r"})
               /\ st' = [st EXCEPT ![f] = "active_ok"]
               /\ req' = [req EXCEPT ![f] = "yes"]
               /\ frontend_active_n' = frontend_active_n + 1
               /\ taskq' = Tail(taskq)
               /\ UNCHANGED <<peer, fd, backend_active_n>>
      <4>1. HInv'
        BY <1>0, <2>1, <3>3, <3>6
           DEF HInv, HandlerTypes, LinkSymmetry, NoAppNoBackend, Live, LiveState
      <4>2. PollerTypes'
        BY <2>1, <3>3, <3>6, AddEvType DEF PollerTypes
      <4>3. QED
        BY <2>1, <2>2, <3>1, <3>6, <4>1, <4>2, TaskStep
    <3>7. QED
      BY <3>2, <3>5, <3>6
  <2>5. QED
    BY <2>3, <2>4
<1>5. QED
  BY <1>1, <1>2, <1>3, <1>4

\* Every step of the worker keeps the inductive invariant.
LEMMA NextIInv == IInv /\ [Next]_vars => IInv'
BY LoopSteps, IoEventSteps, ConnectEventSteps, FrontendEventSteps, TaskSteps DEF Next

----------------------------------------------------------------------------
(* Theorems                                                                *)

\* The inductive invariant holds in every reachable state.
LEMMA Invariance == Spec => []IInv
BY InitIInv, NextIInv, PTL DEF Spec

\* Every variable keeps its type, in every instance of the worker.
THEOREM TypeCorrect == Spec => []TypeOK
<1>1. IInv => TypeOK
  BY DEF IInv
<1>2. QED
  BY <1>1, Invariance, PTL

\* The pointers of a frontend and its backend are never dangling nor one-sided,
\* whatever the environment does and however addresses and fds are reused
\* (http_frontend::on_close, backend::on_close and the close calls between them).
THEOREM LinksSymmetric == Spec => []LinkSymmetry
<1>1. IInv => LinkSymmetry
  BY DEF IInv
<1>2. QED
  BY <1>1, Invariance, PTL

----------------------------------------------------------------------------
(* Sessions: the worker implements Sessions, and no connection is left     *)
(* behind                                                                  *)

\* A free address remembers no app.
FreeHasNoApp == \A f \in Frontend : ~Live(f) => req[f] = "no"

\* q has the task that will close h.
Closing(h) == IF h \in Frontend THEN {"backend_close", "backend_conn_fail"} ELSE {"frontend_close"}
Doomed(h, q) == \E i \in 1..Len(q) : q[i].p = h /\ q[i].type \in Closing(h)

\* NoOrphan for one handler and one queue, whatever the phase.
Accounted(h, q) ==
    Live(h) /\ peer[h] = None =>
        IF h \in Frontend THEN req[h] = "no" \/ Doomed(h, q)
        ELSE st[h] = "new_ok" \/ Doomed(h, q)

AllAccounted == \A h \in Conn : Accounted(h, taskq)

SInv == IInv /\ FreeHasNoApp /\ AllAccounted

----------------------------------------------------------------------------
(* Steps by what they do to lives, pointers, apps and closing tasks.        *)
(* KeepsTasks(q, S): q has still the closing tasks of the live handlers      *)
(* outside S.                                                              *)

KeepsTasks(q, S) ==
    /\ q \in Seq(Task)
    /\ \A h \in Conn \ S : Live(h) /\ Doomed(h, taskq) => Doomed(h, q)

Stays == UNCHANGED <<st, peer, req>> /\ KeepsTasks(taskq', {b \in Backend : st[b] = "new_ok"})

Closes(h) == \E q, p, s : KeepsTasks(q, {h}) /\ OnClose(h, q, p, s)

Fails(b) == \E q : KeepsTasks(q, {}) /\ ConnectFail(b, q)

Connects(f) ==
    \E b \in Backend, r \in {"saved", "yes"} :
        /\ st[f] = "free" \/ req[f] = "no"
        /\ st[b] = "free"
        /\ peer' = [peer EXCEPT ![f] = b, ![b] = f]
        /\ req' = [req EXCEPT ![f] = r]
        /\ \E s \in {"new_ok", "active_ok"} : st' = [st EXCEPT ![f] = "conn_ok", ![b] = s]
        /\ KeepsTasks(taskq', {})

Opens(f) ==
    /\ st[f] = "free" /\ st' = [st EXCEPT ![f] = "conn_ok"]
    /\ UNCHANGED <<peer, req>> /\ taskq' = taskq

Activates(h) ==
    /\ Live(h) /\ peer[h] # None
    /\ st' = [st EXCEPT ![h] = "active_ok"]
    /\ UNCHANGED peer
    /\ UNCHANGED req \/ (h \in Frontend /\ req' = [req EXCEPT ![h] = "yes"])
    /\ KeepsTasks(taskq', {})

StartsAgain ==
    /\ st' = [h \in Conn |-> "free"] /\ peer' = [h \in Conn |-> None]
    /\ req' = [f \in Frontend |-> "no"]

SessionStep ==
    \/ Stays \/ StartsAgain
    \/ \E h \in Conn : Closes(h) \/ Activates(h)
    \/ \E b \in Backend : Fails(b)
    \/ \E f \in Frontend : Connects(f) \/ Opens(f)

----------------------------------------------------------------------------
(* Queues                                                                  *)

\* A longer queue keeps its closing tasks, and gains those of its new end.
LEMMA DoomedConcat ==
    ASSUME NEW h \in Conn, NEW q \in Seq(Task), NEW s \in Seq(Task),
           Doomed(h, q) \/ Doomed(h, s)
    PROVE  Doomed(h, q \o s)
<1>1. /\ Len(q) \in Nat /\ Len(s) \in Nat /\ Len(q \o s) = Len(q) + Len(s)
      /\ \A i \in 1..Len(q) : (q \o s)[i] = q[i] /\ i \in 1..Len(q \o s)
      /\ \A i \in 1..Len(s) : (q \o s)[Len(q) + i] = s[i] /\ Len(q) + i \in 1..Len(q \o s)
  OBVIOUS
<1>2. CASE Doomed(h, q)
  BY <1>1, <1>2, Zenon DEF Doomed
<1>3. CASE Doomed(h, s)
  BY <1>1, <1>3, Zenon DEF Doomed
<1> QED
  BY <1>2, <1>3

\* Running the first task keeps the closing tasks of the handlers it does not close.
LEMMA DoomedTail ==
    ASSUME NEW h \in Conn, NEW q \in Seq(Task), q # <<>>, Doomed(h, q),
           Head(q).p # h \/ Head(q).type \notin Closing(h)
    PROVE  Doomed(h, Tail(q))
<1>1. PICK i \in 1..Len(q) : q[i].p = h /\ q[i].type \in Closing(h)
  BY DEF Doomed
<1>2. i # 1
  BY <1>1
<1>3. i - 1 \in 1..Len(Tail(q)) /\ Tail(q)[i - 1] = q[i]
  BY <1>2
<1> QED
  BY <1>1, <1>3, Zenon DEF Doomed

LEMMA KeepsMore ==
    ASSUME taskq \in Seq(Task), NEW s \in Seq(Task), NEW S
    PROVE  KeepsTasks(taskq \o s, S)
<1>1. taskq \o s \in Seq(Task)
  OBVIOUS
<1> QED
  BY <1>1, DoomedConcat DEF KeepsTasks

LEMMA KeepsOne ==
    ASSUME taskq \in Seq(Task), NEW t \in Task, NEW S
    PROVE  KeepsTasks(Append(taskq, t), S)
<1>1. Append(taskq, t) = taskq \o <<t>> /\ <<t>> \in Seq(Task)
  OBVIOUS
<1> QED
  BY <1>1, KeepsMore

LEMMA KeepsSame ==
    ASSUME taskq \in Seq(Task), NEW S
    PROVE  KeepsTasks(taskq, S)
BY DEF KeepsTasks

LEMMA KeepsTail ==
    ASSUME taskq \in Seq(Task), taskq # <<>>, NEW S,
           \A h \in Conn \ S : Live(h) =>
               Head(taskq).p # h \/ Head(taskq).type \notin Closing(h)
    PROVE  KeepsTasks(Tail(taskq), S)
<1>1. Tail(taskq) \in Seq(Task)
  OBVIOUS
<1> QED
  BY <1>1, DoomedTail DEF KeepsTasks

----------------------------------------------------------------------------
(* Every step of the worker is one of these                                 *)

\* Steps that leave handlers alone, and lose no closing task of a live handler.
LEMMA StaysSteps ==
    ASSUME UNCHANGED <<st, peer, req>>, taskq' \in Seq(Task), taskq \in Seq(Task),
           \/ taskq' = taskq
           \/ \E t \in Task : taskq' = Append(taskq, t)
           \/ \E s \in Seq(Task) : taskq' = taskq \o s
    PROVE  SessionStep
<1>1. \A S : KeepsTasks(taskq', S)
  BY KeepsSame, KeepsOne, KeepsMore
<1> QED
  BY <1>1 DEF SessionStep, Stays

LEMMA LoopClass ==
    ASSUME IInv, EpollWait \/ NextEvent \/ LoopTop \/ Restart \/ SkipEvent
                 \/ AcceptDone \/ TimerDone \/ StaleTask \/ UNCHANGED vars
    PROVE  SessionStep
<1>0. taskq \in Seq(Task)
  BY IInvParts
<1>1. CASE EpollWait \/ NextEvent \/ LoopTop \/ SkipEvent \/ AcceptDone \/ TimerDone
           \/ Crash \/ UNCHANGED vars
  <2>1. UNCHANGED <<st, peer, req>> /\ taskq' = taskq
    BY <1>1 DEF EpollWait, NextEvent, LoopTop, SkipEvent, AcceptDone, TimerDone, Crash,
                vars, handlers
  <2> QED
    BY <1>0, <2>1, StaysSteps
<1>2. CASE Restart
  BY <1>2 DEF Restart, SessionStep, StartsAgain
<1>3. CASE StaleTask /\ ~Crash
  <2>1. todo > 0 /\ ~Live(Head(taskq).p) /\ taskq' = Tail(taskq) /\ UNCHANGED <<st, peer, req>>
    BY <1>3 DEF StaleTask, DropTask, handlers
  <2>2. taskq # <<>>
    BY <2>1, TailTasks
  <2>3. \A S : KeepsTasks(taskq', S)
    BY <1>0, <2>1, <2>2, KeepsTail
  <2> QED
    BY <2>1, <2>3 DEF SessionStep, Stays
<1> QED
  BY <1>1, <1>2, <1>3

\* A close from a queue that has what the rest of the handlers need.
LEMMA CloseClass ==
    ASSUME NEW h \in Conn, NEW q, Close(h, q), KeepsTasks(q, {h})
    PROVE  SessionStep
BY DEF Close, Closes, SessionStep

LEMMA IoEventClass ==
    ASSUME IInv, NEW h \in Conn, Events(h)
    PROVE  SessionStep
<1>0. taskq \in Seq(Task) /\ taskq' \in Seq(Task) /\ HInv
  BY IoEventSteps, IInvParts, IInvPartsPrime
<1>1. CASE OnError(h) \/ OnReadClose(h)
  BY <1>0, <1>1, CloseClass, KeepsSame DEF OnError, OnReadClose
<1>2. CASE OnReadNothing(h) \/ OnReadForward(h)
  <2>1. UNCHANGED <<st, peer, req>> /\ taskq' = taskq
    BY <1>2 DEF OnReadNothing, OnReadForward, handlers
  <2> QED
    BY <1>0, <2>1, StaysSteps
<1>3. CASE OnWrite(h)
  <2>1. UNCHANGED <<st, peer, req>> /\ (taskq' = taskq \/ taskq' = taskq \o DrainedTask(h))
    <3>1. CASE Crash
      BY <3>1 DEF Crash, handlers
    <3>2. CASE ~Crash
      BY <1>3, <3>2 DEF OnWrite
    <3> QED
      BY <3>1, <3>2
  <2>2. DrainedTask(h) \in Seq(Task)
    <3>1. CASE peer[h] = None
      BY <3>1 DEF DrainedTask
    <3>2. CASE peer[h] # None
      <4>1. /\ h \in Frontend => peer[h] \in Backend
            /\ h \notin Frontend => peer[h] \in Frontend
        BY <1>0, <3>2 DEF HInv, HandlerTypes, LinkSymmetry, Conn
      <4> QED
        BY <3>2, <4>1 DEF DrainedTask, T, Task
    <3> QED
      BY <3>1, <3>2
  <2> QED
    BY <1>0, <2>1, <2>2, StaysSteps
<1> QED
  BY <1>1, <1>2, <1>3 DEF Events

LEMMA ConnectEventClass ==
    ASSUME IInv, NEW b \in Backend, OnConnectOk(b) \/ OnConnectFail(b) \/ ConnectTimeout(b)
    PROVE  SessionStep
<1>0. taskq \in Seq(Task) /\ HInv /\ b \in Conn /\ b \notin Frontend
  BY IInvParts, ConstantsAssumption DEF Conn
<1>1. CASE OnConnectFail(b) \/ ConnectTimeout(b)
  <2>1. ConnectFail(b, taskq)
    BY <1>1 DEF OnConnectFail, ConnectTimeout
  <2> QED
    BY <1>0, <2>1, KeepsSame DEF SessionStep, Fails
<1>2. CASE OnConnectOk(b)
  <2> DEFINE p == RemoveAll(pd, fd[b])
             f == peer[b]
             q == IF f # None /\ st[f] = "conn_ok"
                  THEN Append(taskq, T("backend_conn_ok", f)) ELSE taskq
  <2>1. \A S : KeepsTasks(q, S)
    <3>1. f # None => f \in Frontend
      BY <1>0 DEF HInv, HandlerTypes, LinkSymmetry, Conn
    <3>2. f \in Frontend => T("backend_conn_ok", f) \in Task
      BY DEF T, Task
    <3>3. CASE f # None /\ st[f] = "conn_ok"
      BY <1>0, <3>1, <3>2, <3>3, KeepsOne
    <3>4. CASE ~(f # None /\ st[f] = "conn_ok")
      BY <1>0, <3>4, KeepsSame
    <3> QED
      BY <3>3, <3>4
  <2>2. \/ /\ f # None
           /\ st' = [st EXCEPT ![b] = "active_ok"]
           /\ taskq' = q
           /\ UNCHANGED <<peer, req>>
        \/ OnClose(b, q, p, io)
    BY <1>2 DEF OnConnectOk
  <2>3. CASE /\ f # None
             /\ st' = [st EXCEPT ![b] = "active_ok"]
             /\ taskq' = q
             /\ UNCHANGED <<peer, req>>
    <3>1. Live(b)
      BY <1>0, <2>3 DEF HInv, LinkSymmetry
    <3> HIDE DEF q
    <3> QED
      BY <1>0, <2>1, <2>3, <3>1 DEF SessionStep, Activates
  <2>4. CASE OnClose(b, q, p, io)
    <3> HIDE DEF q, p
    <3> QED
      BY <1>0, <2>1, <2>4 DEF SessionStep, Closes
  <2> QED
    BY <2>2, <2>3, <2>4
<1> QED
  BY <1>1, <1>2

LEMMA ToConnectBackendClass ==
    ASSUME IInv, NEW f \in Frontend, NEW n, NEW r \in {"saved", "yes"}, NEW p,
           st[f] = "free" \/ req[f] = "no",
           ToConnectBackend(f, n, r, taskq, p)
    PROVE  SessionStep
<1>0. taskq \in Seq(Task) /\ T("backend_conn_ok", f) \in Task
  BY IInvParts DEF T, Task
<1>1. PICK b \in Backend, m \in FreeFds \ {n} :
        /\ st[b] = "free"
        /\ peer' = [peer EXCEPT ![f] = b, ![b] = f]
        /\ req' = [req EXCEPT ![f] = r]
        /\ Connecting(f, b, m, taskq, p) \/ Connected(f, b, m, taskq, p)
  BY DEF ToConnectBackend
<1>2. taskq' = taskq \/ taskq' = Append(taskq, T("backend_conn_ok", f))
  BY <1>1 DEF Connecting, Connected
<1>3. KeepsTasks(taskq', {})
  BY <1>0, <1>2, KeepsSame, KeepsOne
<1>4. \E s \in {"new_ok", "active_ok"} : st' = [st EXCEPT ![f] = "conn_ok", ![b] = s]
  BY <1>1 DEF Connecting, Connected
<1>5. Connects(f)
  BY <1>1, <1>3, <1>4 DEF Connects
<1> QED
  BY <1>5 DEF SessionStep

LEMMA FrontendEventClass ==
    ASSUME IInv, NEW f \in Frontend,
           \/ Accept(f) \/ OnReadMatch(f) \/ OnReadForwardThenClose(f) \/ FrontendInactive(f)
    PROVE  SessionStep
<1>0. taskq \in Seq(Task) /\ taskq' \in Seq(Task) /\ f \in Conn
  BY IInvParts, IInvPartsPrime, FrontendEventSteps DEF Conn
<1>1. CASE Accept(f)
  <2>1. PICK n \in FreeFds :
          \/ ToConnectBackend(f, n, "yes", taskq, pd)
          \/ /\ st' = [st EXCEPT ![f] = "conn_ok"]
             /\ UNCHANGED <<peer, req, taskq>>
          \/ /\ \E s \in FailedConnectTasks(f) : taskq' = taskq \o s
             /\ UNCHANGED <<st, peer, req>>
    BY <1>1 DEF Accept, handlers
  <2>2. st[f] = "free"
    BY <1>1 DEF Accept
  <2>3. CASE ToConnectBackend(f, n, "yes", taskq, pd)
    BY <2>2, <2>3, ToConnectBackendClass
  <2>4. CASE /\ st' = [st EXCEPT ![f] = "conn_ok"]
             /\ UNCHANGED <<peer, req, taskq>>
    BY <2>2, <2>4 DEF SessionStep, Opens
  <2>5. CASE /\ \E s \in FailedConnectTasks(f) : taskq' = taskq \o s
             /\ UNCHANGED <<st, peer, req>>
    BY <1>0, <2>5, StaysSteps, FailedConnectTasksType
  <2> QED
    BY <2>1, <2>3, <2>4, <2>5
<1>2. CASE OnReadMatch(f)
  <2>1. req[f] = "no"
    BY <1>2 DEF OnReadMatch
  <2>2. CASE ToConnectBackend(f, fd[f], "saved", taskq, RemoveEv(pd, fd[f], "r"))
    BY <2>1, <2>2, ToConnectBackendClass
  <2>3. ASSUME NEW s \in FailedConnectTasks(f), Close(f, taskq \o s)
        PROVE  SessionStep
    BY <1>0, <2>3, CloseClass, KeepsMore, FailedConnectTasksType
  <2> QED
    BY <1>2, <2>2, <2>3 DEF OnReadMatch
<1>3. CASE OnReadForwardThenClose(f)
  <2>1. PICK r \in Forward(f) :
          \/ Crash
          \/ OnClose(f, taskq, RemoveAll(r[2], fd[f]), r[1]) /\ EndEvent
    BY <1>3 DEF OnReadForwardThenClose
  <2>2. CASE Crash
    <3>1. UNCHANGED <<st, peer, req>> /\ taskq' = taskq
      BY <2>2 DEF Crash, handlers
    <3> QED
      BY <1>0, <3>1, StaysSteps
  <2>3. CASE OnClose(f, taskq, RemoveAll(r[2], fd[f]), r[1])
    BY <1>0, <2>3, KeepsSame DEF SessionStep, Closes
  <2> QED
    BY <2>1, <2>2, <2>3
<1>4. CASE FrontendInactive(f)
  <2>1. T("frontend_inactive", f) \in Task
    BY DEF T, Task
  <2>2. UNCHANGED <<st, peer, req>> /\ taskq' = Append(taskq, T("frontend_inactive", f))
    BY <1>4 DEF FrontendInactive, handlers
  <2> QED
    BY <1>0, <2>1, <2>2, StaysSteps
<1> QED
  BY <1>1, <1>2, <1>3, <1>4

\* The task that closes a handler is gone with it; the others close nobody.
LEMMA TaskClass ==
    ASSUME IInv,
           \/ \E h \in Conn : TaskDrained(h)
           \/ \E f \in Frontend : TaskClosesFrontend(f) \/ TaskConnOk(f)
           \/ \E b \in Backend : TaskFrontendClose(b)
    PROVE  SessionStep
<1>0. taskq \in Seq(Task)
  BY IInvParts
<1>1. ASSUME NEW h \in Conn, NEW t, RunsTask(t, h)
      PROVE  /\ KeepsTasks(Tail(taskq), {h})
             /\ t \notin {"backend_close", "backend_conn_fail", "frontend_close"}
                   => \A S : KeepsTasks(Tail(taskq), S)
  <2>1. taskq # <<>> /\ Head(taskq).p = h /\ Head(taskq).type = t
    BY <1>1, TailTasks DEF RunsTask
  <2>2. KeepsTasks(Tail(taskq), {h})
    BY <1>0, <2>1, KeepsTail
  <2>3. ASSUME t \notin {"backend_close", "backend_conn_fail", "frontend_close"}, NEW S
        PROVE  KeepsTasks(Tail(taskq), S)
    BY <1>0, <2>1, <2>3, KeepsTail DEF Closing
  <2> QED
    BY <2>2, <2>3
<1>2. ASSUME NEW h \in Conn, TaskDrained(h) PROVE SessionStep
  <2>1. \A S : KeepsTasks(Tail(taskq), S)
    <3>1. CASE RunsTask("backend_send_buffer_drained", h)
      <4>1. "backend_send_buffer_drained" \notin {"backend_close", "backend_conn_fail", "frontend_close"}
        OBVIOUS
      <4> QED
        BY <1>1, <3>1, <4>1, Zenon
    <3>2. CASE RunsTask("frontend_send_buffer_drained", h)
      <4>1. "frontend_send_buffer_drained" \notin {"backend_close", "backend_conn_fail", "frontend_close"}
        OBVIOUS
      <4> QED
        BY <1>1, <3>2, <4>1, Zenon
    <3> QED
      BY <1>2, <3>1, <3>2 DEF TaskDrained
  <2>2. \/ taskq' = Tail(taskq) /\ UNCHANGED <<st, peer, req>>
        \/ Close(h, Tail(taskq))
    BY <1>2 DEF TaskDrained, DropTask, handlers
  <2>3. CASE taskq' = Tail(taskq) /\ UNCHANGED <<st, peer, req>>
    BY <2>1, <2>3 DEF SessionStep, Stays
  <2>4. CASE Close(h, Tail(taskq))
    BY <2>1, <2>4, CloseClass
  <2> QED
    BY <2>2, <2>3, <2>4
<1>3. ASSUME NEW f \in Frontend, TaskClosesFrontend(f) PROVE SessionStep
  <2>1. f \in Conn /\ Close(f, Tail(taskq)) /\ KeepsTasks(Tail(taskq), {f})
    BY <1>1, <1>3 DEF TaskClosesFrontend, Conn
  <2> QED
    BY <2>1, CloseClass
<1>4. ASSUME NEW b \in Backend, TaskFrontendClose(b) PROVE SessionStep
  <2>1. b \in Conn /\ KeepsTasks(Tail(taskq), {b})
    BY <1>1, <1>4 DEF TaskFrontendClose, Conn
  <2>2. CASE st[b] # "new_ok"
    BY <1>4, <2>1, <2>2, CloseClass DEF TaskFrontendClose
  <2>3. CASE st[b] = "new_ok"
    <3>1. taskq' = Tail(taskq) /\ UNCHANGED <<st, peer, req>>
      BY <1>4, <2>3 DEF TaskFrontendClose, DropTask, handlers
    <3>2. KeepsTasks(taskq', {c \in Backend : st[c] = "new_ok"})
      BY <2>1, <2>3, <3>1 DEF KeepsTasks
    <3> QED
      BY <3>1, <3>2 DEF SessionStep, Stays
  <2> QED
    BY <2>2, <2>3
<1>5. ASSUME NEW f \in Frontend, TaskConnOk(f) PROVE SessionStep
  <2>1. Live(f) /\ f \in Conn /\ \A S : KeepsTasks(Tail(taskq), S)
    <3>1. Live(f) /\ f \in Conn /\ RunsTask("backend_conn_ok", f)
      BY <1>5 DEF TaskConnOk, Conn
    <3>2. "backend_conn_ok" \notin {"backend_close", "backend_conn_fail", "frontend_close"}
      OBVIOUS
    <3> QED
      BY <1>1, <3>1, <3>2, Zenon
  <2>2. CASE DropTask
    <3>1. taskq' = Tail(taskq) /\ UNCHANGED <<st, peer, req>>
      BY <2>2 DEF DropTask, handlers
    <3> QED
      BY <2>1, <3>1 DEF SessionStep, Stays
  <2>3. CASE ~DropTask
    <3>1. PICK r \in IF req[f] = "saved" THEN Forward(f) ELSE {<<io, pd>>} :
             \/ /\ peer[f] # None
                /\ st' = [st EXCEPT ![f] = "active_ok"]
                /\ req' = [req EXCEPT ![f] = "yes"]
                /\ taskq' = Tail(taskq)
                /\ UNCHANGED peer
             \/ OnClose(f, Tail(taskq), RemoveAll(r[2], fd[f]), r[1])
             \/ OnClose(f, Tail(taskq), r[2], r[1])
      BY <1>5, <2>3 DEF TaskConnOk
    <3>2. CASE \/ OnClose(f, Tail(taskq), RemoveAll(r[2], fd[f]), r[1])
               \/ OnClose(f, Tail(taskq), r[2], r[1])
      BY <2>1, <3>2 DEF SessionStep, Closes
    <3>3. CASE /\ peer[f] # None
               /\ st' = [st EXCEPT ![f] = "active_ok"]
               /\ req' = [req EXCEPT ![f] = "yes"]
               /\ taskq' = Tail(taskq)
               /\ UNCHANGED peer
      BY <2>1, <3>3 DEF SessionStep, Activates
    <3> QED
      BY <3>1, <3>2, <3>3
  <2> QED
    BY <2>2, <2>3
<1> QED
  BY <1>2, <1>3, <1>4, <1>5

LEMMA Classified == IInv /\ [Next]_vars => SessionStep
BY LoopClass, IoEventClass, ConnectEventClass, FrontendEventClass, TaskClass DEF Next

----------------------------------------------------------------------------
(* Nobody is left behind                                                   *)

LEMMA Types ==
    ASSUME IInv
    PROVE  /\ st \in [Conn -> LiveState \cup {"free"}] /\ peer \in [Conn -> Conn \cup {None}]
           /\ req \in [Frontend -> {"no", "saved", "yes"}] /\ taskq \in Seq(Task)
           /\ HInv /\ None \notin Conn /\ Frontend \cap Backend = {}
           /\ Frontend \subseteq Conn /\ Backend \subseteq Conn
BY IInvParts, ConstantsAssumption DEF HInv, HandlerTypes, Conn

LEMMA FreeHasNoAppKept ==
    ASSUME IInv, FreeHasNoApp, SessionStep
    PROVE  FreeHasNoApp'
<1>1. CASE Stays
  BY <1>1 DEF Stays, FreeHasNoApp, Live
<1>2. CASE StartsAgain
  BY <1>2 DEF StartsAgain, FreeHasNoApp
<1>3. ASSUME NEW h \in Conn, Closes(h) PROVE FreeHasNoApp'
  BY <1>3, Types DEF Closes, OnClose, FreeHasNoApp, Live
<1>4. ASSUME NEW h \in Conn, Activates(h) PROVE FreeHasNoApp'
  BY <1>4, Types DEF Activates, FreeHasNoApp, Live, LiveState
<1>5. ASSUME NEW b \in Backend, Fails(b) PROVE FreeHasNoApp'
  BY <1>5, Types DEF Fails, ConnectFail, FreeHasNoApp, Live
<1>6. ASSUME NEW f \in Frontend, Connects(f) PROVE FreeHasNoApp'
  BY <1>6, Types DEF Connects, FreeHasNoApp, Live, LiveState
<1>7. ASSUME NEW f \in Frontend, Opens(f) PROVE FreeHasNoApp'
  BY <1>7, Types DEF Opens, FreeHasNoApp, Live, LiveState
<1> QED
  BY <1>1, <1>2, <1>3, <1>4, <1>5, <1>6, <1>7 DEF SessionStep

\* The peer of a handler that closes gets the task that closes it.
LEMMA PeerIsDoomed ==
    ASSUME IInv, NEW h \in Conn, NEW x \in Conn, peer[x] # None, Unlinked(h)[x] = None, x # h
    PROVE  x = peer[h] /\ peer[h] # None /\ Doomed(x, PeerTask(h))
<1>1. x = peer[h] /\ peer[h] # None
  BY Types DEF Unlinked
<1>2. h \in Frontend <=> x \in Backend
  BY <1>1 DEF IInv, LinkSymmetry
<1>3. PICK t \in Closing(x) : PeerTask(h) = <<T(t, x)>>
  <2>1. CASE h \in Frontend
    <3>1. PeerTask(h) = << T("frontend_close", x) >>
      BY <1>1, <2>1 DEF PeerTask
    <3>2. "frontend_close" \in Closing(x)
      BY <1>2, <2>1, Types DEF Closing
    <3> QED
      BY <3>1, <3>2
  <2>2. CASE h \notin Frontend
    <3>1. PeerTask(h) = << T("backend_close", x) >>
      BY <1>1, <2>2 DEF PeerTask
    <3>2. x \in Frontend
      BY <1>2, <2>2 DEF Conn
    <3>3. "backend_close" \in Closing(x)
      BY <3>2 DEF Closing
    <3> QED
      BY <3>1, <3>3
  <2> QED
    BY <2>1, <2>2
<1>4. Len(PeerTask(h)) = 1 /\ PeerTask(h)[1].p = x /\ PeerTask(h)[1].type = t
  BY <1>3 DEF T
<1> QED
  BY <1>1, <1>3, <1>4 DEF Doomed

LEMMA AllAccountedKept ==
    ASSUME IInv, IInv', FreeHasNoApp, AllAccounted, SessionStep
    PROVE  AllAccounted'
<1> SUFFICES ASSUME NEW x \in Conn, Live(x)', peer'[x] = None
             PROVE  IF x \in Frontend THEN req'[x] = "no" \/ Doomed(x, taskq')
                    ELSE st'[x] = "new_ok" \/ Doomed(x, taskq')
  BY DEF AllAccounted, Accounted, Doomed, Closing
<1>0. Live(x) /\ peer[x] = None =>
         IF x \in Frontend THEN req[x] = "no" \/ Doomed(x, taskq)
         ELSE st[x] = "new_ok" \/ Doomed(x, taskq)
  BY DEF AllAccounted, Accounted
<1>1. CASE Stays
  BY <1>0, <1>1, Types DEF Stays, KeepsTasks, Live, Conn
<1>2. CASE StartsAgain
  BY <1>2 DEF StartsAgain, Live, LiveState
<1>3. ASSUME NEW h \in Conn, Closes(h)
      PROVE  IF x \in Frontend THEN req'[x] = "no" \/ Doomed(x, taskq')
             ELSE st'[x] = "new_ok" \/ Doomed(x, taskq')
  <2>1. PICK q, p, s : KeepsTasks(q, {h}) /\ OnClose(h, q, p, s)
    BY <1>3 DEF Closes
  <2>2. /\ peer' = Unlinked(h) /\ st' = [st EXCEPT ![h] = "free"]
        /\ req' = IF h \in Frontend THEN [req EXCEPT ![h] = "no"] ELSE req
        /\ taskq' = q \o PeerTask(h) /\ q \in Seq(Task) /\ PeerTask(h) \in Seq(Task)
    BY <2>1, Types, PeerTaskType DEF OnClose, KeepsTasks
  <2>3. x # h /\ st'[x] = st[x] /\ Live(x) /\ (x \in Frontend => req'[x] = req[x])
    BY <2>2, Types DEF Live, LiveState
  <2>4. CASE peer[x] = None
    <3>1. Doomed(x, taskq) => Doomed(x, taskq')
      BY <2>1, <2>2, <2>3, DoomedConcat DEF KeepsTasks
    <3> QED
      BY <1>0, <2>3, <2>4, <3>1
  <2>5. CASE peer[x] # None
    <3>1. Doomed(x, taskq')
      BY <2>2, <2>3, <2>5, PeerIsDoomed, DoomedConcat
    <3> QED
      BY <3>1
  <2> QED
    BY <2>4, <2>5
<1>4. ASSUME NEW h \in Conn, Activates(h)
      PROVE  IF x \in Frontend THEN req'[x] = "no" \/ Doomed(x, taskq')
             ELSE st'[x] = "new_ok" \/ Doomed(x, taskq')
  <2>1. x # h /\ peer[x] = None /\ KeepsTasks(taskq', {})
    BY <1>4 DEF Activates
  <2>2. st'[x] = st[x] /\ Live(x) /\ (x \in Frontend => req'[x] = req[x])
    BY <1>4, <2>1, Types DEF Activates, Live
  <2> QED
    BY <1>0, <2>1, <2>2 DEF KeepsTasks
<1>5. ASSUME NEW b \in Backend, Fails(b)
      PROVE  IF x \in Frontend THEN req'[x] = "no" \/ Doomed(x, taskq')
             ELSE st'[x] = "new_ok" \/ Doomed(x, taskq')
  <2>0. b \in Conn /\ b \notin Frontend
    BY Types
  <2>1. PICK q : KeepsTasks(q, {}) /\ ConnectFail(b, q)
    BY <1>5 DEF Fails
  <2>2. /\ peer' = Unlinked(b) /\ st' = [st EXCEPT ![b] = "free"] /\ req' = req
        /\ taskq' = IF peer[b] = None THEN q ELSE Append(q, T("backend_conn_fail", peer[b]))
        /\ q \in Seq(Task)
    BY <2>1 DEF ConnectFail, KeepsTasks
  <2>3. x # b /\ st'[x] = st[x] /\ Live(x)
    BY <2>0, <2>2, Types DEF Live, LiveState
  <2>4. peer[b] # None => peer[b] \in Frontend
    BY <2>0, Types DEF IInv, LinkSymmetry, Conn
  <2>5. \A f \in Frontend : <<T("backend_conn_fail", f)>> \in Seq(Task)
    BY DEF T, Task
  <2>6. CASE peer[x] = None
    <3>1. Doomed(x, taskq) => Doomed(x, q)
      BY <2>1, <2>3 DEF KeepsTasks
    <3>2. CASE peer[b] = None
      BY <1>0, <2>2, <2>3, <2>6, <3>1, <3>2
    <3>3. CASE peer[b] # None
      <4>1. taskq' = q \o <<T("backend_conn_fail", peer[b])>>
        BY <2>2, <2>4, <2>5, <3>3
      <4>2. Doomed(x, q) => Doomed(x, taskq')
        BY <2>2, <2>4, <2>5, <3>3, <4>1, DoomedConcat
      <4> QED
        BY <1>0, <2>2, <2>3, <2>6, <3>1, <4>2
    <3> QED
      BY <3>2, <3>3
  <2>7. CASE peer[x] # None
    <3>1. x = peer[b] /\ peer[b] # None
      BY <2>0, <2>2, <2>3, <2>7, PeerIsDoomed
    <3>2. x \in Frontend /\ taskq' = q \o <<T("backend_conn_fail", x)>>
      BY <2>2, <2>4, <2>5, <3>1
    <3>3. Doomed(x, <<T("backend_conn_fail", x)>>)
      <4>1. /\ Len(<<T("backend_conn_fail", x)>>) = 1
            /\ <<T("backend_conn_fail", x)>>[1].p = x
            /\ <<T("backend_conn_fail", x)>>[1].type = "backend_conn_fail"
        BY DEF T
      <4> QED
        BY <3>2, <4>1 DEF Doomed, Closing
    <3>4. Doomed(x, taskq')
      BY <2>2, <2>5, <3>2, <3>3, DoomedConcat
    <3> QED
      BY <3>4
  <2> QED
    BY <2>6, <2>7
<1>6. ASSUME NEW f \in Frontend, Connects(f)
      PROVE  IF x \in Frontend THEN req'[x] = "no" \/ Doomed(x, taskq')
             ELSE st'[x] = "new_ok" \/ Doomed(x, taskq')
  <2>1. PICK b \in Backend, r \in {"saved", "yes"}, s \in {"new_ok", "active_ok"} :
          /\ peer' = [peer EXCEPT ![f] = b, ![b] = f]
          /\ req' = [req EXCEPT ![f] = r]
          /\ st' = [st EXCEPT ![f] = "conn_ok", ![b] = s]
          /\ KeepsTasks(taskq', {})
    BY <1>6 DEF Connects
  <2>2. x \notin {f, b} /\ peer[x] = None
    BY <2>1, Types
  <2>3. st'[x] = st[x] /\ Live(x) /\ (x \in Frontend => req'[x] = req[x])
    BY <2>1, <2>2, Types DEF Live
  <2> QED
    BY <1>0, <2>1, <2>2, <2>3 DEF KeepsTasks
<1>7. ASSUME NEW f \in Frontend, Opens(f)
      PROVE  IF x \in Frontend THEN req'[x] = "no" \/ Doomed(x, taskq')
             ELSE st'[x] = "new_ok" \/ Doomed(x, taskq')
  <2>1. CASE x = f
    BY <1>7, <2>1, Types DEF Opens, FreeHasNoApp, Live, LiveState
  <2>2. CASE x # f
    BY <1>0, <1>7, <2>2, Types DEF Opens, Live
  <2> QED
    BY <2>1, <2>2
<1> QED
  BY <1>1, <1>2, <1>3, <1>4, <1>5, <1>6, <1>7 DEF SessionStep

----------------------------------------------------------------------------
(* Steps of the worker as steps of Sessions                                 *)

Staged == [h \in Conn |-> StageOf(h)]

LEMMA StartsUnserved == Init => Served!SInit
<1> SUFFICES ASSUME Init PROVE Served!SInit
  OBVIOUS
<1>1. \A h \in Conn : StageOf(h) = "none"
  BY DEF Init, StageOf, Live, LiveState
<1> QED
  BY <1>1 DEF Init, Served!SInit, Served!Connection, Conn

\* What a close of h does, seen from Sessions.
LEMMA EndsSession ==
    ASSUME IInv, FreeHasNoApp, NEW h \in Conn,
           peer' = Unlinked(h), st' = [st EXCEPT ![h] = "free"],
           req' = req \/ (h \in Frontend /\ req' = [req EXCEPT ![h] = "no"])
    PROVE  Served!End(h) \/ UNCHANGED <<Staged, peer>>
<1>0. /\ \A x \in Conn : peer[x] # None => peer[peer[x]] = x /\ peer[x] \in Conn /\ Live(x)
      /\ \A f \in Frontend : peer[f] # None => req[f] # "no"
  BY Types DEF IInv, LinkSymmetry, NoAppNoBackend
<1>1. \A x \in Conn \ {h} : /\ st'[x] = st[x] /\ (x \in Frontend => req'[x] = req[x])
                            /\ Live(x)' <=> Live(x)
  BY Types DEF Live
<1>2. ~Live(h)' /\ StageOf(h)' = "none" /\ peer'[h] = None
  BY Types DEF Live, LiveState, StageOf, Unlinked
<1>3. CASE Live(h)
  <2>1. StageOf(h) # "none"
    BY <1>3 DEF StageOf
  <2>2. \A y \in Conn : peer'[y] = IF y \in {h, peer[h]} THEN None ELSE peer[y]
    BY DEF Unlinked
  <2>3. ASSUME NEW y \in Conn, y # h, y = peer[h]
        PROVE  StageOf(y)' = "parted"
    <3>1. Live(y) /\ peer[y] = h /\ h # None
      BY <1>0, <2>3, Types
    <3>2. Live(y)' /\ peer'[y] = None
      BY <1>1, <2>2, <2>3, <3>1
    <3>3. y \in Frontend => req'[y] # "no"
      BY <1>0, <1>1, <2>3, <3>1
    <3> QED
      BY <3>2, <3>3 DEF StageOf
  <2>4. ASSUME NEW y \in Conn, y # h, y # peer[h]
        PROVE  StageOf(y)' = StageOf(y)
    BY <1>1, <2>2, <2>4 DEF StageOf
  <2>5. Staged' = [y \in Conn |-> CASE y = h -> "none"
                                   [] y # h /\ y = peer[h] -> "parted"
                                   [] OTHER -> Staged[y]]
    BY <1>2, <2>3, <2>4 DEF Staged
  <2>6. peer' = [y \in Conn |-> IF y \in {h, peer[h]} THEN None ELSE peer[y]]
    BY DEF Unlinked
  <2> QED
    BY <2>1, <2>5, <2>6 DEF Served!End, Served!Connection, Staged, Conn
<1>4. CASE ~Live(h)
  <2>1. peer[h] = None
    BY <1>0, <1>4
  <2>2. peer' = peer
    BY <2>1, Types DEF Unlinked
  <2>3. \A y \in Conn : StageOf(y)' = StageOf(y)
    BY <1>1, <1>2, <1>4, <2>2 DEF StageOf
  <2> QED
    BY <2>2, <2>3 DEF Staged
<1> QED
  BY <1>3, <1>4

LEMMA SessionStepServes ==
    ASSUME IInv, FreeHasNoApp, SessionStep
    PROVE  Served!SNext \/ UNCHANGED <<Staged, peer>>
<1>1. CASE Stays
  BY <1>1 DEF Stays, Staged, StageOf, Live
<1>2. CASE StartsAgain
  <2>1. \A h \in Conn : StageOf(h)' = "none"
    BY <1>2 DEF StartsAgain, StageOf, Live, LiveState
  <2> QED
    BY <1>2, <2>1 DEF StartsAgain, Served!SNext, Served!StartAgain, Served!Connection, Conn
<1>3. ASSUME NEW h \in Conn, Closes(h) \/ (h \in Backend /\ Fails(h))
      PROVE  Served!SNext \/ UNCHANGED <<Staged, peer>>
  <2>1. /\ peer' = Unlinked(h) /\ st' = [st EXCEPT ![h] = "free"]
        /\ req' = req \/ (h \in Frontend /\ req' = [req EXCEPT ![h] = "no"])
    BY <1>3 DEF Closes, OnClose, Fails, ConnectFail
  <2>2. Served!End(h) \/ UNCHANGED <<Staged, peer>>
    BY <2>1, EndsSession
  <2> QED
    BY <2>2 DEF Served!SNext, Served!Connection, Conn
<1>4. ASSUME NEW h \in Conn, Activates(h) PROVE UNCHANGED <<Staged, peer>>
  <2>1. /\ Live(h) /\ peer[h] # None /\ st' = [st EXCEPT ![h] = "active_ok"] /\ peer' = peer
        /\ \A x \in Conn \ {h} : x \in Frontend => req'[x] = req[x]
    BY <1>4, Types DEF Activates
  <2>2. \A x \in Conn : Live(x)' <=> Live(x)
    BY <2>1, Types DEF Live, LiveState
  <2>3. \A x \in Conn : StageOf(x)' = StageOf(x)
    BY <2>1, <2>2 DEF StageOf
  <2> QED
    BY <2>1, <2>3 DEF Staged
<1>5. ASSUME NEW f \in Frontend, Connects(f) PROVE Served!SNext
  <2>1. PICK b \in Backend, r \in {"saved", "yes"}, s \in {"new_ok", "active_ok"} :
          /\ st[f] = "free" \/ req[f] = "no"
          /\ st[b] = "free"
          /\ peer' = [peer EXCEPT ![f] = b, ![b] = f]
          /\ req' = [req EXCEPT ![f] = r]
          /\ st' = [st EXCEPT ![f] = "conn_ok", ![b] = s]
    BY <1>5 DEF Connects
  <2>2. f \in Conn /\ b \in Conn /\ f # b /\ None \notin {f, b}
    BY Types
  <2>3. StageOf(f) \in {"none", "fresh"} /\ StageOf(b) = "none"
    BY <2>1, NotLinkedYet, Types DEF StageOf, Live, LiveState
  <2>4. Live(f)' /\ Live(b)' /\ peer'[f] = b /\ peer'[b] = f
    BY <2>1, <2>2, Types DEF Live, LiveState
  <2>5. StageOf(f)' = "joined" /\ StageOf(b)' = "joined"
    BY <2>2, <2>4 DEF StageOf
  <2>6. ASSUME NEW x \in Conn \ {f, b} PROVE StageOf(x)' = StageOf(x)
    <3>1. st'[x] = st[x] /\ peer'[x] = peer[x] /\ (x \in Frontend => req'[x] = req[x])
      BY <2>1, <2>2, Types
    <3> QED
      BY <3>1 DEF StageOf, Live
  <2>7. Staged' = [Staged EXCEPT ![f] = "joined", ![b] = "joined"]
    BY <2>2, <2>5, <2>6 DEF Staged
  <2>8. Served!Join(f, b)
    BY <2>1, <2>2, <2>3, <2>7 DEF Served!Join, Staged
  <2> QED
    BY <2>8 DEF Served!SNext
<1>6. ASSUME NEW f \in Frontend, Opens(f) PROVE Served!SNext
  <2>1. /\ st[f] = "free" /\ st' = [st EXCEPT ![f] = "conn_ok"] /\ peer' = peer /\ req' = req
        /\ f \in Conn /\ peer[f] = None /\ req[f] = "no"
    BY <1>6, NotLinkedYet, Types DEF Opens, FreeHasNoApp, Live, LiveState
  <2>2. StageOf(f) = "none" /\ StageOf(f)' = "fresh"
    BY <2>1, Types DEF StageOf, Live, LiveState
  <2>3. \A x \in Conn \ {f} : StageOf(x)' = StageOf(x)
    BY <2>1, Types DEF StageOf, Live
  <2>4. Staged' = [Staged EXCEPT ![f] = "fresh"]
    BY <2>1, <2>2, <2>3 DEF Staged
  <2>5. Served!Open(f)
    BY <2>1, <2>2, <2>4 DEF Served!Open, Staged
  <2> QED
    BY <2>5 DEF Served!SNext
<1> QED
  BY <1>1, <1>2, <1>3, <1>4, <1>5, <1>6, Types DEF SessionStep

----------------------------------------------------------------------------
(* Theorems                                                                *)

LEMMA SessionInvariance == Spec => []SInv
<1>1. Init => SInv
  <2>1. ASSUME Init PROVE FreeHasNoApp /\ AllAccounted
    BY <2>1 DEF Init, FreeHasNoApp, AllAccounted, Accounted, Live, LiveState
  <2> QED
    BY <2>1, InitIInv DEF SInv
<1>2. SInv /\ [Next]_vars => SInv'
  BY NextIInv, Classified, FreeHasNoAppKept, AllAccountedKept DEF SInv
<1> QED
  BY <1>1, <1>2, PTL DEF Spec

\* A connection that lost its peer always has a task in the queue that will close it, or is
\* a connect that closes itself when it ends (http_frontend::on_close, backend::on_close,
\* backend::on_frontend_close): no order of events leaves one behind.
THEOREM NobodyLeftBehind == Spec => []NoOrphan
<1>1. SInv => NoOrphan
  <2> SUFFICES ASSUME SInv, NEW h \in Conn, Live(h), peer[h] = None
               PROVE  IF h \in Frontend
                      THEN req[h] = "no" \/ \E i \in 1..Len(taskq) :
                              /\ taskq[i].p = h
                              /\ taskq[i].type \in {"backend_close", "backend_conn_fail"}
                      ELSE st[h] = "new_ok" \/ \E i \in 1..Len(taskq) :
                              taskq[i] = T("frontend_close", h)
    BY DEF NoOrphan
  <2>1. IF h \in Frontend THEN req[h] = "no" \/ Doomed(h, taskq)
        ELSE st[h] = "new_ok" \/ Doomed(h, taskq)
    BY DEF SInv, AllAccounted, Accounted
  <2>2. CASE h \in Frontend
    BY <2>1, <2>2 DEF Doomed, Closing
  <2>3. CASE h \notin Frontend
    <3>1. ASSUME NEW i \in 1..Len(taskq), taskq[i].p = h, taskq[i].type \in Closing(h)
          PROVE  taskq[i] = T("frontend_close", h)
      <4>1. taskq[i] \in Task
        BY Types DEF SInv
      <4>2. taskq[i].type = "frontend_close"
        BY <2>3, <3>1 DEF Closing
      <4> QED
        BY <3>1, <4>1, <4>2 DEF Task, T
    <3> QED
      BY <2>1, <2>3, <3>1 DEF Doomed
  <2> QED
    BY <2>2, <2>3
<1> QED
  BY <1>1, SessionInvariance, PTL

\* The worker implements Sessions: a client never gets a second backend, a backend never
\* a second client, and a connection whose peer closed can only close.
THEOREM ServesOneBackendPerClient == Spec => OneBackendPerClient
<1>1. SInv /\ [Next]_vars => [Served!SNext]_(Served!svars)
  BY Classified, SessionStepServes DEF SInv, Served!svars, Staged
<1> QED
  BY <1>1, StartsUnserved, SessionInvariance, PTL DEF Spec, OneBackendPerClient, Served!SSpec

----------------------------------------------------------------------------
(* The poller never dispatches to a handler that is gone, has another       *)
(* descriptor or is in another stage of its life                           *)

\* No descriptor has two owners.
FdsApart == \A x, y \in Conn : fd[x] # None /\ fd[x] = fd[y] => x = y

\* Only a connected handler that serves an app pauses.
PausedServes ==
    \A h \in Conn : io[h].paused =>
        st[h] \notin {"free", "new_ok"} /\ (h \in Frontend => req[h] = "yes")

\* A registered frontend reads its first request only, or is past it: one whose request
\* is saved is out of the poller until its backend is connected.
SavedIsAway ==
    \A n \in Fd, f \in Frontend : pd[n].eh = f =>
        req[f] = "yes" \/ (req[f] = "no" /\ pd[n].ev \subseteq {"r"})

PInv == PollerOwnsLive /\ FdsApart /\ PausedServes /\ SavedIsAway

----------------------------------------------------------------------------
(* Tables that come from pd by the poller's calls                           *)

\* p has no registration that pd has not, and new interests only of handlers
\* that have an app.
Subtable(p) ==
    /\ p \in [Fd -> PdState]
    /\ \A n \in Fd : p[n].eh # None =>
         /\ p[n].eh = pd[n].eh /\ p[n].kind = pd[n].kind
         /\ p[n].ev \subseteq pd[n].ev \/ (p[n].eh \in Frontend => req[p[n].eh] # "no")

Unpolled(p, h) == \A n \in Fd : p[n].eh # h

LEMMA MoreTypes ==
    ASSUME IInv
    PROVE  /\ pd \in [Fd -> PdState] /\ fd \in [Conn -> Fd \cup {None}]
           /\ io \in [Conn -> IoState] /\ None \notin Fd
BY IInvParts, ConstantsAssumption DEF HInv, HandlerTypes, PollerTypes

LEMMA SubtableSelf == IInv => Subtable(pd)
BY MoreTypes DEF Subtable

\* Removing keeps a table below pd.
LEMMA SubtableRemove ==
    ASSUME NEW p, Subtable(p), NEW n, NEW e \in {"r", "w"}
    PROVE  Subtable(RemoveAll(p, n)) /\ Subtable(RemoveEv(p, n, e))
<1>1. p \in [Fd -> PdState]
  BY DEF Subtable
<1>2. RemoveAll(p, n) \in [Fd -> PdState] /\ RemoveEv(p, n, e) \in [Fd -> PdState]
  BY <1>1, PdTypes
<1>3. \A m \in Fd : RemoveAll(p, n)[m] = IF m = n THEN NoPd ELSE p[m]
  BY <1>1 DEF RemoveAll
<1>4. Subtable(RemoveAll(p, n))
  BY <1>2, <1>3 DEF Subtable, NoPd
<1>5. CASE RemoveEv(p, n, e) = RemoveAll(p, n)
  BY <1>4, <1>5
<1>6. CASE RemoveEv(p, n, e) = [p EXCEPT ![n].ev = @ \ {e}]
  <2>1. \A m \in Fd : /\ RemoveEv(p, n, e)[m].eh = p[m].eh
                      /\ RemoveEv(p, n, e)[m].kind = p[m].kind
                      /\ RemoveEv(p, n, e)[m].ev \subseteq p[m].ev
    BY <1>1, <1>6 DEF PdState
  <2>2. Subtable(RemoveEv(p, n, e))
    BY <1>2, <2>1 DEF Subtable
  <2> QED
    BY <1>4, <2>2
<1>7. \/ RemoveEv(p, n, e) = RemoveAll(p, n)
      \/ RemoveEv(p, n, e) = [p EXCEPT ![n].ev = @ \ {e}]
  BY DEF RemoveEv
<1> QED
  BY <1>4, <1>5, <1>6, <1>7, Zenon

\* A removed descriptor leaves its owner out of the table.
LEMMA RemovedUnpolled ==
    ASSUME IInv, PInv, NEW h \in Conn, NEW p, Subtable(p)
    PROVE  Unpolled(RemoveAll(p, fd[h]), h)
<1>1. SUFFICES ASSUME NEW n \in Fd, RemoveAll(p, fd[h])[n].eh = h PROVE FALSE
  BY DEF Unpolled
<1>2. h # None /\ p \in [Fd -> PdState]
  BY Types DEF Subtable
<1>3. n # fd[h] /\ p[n].eh = h
  BY <1>1, <1>2 DEF RemoveAll, NoPd
<1>4. pd[n].eh = h
  BY <1>2, <1>3 DEF Subtable
<1> QED
  BY <1>2, <1>3, <1>4 DEF PInv, PollerOwnsLive, Registered

\* Asking for write interest of a handler that has a peer.
LEMMA SubtableAppend ==
    ASSUME IInv, PInv, NEW g \in Conn, peer[g] # None
    PROVE  Subtable(AppendEv(pd, fd[g], "w"))
<1>1. CASE AppendEv(pd, fd[g], "w") = pd
  BY <1>1, SubtableSelf
<1>2. CASE AppendEv(pd, fd[g], "w") = [pd EXCEPT ![fd[g]].ev = @ \cup {"w"}]
  <2> DEFINE p == AppendEv(pd, fd[g], "w")
  <2>1. p \in [Fd -> PdState]
    BY MoreTypes, PdTypes
  <2>2. \A n \in Fd : /\ p[n].eh = pd[n].eh /\ p[n].kind = pd[n].kind
                      /\ n # fd[g] => p[n].ev = pd[n].ev
    BY <1>2, MoreTypes DEF PdState
  <2>3. ASSUME NEW n \in Fd, n = fd[g], pd[n].eh # None, pd[n].eh \in Frontend
        PROVE  req[pd[n].eh] # "no"
    <3>1. fd[pd[n].eh] = n
      BY <2>3 DEF PInv, PollerOwnsLive, Registered
    <3>2. pd[n].eh = g
      BY <2>3, <3>1, Types, MoreTypes DEF PInv, FdsApart
    <3> QED
      BY <2>3, <3>2 DEF IInv, NoAppNoBackend
  <2> HIDE DEF p
  <2>4. Subtable(p)
    BY <2>1, <2>2, <2>3, Zenon DEF Subtable
  <2> QED
    BY <2>4 DEF p
<1> QED
  BY <1>1, <1>2 DEF AppendEv

\* Forwarding pauses nobody but the one who forwards, and only if it has a peer.
LEMMA ForwardPolls ==
    ASSUME IInv, PInv, NEW h \in Conn, NEW r \in Forward(h)
    PROVE  /\ Subtable(r[2])
           /\ \A x \in Conn : r[1][x].paused => io[x].paused \/ x = h
<1>1. CASE peer[h] = None
  BY <1>1, SubtableSelf DEF Forward
<1>2. CASE peer[h] # None
  <2> DEFINE g == peer[h]
  <2>1. g \in Conn /\ peer[g] # None
    BY <1>2, Types DEF IInv, LinkSymmetry
  <2>2. PICK new \in SendIo(g) :
          r = IF new.buf = "data"
              THEN <<[io EXCEPT ![g] = new, ![h] = PauseIo(h)],
                     PausePd(h, SendPd(g, new, pd))>>
              ELSE <<[io EXCEPT ![g] = new], SendPd(g, new, pd)>>
    BY <1>2 DEF Forward
  <2>3. Subtable(SendPd(g, new, pd))
    BY <2>1, SubtableSelf, SubtableAppend DEF SendPd
  <2>4. Subtable(PausePd(h, SendPd(g, new, pd)))
    BY <2>3, SubtableRemove DEF PausePd
  <2>5. new.paused = io[g].paused
    <3>1. io[g] \in IoState
      BY <2>1, MoreTypes
    <3> QED
      BY <2>2, <3>1 DEF SendIo, IoState
  <2>6. CASE new.buf = "data"
    <3>1. r[1] = [io EXCEPT ![g] = new, ![h] = PauseIo(h)] /\ Subtable(r[2])
      BY <2>2, <2>4, <2>6
    <3> QED
      BY <2>1, <2>5, <3>1, MoreTypes
  <2>7. CASE new.buf # "data"
    <3>1. r[1] = [io EXCEPT ![g] = new] /\ Subtable(r[2])
      BY <2>2, <2>3, <2>7
    <3> QED
      BY <2>1, <2>5, <3>1, MoreTypes
  <2> QED
    BY <2>6, <2>7
<1> QED
  BY <1>1, <1>2

----------------------------------------------------------------------------
(* What the kinds of steps do to the invariant                              *)

\* Steps that change no life, descriptor or app: what pauses serves.
LEMMA PollerOnly ==
    ASSUME IInv, PInv, UNCHANGED <<st, fd, req>>, Subtable(pd'),
           \A x \in Conn : io'[x].paused =>
               \/ io[x].paused
               \/ st[x] \notin {"free", "new_ok"} /\ (x \in Frontend => req[x] = "yes")
    PROVE  PInv'
<1>1. PollerOwnsLive'
  BY DEF PInv, PollerOwnsLive, Registered, Subtable, Live
<1>2. FdsApart'
  BY DEF PInv, FdsApart
<1>3. PausedServes'
  BY DEF PInv, PausedServes
<1>4. SavedIsAway'
  <2> SUFFICES ASSUME NEW n \in Fd, NEW f \in Frontend, pd'[n].eh = f
               PROVE  req[f] = "yes" \/ (req[f] = "no" /\ pd'[n].ev \subseteq {"r"})
    BY DEF SavedIsAway
  <2>1. f # None /\ pd[n].eh = f
    BY Types DEF Subtable
  <2>2. pd'[n].ev \subseteq pd[n].ev \/ req[f] # "no"
    BY <2>1 DEF Subtable
  <2> QED
    BY <2>1, <2>2 DEF PInv, SavedIsAway
<1> QED
  BY <1>1, <1>2, <1>3, <1>4 DEF PInv

\* Nobody but h is paused in s who was not.
PausesBut(s, h) == s \in [Conn -> IoState] /\ \A x \in Conn \ {h} : s[x].paused => io[x].paused

LEMMA SamePauses == IInv => \A h : PausesBut(io, h)
BY MoreTypes DEF PausesBut

\* A handler that is out of the poller is deleted.
LEMMA Freed ==
    ASSUME IInv, PInv, NEW h \in Conn, NEW p, Subtable(p), Unpolled(p, h), pd' = p,
           st' = [st EXCEPT ![h] = "free"], fd' = [fd EXCEPT ![h] = None],
           NEW s, PausesBut(s, h), io' = [s EXCEPT ![h] = FreshIo],
           req' = req \/ (h \in Frontend /\ req' = [req EXCEPT ![h] = "no"])
    PROVE  PInv'
<1>0. /\ \A x \in Conn \ {h} : st'[x] = st[x] /\ fd'[x] = fd[x] /\ (io'[x].paused => io[x].paused)
                               /\ (x \in Frontend => req'[x] = req[x])
      /\ st'[h] = "free" /\ fd'[h] = None /\ ~io'[h].paused
  BY Types, MoreTypes DEF FreshIo, PausesBut
<1>1. PollerOwnsLive'
  <2> SUFFICES ASSUME NEW n \in Fd, pd'[n].eh # None
               PROVE  /\ Live(pd[n].eh)' /\ fd'[pd'[n].eh] = n
                      /\ pd'[n].kind = "connect" <=> st'[pd'[n].eh] = "new_ok"
    BY DEF PollerOwnsLive, Registered
  <2>1. pd'[n].eh = pd[n].eh /\ pd'[n].kind = pd[n].kind /\ pd[n].eh # h /\ pd[n].eh \in Conn
    BY MoreTypes DEF Subtable, Unpolled, PdState
  <2> QED
    BY <1>0, <2>1 DEF PInv, PollerOwnsLive, Registered, Live
<1>2. FdsApart'
  BY <1>0 DEF PInv, FdsApart
<1>3. PausedServes'
  BY <1>0 DEF PInv, PausedServes
<1>4. SavedIsAway'
  <2> SUFFICES ASSUME NEW n \in Fd, NEW f \in Frontend, pd'[n].eh = f
               PROVE  req'[f] = "yes" \/ (req'[f] = "no" /\ pd'[n].ev \subseteq {"r"})
    BY DEF SavedIsAway
  <2>1. f # None /\ f # h /\ pd[n].eh = f /\ f \in Conn
    BY Types DEF Subtable, Unpolled
  <2>2. pd'[n].ev \subseteq pd[n].ev \/ req[f] # "no"
    BY <2>1 DEF Subtable
  <2> QED
    BY <1>0, <2>1, <2>2 DEF PInv, SavedIsAway
<1> QED
  BY <1>1, <1>2, <1>3, <1>4 DEF PInv

\* Forwarding pauses nobody else, and so does not forwarding.
LEMMA ForwardPauses ==
    ASSUME IInv, PInv, NEW h \in Conn, NEW r \in Forward(h) \cup {<<io, pd>>}
    PROVE  PausesBut(r[1], h)
<1>1. CASE r \in Forward(h)
  <2>1. r[1] \in [Conn -> IoState]
    BY <1>1, ForwardType DEF IInv
  <2> QED
    BY <1>1, <2>1, ForwardPolls DEF PausesBut
<1>2. CASE r = <<io, pd>>
  BY <1>2, SamePauses
<1> QED
  BY <1>1, <1>2

\* A close removes the descriptor first.
LEMMA ClosePolls ==
    ASSUME IInv, PInv, NEW h \in Conn, NEW q, NEW p, Subtable(p), NEW s, PausesBut(s, h),
           OnClose(h, q, RemoveAll(p, fd[h]), s)
    PROVE  PInv'
<1>1. Subtable(RemoveAll(p, fd[h])) /\ Unpolled(RemoveAll(p, fd[h]), h)
  BY SubtableRemove, RemovedUnpolled
<1> QED
  BY <1>1, Freed DEF OnClose

LEMMA ConnectFailPolls ==
    ASSUME IInv, PInv, NEW b \in Backend, NEW q, ConnectFail(b, q)
    PROVE  PInv'
<1>1. b \in Conn /\ Subtable(RemoveAll(pd, fd[b])) /\ Unpolled(RemoveAll(pd, fd[b]), b)
  BY Types, SubtableSelf, SubtableRemove, RemovedUnpolled
<1> QED
  BY <1>1, SamePauses, Freed DEF ConnectFail

\* h is registered, for reading, in a state that is no connect's.
LEMMA Registers ==
    ASSUME IInv, PInv, NEW h \in Conn, NEW s \in {"conn_ok", "active_ok"},
           NEW p, Subtable(p), pd' = AddEv(p, fd[h], h, "io", {"r"}),
           UNCHANGED fd, st' = [st EXCEPT ![h] = s],
           \A f \in Frontend : req'[f] = req[f] \/ (f = h /\ req'[f] = "yes"),
           h \in Frontend => req'[h] = "yes",
           \A x \in Conn : io'[x].paused => io[x].paused \/ x = h
    PROVE  PInv'
<1>0. /\ st'[h] = s /\ \A x \in Conn \ {h} : st'[x] = st[x]
      /\ \A n \in Fd : pd'[n] = IF n = fd[h] THEN [eh |-> h, kind |-> "io", ev |-> {"r"}]
                               ELSE p[n]
      /\ h # None
  BY Types DEF AddEv, Subtable
<1>1. ASSUME NEW n \in Fd, pd'[n].eh # None, n # fd[h]
      PROVE  /\ pd'[n].eh = pd[n].eh /\ pd'[n].kind = pd[n].kind
             /\ pd[n].eh \in Conn \ {h} /\ fd[pd[n].eh] = n
             /\ pd'[n].ev \subseteq pd[n].ev \/ (pd[n].eh \in Frontend => req[pd[n].eh] # "no")
  <2>1. /\ pd'[n].eh = pd[n].eh /\ pd'[n].kind = pd[n].kind
        /\ pd'[n].ev \subseteq pd[n].ev \/ (pd[n].eh \in Frontend => req[pd[n].eh] # "no")
    BY <1>0, <1>1 DEF Subtable
  <2>2. pd[n].eh \in Conn /\ fd[pd[n].eh] = n
    BY <1>1, <2>1, MoreTypes DEF PInv, PollerOwnsLive, Registered, PdState
  <2> QED
    BY <1>1, <2>1, <2>2
<1>2. PollerOwnsLive'
  <2> SUFFICES ASSUME NEW n \in Fd, pd'[n].eh # None
               PROVE  /\ Live(pd[n].eh)' /\ fd'[pd'[n].eh] = n
                      /\ pd'[n].kind = "connect" <=> st'[pd'[n].eh] = "new_ok"
    BY DEF PollerOwnsLive, Registered
  <2>1. CASE n = fd[h]
    BY <1>0, <2>1 DEF Live, LiveState
  <2>2. CASE n # fd[h]
    BY <1>0, <1>1, <2>2 DEF PInv, PollerOwnsLive, Registered, Live
  <2> QED
    BY <2>1, <2>2
<1>3. FdsApart'
  BY DEF PInv, FdsApart
<1>4. PausedServes'
  <2> SUFFICES ASSUME NEW x \in Conn, io'[x].paused
               PROVE  st'[x] \notin {"free", "new_ok"} /\ (x \in Frontend => req'[x] = "yes")
    BY DEF PausedServes
  <2> QED
    BY <1>0 DEF PInv, PausedServes
<1>5. SavedIsAway'
  <2> SUFFICES ASSUME NEW n \in Fd, NEW f \in Frontend, pd'[n].eh = f
               PROVE  req'[f] = "yes" \/ (req'[f] = "no" /\ pd'[n].ev \subseteq {"r"})
    BY DEF SavedIsAway
  <2>1. CASE n = fd[h]
    BY <1>0, <2>1
  <2>2. CASE n # fd[h]
    <3>1. f # None /\ pd[n].eh = f /\ f # h
          /\ (pd'[n].ev \subseteq pd[n].ev \/ req[f] # "no")
      BY <1>1, <2>2, Types
    <3> QED
      BY <3>1 DEF PInv, SavedIsAway
  <2> QED
    BY <2>1, <2>2
<1> QED
  BY <1>2, <1>3, <1>4, <1>5 DEF PInv

\* A frontend out of the poller gets its backend, registered for its connect or, connected
\* at once, for reading.
LEMMA ToConnectBackendPolls ==
    ASSUME IInv, PInv, NEW f \in Frontend, NEW n \in Fd \cup {None},
           NEW r \in {"saved", "yes"}, NEW q, NEW p, Subtable(p), Unpolled(p, f),
           n = fd[f] \/ n \in FreeFds, st[f] = "free" \/ req[f] = "no",
           ToConnectBackend(f, n, r, q, p)
    PROVE  PInv'
<1>1. PICK b \in Backend, m \in FreeFds \ {n} :
        /\ st[b] = "free"
        /\ fd' = [fd EXCEPT ![f] = n, ![b] = m]
        /\ req' = [req EXCEPT ![f] = r]
        /\ Connecting(f, b, m, q, p) \/ Connected(f, b, m, q, p)
        /\ io' = io
  BY DEF ToConnectBackend
<1>2. /\ f \in Conn /\ b \in Conn /\ f # b /\ f # None /\ b # None /\ b \notin Frontend
      /\ m \in Fd /\ m # n /\ \A x \in Conn : fd[x] # m
  BY <1>1, Types DEF FreeFds
<1>3. PICK s \in {"new_ok", "active_ok"}, k \in {"io", "connect"}, e \in SUBSET {"r", "w"} :
        /\ st' = [st EXCEPT ![f] = "conn_ok", ![b] = s]
        /\ pd' = AddEv(p, m, b, k, e)
        /\ k = "connect" <=> s = "new_ok"
  BY <1>1 DEF Connecting, Connected
<1>4. /\ st'[f] = "conn_ok" /\ st'[b] = s /\ fd'[f] = n /\ fd'[b] = m /\ req'[f] = r
      /\ \A x \in Conn \ {f, b} : /\ st'[x] = st[x] /\ fd'[x] = fd[x]
                                 /\ (x \in Frontend => req'[x] = req[x])
      /\ \A i \in Fd : pd'[i] = IF i = m THEN [eh |-> b, kind |-> k, ev |-> e] ELSE p[i]
  BY <1>1, <1>2, <1>3, Types, MoreTypes DEF AddEv, Subtable
<1>5. ASSUME NEW i \in Fd, pd'[i].eh # None, i # m
      PROVE  /\ pd'[i].eh = pd[i].eh /\ pd'[i].kind = pd[i].kind
             /\ pd[i].eh \in Conn \ {f, b} /\ fd[pd[i].eh] = i /\ Live(pd[i].eh)
             /\ (pd[i].kind = "connect" <=> st[pd[i].eh] = "new_ok")
             /\ pd'[i].ev \subseteq pd[i].ev \/ (pd[i].eh \in Frontend => req[pd[i].eh] # "no")
  <2>1. /\ pd'[i].eh = pd[i].eh /\ pd'[i].kind = pd[i].kind /\ pd[i].eh # f
        /\ pd'[i].ev \subseteq pd[i].ev \/ (pd[i].eh \in Frontend => req[pd[i].eh] # "no")
    BY <1>4, <1>5 DEF Subtable, Unpolled
  <2>2. /\ pd[i].eh \in Conn /\ fd[pd[i].eh] = i /\ Live(pd[i].eh)
        /\ (pd[i].kind = "connect" <=> st[pd[i].eh] = "new_ok")
    BY <1>5, <2>1, MoreTypes DEF PInv, PollerOwnsLive, Registered, PdState
  <2>3. pd[i].eh # b
    BY <1>1, <2>2 DEF Live, LiveState
  <2> QED
    BY <2>1, <2>2, <2>3
<1>6. PollerOwnsLive'
  <2> SUFFICES ASSUME NEW i \in Fd, pd'[i].eh # None
               PROVE  /\ Live(pd[i].eh)' /\ fd'[pd'[i].eh] = i
                      /\ pd'[i].kind = "connect" <=> st'[pd'[i].eh] = "new_ok"
    BY DEF PollerOwnsLive, Registered
  <2>1. CASE i = m
    BY <1>3, <1>4, <2>1 DEF Live, LiveState
  <2>2. CASE i # m
    BY <1>4, <1>5, <2>2 DEF Live
  <2> QED
    BY <2>1, <2>2
<1>7. FdsApart'
  <2> SUFFICES ASSUME NEW x \in Conn, NEW y \in Conn, fd'[x] # None, fd'[x] = fd'[y]
               PROVE  x = y
    BY DEF FdsApart
  <2>1. \A z \in Conn : fd[z] = n /\ n # None => z = f
    BY <1>2, Types DEF PInv, FdsApart, FreeFds
  <2> QED
    BY <1>2, <1>4, <2>1 DEF PInv, FdsApart
<1>8. PausedServes'
  <2> SUFFICES ASSUME NEW x \in Conn, io[x].paused
               PROVE  st'[x] \notin {"free", "new_ok"} /\ (x \in Frontend => req'[x] = "yes")
    BY <1>1 DEF PausedServes
  <2>1. x \notin {f, b}
    BY <1>1, <1>2 DEF PInv, PausedServes
  <2> QED
    BY <1>4, <2>1 DEF PInv, PausedServes
<1>9. SavedIsAway'
  <2> SUFFICES ASSUME NEW i \in Fd, NEW g \in Frontend, pd'[i].eh = g
               PROVE  req'[g] = "yes" \/ (req'[g] = "no" /\ pd'[i].ev \subseteq {"r"})
    BY DEF SavedIsAway
  <2>1. i # m /\ g # None /\ g \in Conn
    BY <1>2, <1>4, Types
  <2>2. /\ pd[i].eh = g /\ g # f /\ g # b
        /\ pd'[i].ev \subseteq pd[i].ev \/ req[g] # "no"
    BY <1>5, <2>1
  <2>3. req'[g] = req[g]
    BY <1>4, <2>1, <2>2
  <2> QED
    BY <2>2, <2>3 DEF PInv, SavedIsAway
<1> QED
  BY <1>6, <1>7, <1>8, <1>9 DEF PInv

\* A new frontend waits for its first request.
LEMMA AcceptPolls ==
    ASSUME IInv, PInv, FreeHasNoApp, NEW f \in Frontend, NEW n \in FreeFds, st[f] = "free",
           st' = [st EXCEPT ![f] = "conn_ok"], fd' = [fd EXCEPT ![f] = n],
           pd' = AddEv(pd, n, f, "io", {"r"}), UNCHANGED <<io, req>>
    PROVE  PInv'
<1>1. /\ f \in Conn /\ f # None /\ req[f] = "no" /\ n \in Fd /\ n # None
      /\ \A x \in Conn : fd[x] # n
  BY Types, MoreTypes DEF FreeHasNoApp, Live, LiveState, FreeFds
<1>2. /\ st'[f] = "conn_ok" /\ fd'[f] = n
      /\ \A x \in Conn \ {f} : st'[x] = st[x] /\ fd'[x] = fd[x]
      /\ \A i \in Fd : pd'[i] = IF i = n THEN [eh |-> f, kind |-> "io", ev |-> {"r"}] ELSE pd[i]
  BY <1>1, Types, MoreTypes DEF AddEv
<1>3. \A i \in Fd : pd[i].eh # None => pd[i].eh \in Conn \ {f}
  BY MoreTypes DEF PInv, PollerOwnsLive, Registered, Live, LiveState, PdState
<1>4. PollerOwnsLive'
  <2> SUFFICES ASSUME NEW i \in Fd, pd'[i].eh # None
               PROVE  /\ Live(pd[i].eh)' /\ fd'[pd'[i].eh] = i
                      /\ pd'[i].kind = "connect" <=> st'[pd'[i].eh] = "new_ok"
    BY DEF PollerOwnsLive, Registered
  <2>1. CASE i = n
    BY <1>2, <2>1 DEF Live, LiveState
  <2>2. CASE i # n
    BY <1>2, <1>3, <2>2 DEF PInv, PollerOwnsLive, Registered, Live
  <2> QED
    BY <2>1, <2>2
<1>5. FdsApart'
  BY <1>1, <1>2 DEF PInv, FdsApart
<1>6. PausedServes'
  BY <1>2 DEF PInv, PausedServes
<1>7. SavedIsAway'
  BY <1>1, <1>2 DEF PInv, SavedIsAway
<1> QED
  BY <1>4, <1>5, <1>6, <1>7 DEF PInv

----------------------------------------------------------------------------
(* Every step of the worker keeps the poller's invariant                    *)

\* Who an event is dispatched to: the poller names the owner of the descriptor.
LEMMA Dispatch ==
    ASSUME IInv, PInv, NEW h \in Conn, NEW k, NEW e, Handling(h, k, e)
    PROVE  /\ cur.fd \in Fd /\ cur.fd = fd[h] /\ pd[fd[h]].eh = h
           /\ Live(h) /\ st[h] # "free"
           /\ k = "io" => st[h] # "new_ok"
BY Types DEF Handling, IoEvent, PInv, PollerOwnsLive, Registered, Live, LiveState

\* Steps of the loop, and steps that only push or drop tasks.
LEMMA LoopPolls ==
    ASSUME IInv, PInv,
           \/ EpollWait \/ NextEvent \/ LoopTop \/ Restart \/ SkipEvent \/ AcceptDone
           \/ TimerDone \/ StaleTask \/ UNCHANGED vars
           \/ \E f \in Frontend : FrontendInactive(f)
           \/ DropTask
    PROVE  PInv'
<1>1. CASE Restart
  <2>1. /\ st' = [h \in Conn |-> "free"] /\ fd' = [h \in Conn |-> None]
        /\ io' = [h \in Conn |-> FreshIo] /\ pd' = [n \in Fd |-> NoPd]
    BY <1>1 DEF Restart
  <2> QED
    BY <2>1, Types DEF PInv, PollerOwnsLive, FdsApart, PausedServes, SavedIsAway, Registered,
                       NoPd, FreshIo
<1>2. CASE ~Restart
  <2>1. UNCHANGED <<st, fd, io, req, pd>>
    BY <1>2 DEF EpollWait, NextEvent, LoopTop, SkipEvent, AcceptDone, TimerDone, StaleTask,
                DropTask, Crash, FrontendInactive, vars, handlers
  <2> QED
    BY <2>1, PollerOnly, SubtableSelf
<1> QED
  BY <1>1, <1>2

LEMMA IoEventPolls ==
    ASSUME IInv, PInv, NEW h \in Conn, Events(h)
    PROVE  PInv'
<1>1. CASE OnError(h) \/ OnReadClose(h)
  BY <1>1, ClosePolls, SubtableSelf, SamePauses DEF OnError, OnReadClose, Close
<1>2. CASE OnReadNothing(h)
  <2>1. UNCHANGED <<st, fd, io, req, pd>>
    BY <1>2 DEF OnReadNothing, handlers
  <2> QED
    BY <2>1, PollerOnly, SubtableSelf
<1>3. CASE OnReadForward(h)
  <2>1. PICK r \in Forward(h) : io' = r[1] /\ pd' = r[2]
    BY <1>3 DEF OnReadForward
  <2>2. st[h] \notin {"free", "new_ok"} /\ (h \in Frontend => req[h] = "yes")
    BY <1>3, Dispatch DEF OnReadForward
  <2>3. UNCHANGED <<st, fd, req>>
    BY <1>3 DEF OnReadForward
  <2> QED
    BY <2>1, <2>2, <2>3, ForwardPolls, PollerOnly
<1>4. CASE OnWrite(h)
  <2>1. /\ UNCHANGED <<st, fd, req>>
        /\ pd' = pd \/ pd' = RemoveEv(pd, fd[h], "w")
        /\ io' = io \/ io' = [io EXCEPT ![h].buf = "empty", ![h].polling = FALSE]
    <3>1. CASE Crash
      BY <3>1 DEF Crash, handlers
    <3>2. CASE ~Crash
      BY <1>4, <3>2 DEF OnWrite
    <3> QED
      BY <3>1, <3>2
  <2>2. Subtable(pd')
    BY <2>1, SubtableSelf, SubtableRemove
  <2>3. \A x \in Conn : io'[x].paused => io[x].paused
    BY <2>1, MoreTypes DEF IoState
  <2> QED
    BY <2>1, <2>2, <2>3, PollerOnly
<1> QED
  BY <1>1, <1>2, <1>3, <1>4 DEF Events

LEMMA ConnectEventPolls ==
    ASSUME IInv, PInv, NEW b \in Backend, OnConnectOk(b) \/ OnConnectFail(b) \/ ConnectTimeout(b)
    PROVE  PInv'
<1>0. b \in Conn /\ b \notin Frontend
  BY Types
<1>1. CASE OnConnectFail(b) \/ ConnectTimeout(b)
  BY <1>1, ConnectFailPolls DEF OnConnectFail, ConnectTimeout
<1>2. CASE OnConnectOk(b)
  <2>1. \/ /\ st' = [st EXCEPT ![b] = "active_ok"]
           /\ pd' = AddEv(RemoveAll(pd, fd[b]), fd[b], b, "io", {"r"})
           /\ UNCHANGED <<fd, io, req>>
        \/ \E q : OnClose(b, q, RemoveAll(pd, fd[b]), io)
    BY <1>2 DEF OnConnectOk
  <2>2. CASE \E q : OnClose(b, q, RemoveAll(pd, fd[b]), io)
    BY <1>0, <2>2, ClosePolls, SubtableSelf, SamePauses
  <2>3. CASE /\ st' = [st EXCEPT ![b] = "active_ok"]
             /\ pd' = AddEv(RemoveAll(pd, fd[b]), fd[b], b, "io", {"r"})
             /\ UNCHANGED <<fd, io, req>>
    <3>1. Subtable(RemoveAll(pd, fd[b]))
      BY SubtableSelf, SubtableRemove
    <3> QED
      BY <1>0, <2>3, <3>1, Registers
  <2> QED
    BY <2>1, <2>2, <2>3
<1> QED
  BY <1>1, <1>2

LEMMA FrontendEventPolls ==
    ASSUME IInv, PInv, FreeHasNoApp, NEW f \in Frontend,
           Accept(f) \/ OnReadMatch(f) \/ OnReadForwardThenClose(f)
    PROVE  PInv'
<1>0. f \in Conn
  BY Types
<1>1. CASE Accept(f)
  <2>1. st[f] = "free"
    BY <1>1 DEF Accept
  <2>2. Unpolled(pd, f)
    BY <2>1, Types DEF Unpolled, PInv, PollerOwnsLive, Registered, Live, LiveState
  <2>3. PICK n \in FreeFds :
          \/ ToConnectBackend(f, n, "yes", taskq, pd)
          \/ /\ st' = [st EXCEPT ![f] = "conn_ok"]
             /\ fd' = [fd EXCEPT ![f] = n]
             /\ pd' = AddEv(pd, n, f, "io", {"r"})
             /\ UNCHANGED <<io, req>>
          \/ UNCHANGED <<st, fd, io, req, pd>>
    BY <1>1 DEF Accept, handlers
  <2>4. n \in Fd
    BY DEF FreeFds
  <2>5. CASE ToConnectBackend(f, n, "yes", taskq, pd)
    BY <2>1, <2>2, <2>4, <2>5, SubtableSelf, ToConnectBackendPolls
  <2>6. CASE /\ st' = [st EXCEPT ![f] = "conn_ok"]
             /\ fd' = [fd EXCEPT ![f] = n]
             /\ pd' = AddEv(pd, n, f, "io", {"r"})
             /\ UNCHANGED <<io, req>>
    BY <2>1, <2>6, AcceptPolls
  <2>7. CASE UNCHANGED <<st, fd, io, req, pd>>
    BY <2>7, PollerOnly, SubtableSelf
  <2> QED
    BY <2>3, <2>5, <2>6, <2>7
<1>2. CASE OnReadMatch(f)
  <2> DEFINE p == RemoveEv(pd, fd[f], "r")
  <2>1. req[f] = "no" /\ fd[f] \in Fd /\ pd[fd[f]].eh = f /\ f # None
    BY <1>0, <1>2, Dispatch, Types DEF OnReadMatch
  <2>2. pd[fd[f]].ev \subseteq {"r"}
    BY <2>1 DEF PInv, SavedIsAway
  <2>3. p = RemoveAll(pd, fd[f])
    BY <2>1, <2>2 DEF RemoveEv
  <2>4. Subtable(p) /\ Unpolled(p, f)
    BY <1>0, <2>3, SubtableSelf, SubtableRemove, RemovedUnpolled
  <2> HIDE DEF p
  <2>5. CASE ToConnectBackend(f, fd[f], "saved", taskq, p)
    BY <2>1, <2>4, <2>5, ToConnectBackendPolls
  <2>6. CASE \E s \in FailedConnectTasks(f) : Close(f, taskq \o s)
    BY <1>0, <2>6, ClosePolls, SubtableSelf, SamePauses DEF Close
  <2> QED
    BY <1>2, <2>5, <2>6 DEF OnReadMatch, p
<1>3. CASE OnReadForwardThenClose(f)
  <2>1. PICK r \in Forward(f) :
          UNCHANGED <<st, fd, io, req, pd>> \/ OnClose(f, taskq, RemoveAll(r[2], fd[f]), r[1])
    BY <1>3 DEF OnReadForwardThenClose, Crash, handlers
  <2>2. Subtable(r[2]) /\ PausesBut(r[1], f)
    BY <1>0, <2>1, ForwardPolls, ForwardPauses
  <2> QED
    BY <1>0, <2>1, <2>2, ClosePolls, PollerOnly, SubtableSelf
<1> QED
  BY <1>1, <1>2, <1>3

\* on_backend_connect_ok may close a frontend whose request is saved without removing it:
\* such a frontend is out of the poller.
LEMMA TaskPolls ==
    ASSUME IInv, PInv,
           \/ \E h \in Conn : TaskDrained(h)
           \/ \E f \in Frontend : TaskClosesFrontend(f) \/ TaskConnOk(f)
           \/ \E b \in Backend : TaskFrontendClose(b)
    PROVE  PInv'
<1>1. ASSUME DropTask PROVE PInv'
  BY <1>1, LoopPolls
<1>2. ASSUME NEW h \in Conn, NEW q, Close(h, q) PROVE PInv'
  BY <1>2, ClosePolls, SubtableSelf, SamePauses DEF Close
<1>3. ASSUME NEW h \in Conn, TaskDrained(h) PROVE PInv'
  <2>1. CASE /\ io[h].paused
             /\ pd' = AddEv(pd, fd[h], h, "io", {"r"})
             /\ io' = [io EXCEPT ![h].paused = FALSE]
             /\ UNCHANGED <<st, fd, req>>
    <3>1. st[h] \in {"conn_ok", "active_ok"} /\ (h \in Frontend => req[h] = "yes")
      BY <2>1, Types DEF PInv, PausedServes, LiveState
    <3>2. \A x \in Conn : io'[x].paused => io[x].paused \/ x = h
      BY <2>1, MoreTypes
    <3>3. st' = [st EXCEPT ![h] = st[h]]
      BY <2>1, Types
    <3> QED
      BY <2>1, <3>1, <3>2, <3>3, SubtableSelf, Registers
  <2> QED
    BY <1>1, <1>2, <1>3, <2>1 DEF TaskDrained
<1>4. ASSUME NEW f \in Frontend, TaskClosesFrontend(f) PROVE PInv'
  BY <1>2, <1>4 DEF TaskClosesFrontend, Conn
<1>5. ASSUME NEW b \in Backend, TaskFrontendClose(b) PROVE PInv'
  BY <1>1, <1>2, <1>5 DEF TaskFrontendClose, Conn
<1>6. ASSUME NEW f \in Frontend, TaskConnOk(f), ~DropTask PROVE PInv'
  <2>0. f \in Conn
    BY Types
  <2>1. PICK r \in IF req[f] = "saved" THEN Forward(f) ELSE {<<io, pd>>} :
           \/ /\ io' = r[1]
              /\ pd' = AddEv(r[2], fd[f], f, "io", {"r"})
              /\ st' = [st EXCEPT ![f] = "active_ok"]
              /\ req' = [req EXCEPT ![f] = "yes"]
              /\ UNCHANGED fd
           \/ OnClose(f, Tail(taskq), RemoveAll(r[2], fd[f]), r[1])
           \/ req[f] = "saved" /\ OnClose(f, Tail(taskq), r[2], r[1])
    BY <1>6 DEF TaskConnOk
  <2>2. Subtable(r[2]) /\ \A x \in Conn : r[1][x].paused => io[x].paused \/ x = f
    BY <2>0, <2>1, ForwardPolls, SubtableSelf
  <2>3. CASE /\ io' = r[1]
             /\ pd' = AddEv(r[2], fd[f], f, "io", {"r"})
             /\ st' = [st EXCEPT ![f] = "active_ok"]
             /\ req' = [req EXCEPT ![f] = "yes"]
             /\ UNCHANGED fd
    <3>1. req'[f] = "yes" /\ \A g \in Frontend : req'[g] = req[g] \/ (g = f /\ req'[g] = "yes")
      BY <2>3, Types
    <3> QED
      BY <2>0, <2>2, <2>3, <3>1, Registers
  <2>6. PausesBut(r[1], f)
    BY <2>0, <2>1, ForwardPauses
  <2>4. CASE OnClose(f, Tail(taskq), RemoveAll(r[2], fd[f]), r[1])
    BY <2>0, <2>2, <2>4, <2>6, ClosePolls
  <2>5. CASE req[f] = "saved" /\ OnClose(f, Tail(taskq), r[2], r[1])
    <3>1. Unpolled(pd, f)
      BY <2>5 DEF PInv, SavedIsAway, Unpolled
    <3>2. Unpolled(r[2], f)
      BY <2>0, <2>2, <3>1, Types DEF Subtable, Unpolled
    <3> QED
      BY <2>0, <2>2, <2>5, <2>6, <3>2, Freed DEF OnClose
  <2> QED
    BY <2>1, <2>3, <2>4, <2>5
<1> QED
  BY <1>1, <1>3, <1>4, <1>5, <1>6

LEMMA PollerStarts == Init => PInv
BY ConstantsAssumption DEF Init, PInv, PollerOwnsLive, FdsApart, PausedServes, SavedIsAway,
   Registered, NoPd, FreshIo, Conn

LEMMA NextPInv ==
    ASSUME IInv, PInv, FreeHasNoApp, [Next]_vars
    PROVE  PInv'
BY LoopPolls, IoEventPolls, ConnectEventPolls, FrontendEventPolls, TaskPolls DEF Next

\* A poll_desc never outlives its handler, nor keeps a descriptor that its handler has
\* closed, nor mistakes a connect for a connection ("MUST before on_close", evpoll::run),
\* however addresses and descriptors are reused and whatever fails.
THEOREM PollerNeverStale == Spec => []PollerOwnsLive
<1>1. Init => PInv
  BY PollerStarts
<1>2. SInv /\ PInv /\ [Next]_vars => PInv'
  BY NextPInv DEF SInv
<1>3. PInv => PollerOwnsLive
  BY DEF PInv
<1> QED
  BY <1>1, <1>2, <1>3, SessionInvariance, PTL DEF Spec

----------------------------------------------------------------------------
(* Notices and counters.  on_open tells a frontend of its backend by a      *)
(* task, and that task starts the frontend: it is counted and reads from    *)
(* then on.  A notice never starts a frontend that has started: so the      *)
(* counters that let a worker exit never drift, and a frontend is read from *)
(* only once its backend is connected.                                      *)

\* The i-th task of q tells f that its backend is connected, or will close f.
TellsAt(i, f, q) == i \in 1..Len(q) /\ q[i].type = "backend_conn_ok" /\ q[i].p = f
EndsAt(i, f, q)  == /\ i \in 1..Len(q) /\ q[i].p = f
                    /\ q[i].type \in {"backend_close", "backend_conn_fail"}

Tells(f, q) == \E i \in 1..Len(q) : TellsAt(i, f, q)
Ends(f, q)  == \E i \in 1..Len(q) : EndsAt(i, f, q)

\* Between two notices to f there is a task that closes f.
Apart(f, q) == \A i, j \in 1..Len(q) :
    TellsAt(i, f, q) /\ TellsAt(j, f, q) /\ i < j => \E k \in i..j : EndsAt(k, f, q)

\* f is closed before any notice in q reaches it.
EndsFirst(f, q) == \A j \in 1..Len(q) : TellsAt(j, f, q) => \E k \in 1..j : EndsAt(k, f, q)

\* The last notice to f is not followed by a task that closes f.
Open(f, q) == \E i \in 1..Len(q) : TellsAt(i, f, q) /\ \A k \in i..Len(q) : ~EndsAt(k, f, q)

\* What is pushed comes behind what is there.
LEMMA Behind ==
    ASSUME NEW q \in Seq(Task), NEW s \in Seq(Task), NEW f
    PROVE  /\ Len(q \o s) = Len(q) + Len(s) /\ Len(q) \in Nat /\ Len(s) \in Nat
           /\ \A i \in Nat : TellsAt(i, f, q \o s) <=>
                 TellsAt(i, f, q) \/ (i > Len(q) /\ TellsAt(i - Len(q), f, s))
           /\ \A i \in Nat : EndsAt(i, f, q \o s) <=>
                 EndsAt(i, f, q) \/ (i > Len(q) /\ EndsAt(i - Len(q), f, s))
<1>1. /\ Len(q \o s) = Len(q) + Len(s) /\ Len(q) \in Nat /\ Len(s) \in Nat
      /\ \A i \in 1..Len(q) : (q \o s)[i] = q[i]
      /\ \A i \in 1..(Len(q) + Len(s)) : i > Len(q) =>
            i - Len(q) \in 1..Len(s) /\ (q \o s)[i] = s[i - Len(q)]
  OBVIOUS
<1> QED
  BY <1>1 DEF TellsAt, EndsAt

\* Pushing s, whose notice to f, if any, is its first task and finds no other open.
LEMMA Pushed ==
    ASSUME NEW q \in Seq(Task), NEW s \in Seq(Task), NEW f,
           \A i \in 1..Len(s) : TellsAt(i, f, s) => i = 1 /\ ~Open(f, q)
    PROVE  /\ Apart(f, q) => Apart(f, q \o s)
           /\ Open(f, q \o s) => (Open(f, q) \/ Tells(f, s)) /\ ~Ends(f, s)
           /\ Tells(f, q \o s) => Tells(f, q) \/ Tells(f, s)
           /\ EndsFirst(f, q) /\ ~Tells(f, s) => EndsFirst(f, q \o s)
<1> DEFINE r == q \o s
<1>1. /\ Len(r) = Len(q) + Len(s) /\ Len(q) \in Nat /\ Len(s) \in Nat
      /\ \A i \in Nat : TellsAt(i, f, r) <=>
            TellsAt(i, f, q) \/ (i > Len(q) /\ TellsAt(i - Len(q), f, s))
      /\ \A i \in Nat : EndsAt(i, f, r) <=>
            EndsAt(i, f, q) \/ (i > Len(q) /\ EndsAt(i - Len(q), f, s))
  BY Behind
<1> HIDE DEF r
<1>2. \A i : (TellsAt(i, f, q) => i \in 1..Len(q)) /\ (TellsAt(i, f, s) => i \in 1..Len(s))
             /\ (EndsAt(i, f, q) => i \in 1..Len(q)) /\ (EndsAt(i, f, s) => i \in 1..Len(s))
  BY DEF TellsAt, EndsAt
<1>3. ASSUME Apart(f, q), NEW i \in 1..Len(r), NEW j \in 1..Len(r), TellsAt(i, f, r),
             TellsAt(j, f, r), i < j
      PROVE  \E k \in i..j : EndsAt(k, f, r)
  <2>1. CASE TellsAt(j, f, q)
    <3>1. TellsAt(i, f, q)
      BY <1>1, <1>2, <1>3, <2>1
    <3>2. PICK k \in i..j : EndsAt(k, f, q)
      BY <1>2, <1>3, <2>1, <3>1 DEF Apart
    <3> QED
      BY <1>1, <1>2, <3>2
  <2>2. CASE ~TellsAt(j, f, q)
    <3>1. j - Len(q) \in 1..Len(s) /\ TellsAt(j - Len(q), f, s)
      BY <1>1, <1>2, <1>3, <2>2
    <3>2. j = Len(q) + 1 /\ ~Open(f, q)
      BY <1>1, <3>1
    <3>3. i \in 1..Len(q) /\ TellsAt(i, f, q)
      BY <1>1, <1>2, <1>3, <3>2
    <3>4. PICK k \in i..Len(q) : EndsAt(k, f, q)
      BY <3>2, <3>3 DEF Open
    <3> QED
      BY <1>1, <1>2, <3>2, <3>4
  <2> QED
    BY <2>1, <2>2
<1>4. ASSUME Open(f, r) PROVE (Open(f, q) \/ Tells(f, s)) /\ ~Ends(f, s)
  <2>1. PICK i \in 1..Len(r) : TellsAt(i, f, r) /\ \A k \in i..Len(r) : ~EndsAt(k, f, r)
    BY <1>4 DEF Open
  <2>2. CASE TellsAt(i, f, q)
    <3>1. \A k \in i..Len(q) : ~EndsAt(k, f, q)
      BY <1>1, <1>2, <2>1, <2>2
    <3>2. \A k \in 1..Len(s) : ~EndsAt(k, f, s)
      <4> SUFFICES ASSUME NEW k \in 1..Len(s), EndsAt(k, f, s) PROVE FALSE
        OBVIOUS
      <4>1. k + Len(q) \in i..Len(r) /\ k + Len(q) \in Nat /\ (k + Len(q)) - Len(q) = k
        BY <1>1, <1>2, <2>2
      <4> QED
        BY <1>1, <2>1, <4>1
    <3> QED
      BY <1>2, <2>2, <3>1, <3>2 DEF Open, Ends
  <2>3. CASE ~TellsAt(i, f, q)
    <3>1. i - Len(q) \in 1..Len(s) /\ TellsAt(i - Len(q), f, s) /\ i = Len(q) + 1
      BY <1>1, <1>2, <2>1, <2>3
    <3>2. \A k \in 1..Len(s) : ~EndsAt(k, f, s)
      <4> SUFFICES ASSUME NEW k \in 1..Len(s), EndsAt(k, f, s) PROVE FALSE
        OBVIOUS
      <4>1. k + Len(q) \in i..Len(r) /\ k + Len(q) \in Nat /\ (k + Len(q)) - Len(q) = k
        BY <1>1, <3>1
      <4> QED
        BY <1>1, <2>1, <4>1
    <3> QED
      BY <3>1, <3>2 DEF Tells, Ends
  <2> QED
    BY <2>2, <2>3
<1>5. Tells(f, r) => Tells(f, q) \/ Tells(f, s)
  BY <1>1, <1>2 DEF Tells
<1>6. ASSUME EndsFirst(f, q), ~Tells(f, s), NEW j \in 1..Len(r), TellsAt(j, f, r)
      PROVE  \E k \in 1..j : EndsAt(k, f, r)
  <2>1. TellsAt(j, f, q)
    BY <1>1, <1>2, <1>6 DEF Tells
  <2>2. PICK k \in 1..j : EndsAt(k, f, q)
    BY <1>2, <1>6, <2>1 DEF EndsFirst
  <2> QED
    BY <1>1, <1>2, <2>2
<1>7. (Apart(f, q) => Apart(f, r)) /\ (EndsFirst(f, q) /\ ~Tells(f, s) => EndsFirst(f, r))
  BY <1>3, <1>6 DEF Apart, EndsFirst
<1> QED
  BY <1>4, <1>5, <1>7 DEF r

\* The first task has run.
LEMMA Popped ==
    ASSUME NEW q \in Seq(Task), q # <<>>, NEW f
    PROVE  /\ Apart(f, q) => Apart(f, Tail(q))
           /\ Tells(f, Tail(q)) => Tells(f, q)
           /\ EndsFirst(f, q) /\ ~EndsAt(1, f, q) => EndsFirst(f, Tail(q))
           /\ Apart(f, q) /\ TellsAt(1, f, q) => EndsFirst(f, Tail(q))
           /\ TellsAt(1, f, q) => ~EndsFirst(f, q) /\ Tells(f, q)
           /\ \A n \in Nat : (\A i \in 1..Len(q) : TellsAt(i, f, q) => i <= n)
                 => \A i \in 1..Len(Tail(q)) : TellsAt(i, f, Tail(q)) => i <= n - 1
<1> DEFINE r == Tail(q)
<1>1. /\ Len(r) = Len(q) - 1 /\ Len(q) \in Nat \ {0}
      /\ \A i \in 1..(Len(q) - 1) : r[i] = q[i + 1]
  OBVIOUS
<1> HIDE DEF r
<1>2. /\ \A i \in Nat \ {0} : TellsAt(i, f, r) <=> TellsAt(i + 1, f, q)
      /\ \A i \in Nat \ {0} : EndsAt(i, f, r) <=> EndsAt(i + 1, f, q)
      /\ \A i : (TellsAt(i, f, q) => i \in 1..Len(q)) /\ (TellsAt(i, f, r) => i \in 1..Len(r))
             /\ (EndsAt(i, f, q) => i \in 1..Len(q)) /\ (EndsAt(i, f, r) => i \in 1..Len(r))
      /\ ~(TellsAt(1, f, q) /\ EndsAt(1, f, q))
  BY <1>1 DEF TellsAt, EndsAt
<1>3. ASSUME Apart(f, q), NEW i \in 1..Len(r), NEW j \in 1..Len(r), TellsAt(i, f, r),
             TellsAt(j, f, r), i < j
      PROVE  \E k \in i..j : EndsAt(k, f, r)
  <2>1. TellsAt(i + 1, f, q) /\ TellsAt(j + 1, f, q) /\ i + 1 < j + 1
    BY <1>1, <1>2, <1>3
  <2>2. PICK k \in (i + 1)..(j + 1) : EndsAt(k, f, q)
    BY <1>2, <1>3, <2>1 DEF Apart
  <2>3. k - 1 \in i..j /\ k - 1 \in Nat \ {0} /\ (k - 1) + 1 = k
    BY <1>1
  <2> QED
    BY <1>2, <2>2, <2>3
<1>4. Tells(f, r) => Tells(f, q)
  BY <1>1, <1>2 DEF Tells
<1>5. ASSUME EndsFirst(f, q), ~EndsAt(1, f, q), NEW j \in 1..Len(r), TellsAt(j, f, r)
      PROVE  \E k \in 1..j : EndsAt(k, f, r)
  <2>1. TellsAt(j + 1, f, q) /\ j + 1 \in 1..Len(q)
    BY <1>1, <1>2, <1>5
  <2>2. PICK k \in 1..(j + 1) : EndsAt(k, f, q)
    BY <1>5, <2>1 DEF EndsFirst
  <2>3. k - 1 \in 1..j /\ k - 1 \in Nat \ {0} /\ (k - 1) + 1 = k
    BY <1>5, <2>2
  <2> QED
    BY <1>2, <2>2, <2>3
<1>6. ASSUME Apart(f, q), TellsAt(1, f, q), NEW j \in 1..Len(r), TellsAt(j, f, r)
      PROVE  \E k \in 1..j : EndsAt(k, f, r)
  <2>1. TellsAt(j + 1, f, q) /\ j + 1 \in 1..Len(q) /\ 1 < j + 1 /\ 1 \in 1..Len(q)
    BY <1>1, <1>2, <1>6
  <2>2. PICK k \in 1..(j + 1) : EndsAt(k, f, q)
    BY <1>6, <2>1 DEF Apart
  <2>3. k # 1
    BY <1>2, <1>6, <2>2
  <2>4. k - 1 \in 1..j /\ k - 1 \in Nat \ {0} /\ (k - 1) + 1 = k
    BY <2>2, <2>3
  <2> QED
    BY <1>2, <2>2, <2>4
<1>7. TellsAt(1, f, q) => ~EndsFirst(f, q) /\ Tells(f, q)
  <2> SUFFICES ASSUME TellsAt(1, f, q) PROVE ~EndsFirst(f, q) /\ Tells(f, q)
    OBVIOUS
  <2>1. 1 \in 1..Len(q) /\ \A k \in 1..1 : ~EndsAt(k, f, q)
    BY <1>1, <1>2
  <2> QED
    BY <2>1 DEF EndsFirst, Tells
<1>8. ASSUME NEW n \in Nat, \A i \in 1..Len(q) : TellsAt(i, f, q) => i <= n,
             NEW i \in 1..Len(r), TellsAt(i, f, r)
      PROVE  i <= n - 1
  <2>1. i + 1 \in 1..Len(q) /\ TellsAt(i + 1, f, q)
    BY <1>1, <1>2, <1>8
  <2> QED
    BY <1>8, <2>1
<1>9. /\ Apart(f, q) => Apart(f, r)
      /\ EndsFirst(f, q) /\ ~EndsAt(1, f, q) => EndsFirst(f, r)
      /\ Apart(f, q) /\ TellsAt(1, f, q) => EndsFirst(f, r)
  BY <1>3, <1>5, <1>6 DEF Apart, EndsFirst
<1> QED
  BY <1>4, <1>7, <1>8, <1>9 DEF r

----------------------------------------------------------------------------
(* Who waits, pauses or times out                                          *)

WaitsUnpolled == \A f \in Frontend : st[f] = "conn_ok" /\ req[f] # "no" => Unpolled(pd, f)
PausedActive  == \A f \in Frontend : io[f].paused => st[f] = "active_ok"
ActiveServes  == \A f \in Frontend : st[f] = "active_ok" => req[f] = "yes"

\* Timers run in the timer's event only; a connect that has timed out is under way.
DueConnects ==
    due # {} /\ phase # "crashed" =>
        /\ phase = "events" /\ cur # None /\ cur.fd = TimerFd
        /\ \A b \in due \cap Backend : st[b] = "new_ok"

\* A connect that succeeds at once never fails after on_open has told its frontend.
NoLateFailure == ~({"sync_connect", "epoll_full"} \subseteq env)

UInv == WaitsUnpolled /\ PausedActive /\ ActiveServes /\ DueConnects

----------------------------------------------------------------------------
(* Steps by what they do to lives, pollers, counters and the queue           *)

Silent(s) == s \in Seq(Task) /\ \A i \in 1..Len(s) : s[i].type # "backend_conn_ok"

InEvents(s) == phase = "events" /\ phase' = "events" /\ s \in Seq(Task) /\ taskq' = taskq \o s

InTasks(s) == /\ phase = "tasks" /\ todo > 0 /\ phase' = "tasks" /\ todo' = todo - 1
              /\ Silent(s) /\ taskq' = Tail(taskq) \o s

\* Nobody outside S who is not active yet is registered, or paused.
PollsOnly(S)  == \A f \in Frontend \ S : Unpolled(pd, f) /\ st[f] # "active_ok" => Unpolled(pd', f)
PausesOnly(S) == \A f \in Frontend \ S : io'[f].paused => io[f].paused \/ st[f] = "active_ok"

SameCounts == UNCHANGED <<frontend_active_n, backend_active_n>>

LoopGoes ==
    /\ UNCHANGED taskq
    /\ phase' = "tasks" => (phase = "tasks" /\ todo' = todo) \/ todo' = Len(taskq)
    /\ phase' = "events" => phase = "events" \/ (phase = "tasks" /\ todo = 0)

\* No life, pointer or app changes.
Rests ==
    /\ UNCHANGED <<st, peer, req>> /\ SameCounts /\ PollsOnly({}) /\ PausesOnly({})
    /\ \/ LoopGoes
       \/ \E s : Silent(s) /\ InEvents(s)
       \/ /\ ~NoLateFailure
          /\ \E f \in Frontend : st[f] = "free" /\ InEvents(SyncFailTasks(f))
       \/ InTasks(<<>>) /\ \A f \in Frontend : EndsAt(1, f, taskq) => st[f] # "active_ok"

Told(f) == <<T("backend_conn_ok", f)>>

\* h is deleted; its frontend, or itself, may have been told of a connect just before.
Deletes(h) ==
    /\ peer' = Unlinked(h) /\ st' = [st EXCEPT ![h] = "free"]
    /\ \E s : PausesBut(s, h) /\ io' = [s EXCEPT ![h] = FreshIo]
    /\ req' = IF h \in Frontend THEN [req EXCEPT ![h] = "no"] ELSE req
    /\ frontend_active_n' = frontend_active_n - IF h \in Frontend THEN IsActive(h) ELSE 0
    /\ backend_active_n' = backend_active_n - IF h \in Backend THEN IsActive(h) ELSE 0
    /\ PollsOnly({})
    /\ \/ /\ h \in Frontend => req[h] = "no" \/ ~Unpolled(pd, h)
          /\ \E s : Silent(s) /\ InEvents(s)
       \/ /\ h \in Backend /\ st[h] = "new_ok" /\ peer[h] # None /\ st[peer[h]] = "conn_ok"
          /\ \E s : Silent(s) /\ InEvents(Told(peer[h]) \o s)
       \/ ~NoLateFailure /\ h \in Frontend /\ req[h] = "no" /\ InEvents(SyncFailTasks(h))
       \/ /\ \A f \in Frontend : EndsAt(1, f, taskq) /\ st[f] = "active_ok" => f = h
          /\ \E s : InTasks(s)

\* The connect of b ends well.
Establishes(b) ==
    /\ st[b] = "new_ok" /\ peer[b] # None /\ st' = [st EXCEPT ![b] = "active_ok"]
    /\ UNCHANGED <<peer, req, io, frontend_active_n>> /\ backend_active_n' = backend_active_n + 1
    /\ PollsOnly({})
    /\ InEvents(<<>>) \/ (st[peer[b]] = "conn_ok" /\ InEvents(Told(peer[b])))

\* f gets a backend, and is told at once when that is connected at once.
Joins(f, b) ==
    /\ st[b] = "free" /\ (st[f] = "free" \/ req[f] = "no")
    /\ peer' = [peer EXCEPT ![f] = b, ![b] = f] /\ UNCHANGED <<io, frontend_active_n>>
    /\ \E r \in {"saved", "yes"} : req' = [req EXCEPT ![f] = r]
    /\ Unpolled(pd', f) /\ PollsOnly({})
    /\ \/ /\ st' = [st EXCEPT ![f] = "conn_ok", ![b] = "new_ok"]
          /\ UNCHANGED backend_active_n /\ InEvents(<<>>)
       \/ /\ st' = [st EXCEPT ![f] = "conn_ok", ![b] = "active_ok"]
          /\ backend_active_n' = backend_active_n + 1 /\ InEvents(Told(f))

\* f waits for its first request.
Arrives(f) ==
    /\ st[f] = "free" /\ st' = [st EXCEPT ![f] = "conn_ok"]
    /\ UNCHANGED <<peer, req, io>> /\ SameCounts /\ PollsOnly({f}) /\ InEvents(<<>>)

\* f is told that its backend is connected.
Starts(f) ==
    /\ Live(f) /\ peer[f] # None /\ st' = [st EXCEPT ![f] = "active_ok"]
    /\ req' = [req EXCEPT ![f] = "yes"]
    /\ UNCHANGED <<peer, backend_active_n>> /\ frontend_active_n' = frontend_active_n + 1
    /\ PollsOnly({f}) /\ PausesOnly({f})
    /\ TellsAt(1, f, taskq) /\ InTasks(<<>>)

StartsOver ==
    /\ st' = [h \in Conn |-> "free"] /\ peer' = [h \in Conn |-> None]
    /\ req' = [f \in Frontend |-> "no"] /\ io' = [h \in Conn |-> FreshIo]
    /\ taskq' = <<>> /\ phase' = "tasks" /\ frontend_active_n' = 0 /\ backend_active_n' = 0

TellingStep ==
    \/ Rests \/ StartsOver
    \/ \E h \in Conn : Deletes(h)
    \/ \E b \in Backend : Establishes(b)
    \/ \E f \in Frontend : Arrives(f) \/ Starts(f) \/ \E b \in Backend : Joins(f, b)

LEMMA Pairs ==
    ASSUME IInv
    PROVE  /\ \A f \in Frontend : f \in Conn /\ f # None /\ f \notin Backend
           /\ \A b \in Backend : b \in Conn /\ b # None /\ b \notin Frontend
           /\ \A f \in Frontend : peer[f] # None =>
                 peer[f] \in Backend /\ peer[peer[f]] = f /\ Live(f) /\ req[f] # "no"
           /\ \A b \in Backend : peer[b] # None =>
                 peer[b] \in Frontend /\ peer[peer[b]] = b /\ Live(peer[b])
<1>1. /\ \A f \in Frontend : f \in Conn /\ f # None /\ f \notin Backend
      /\ \A b \in Backend : b \in Conn /\ b # None /\ b \notin Frontend
  BY Types
<1> QED
  BY <1>1, Types DEF IInv, LinkSymmetry, NoAppNoBackend, Conn

LEMMA SubtableUnpolled ==
    ASSUME NEW p, Subtable(p), NEW h \in Conn, Unpolled(pd, h), h # None
    PROVE  Unpolled(p, h)
BY DEF Subtable, Unpolled

LEMMA SilentTasks ==
    ASSUME IInv
    PROVE  /\ Silent(<<>>)
           /\ \A h \in Conn : Silent(PeerTask(h)) /\ Silent(DrainedTask(h))
           /\ \A f \in Frontend : Silent(<<T("backend_conn_fail", f)>>)
                                 /\ Silent(<<T("frontend_inactive", f)>>)
<1>1. Silent(<<>>)
  BY DEF Silent
<1>2. ASSUME NEW t \in Task, t.type # "backend_conn_ok" PROVE Silent(<<t>>)
  BY <1>2 DEF Silent
<1>3. \A f \in Frontend : Silent(<<T("backend_conn_fail", f)>>) /\ Silent(<<T("frontend_inactive", f)>>)
  <2> SUFFICES ASSUME NEW f \in Frontend
               PROVE  Silent(<<T("backend_conn_fail", f)>>) /\ Silent(<<T("frontend_inactive", f)>>)
    OBVIOUS
  <2>1. /\ T("backend_conn_fail", f) \in Task /\ T("frontend_inactive", f) \in Task
        /\ T("backend_conn_fail", f).type # "backend_conn_ok"
        /\ T("frontend_inactive", f).type # "backend_conn_ok"
    BY DEF T, Task
  <2> QED
    BY <1>2, <2>1
<1>4. ASSUME NEW h \in Conn, peer[h] = None PROVE Silent(PeerTask(h)) /\ Silent(DrainedTask(h))
  BY <1>1, <1>4 DEF PeerTask, DrainedTask
<1>5. ASSUME NEW h \in Frontend, peer[h] # None PROVE Silent(PeerTask(h)) /\ Silent(DrainedTask(h))
  <2>1. peer[h] \in Backend
    BY <1>5, Pairs
  <2>2. /\ T("frontend_close", peer[h]) \in Task
        /\ T("frontend_close", peer[h]).type # "backend_conn_ok"
        /\ T("frontend_send_buffer_drained", peer[h]) \in Task
        /\ T("frontend_send_buffer_drained", peer[h]).type # "backend_conn_ok"
    BY <2>1 DEF T, Task
  <2>3. /\ PeerTask(h) = <<T("frontend_close", peer[h])>>
        /\ DrainedTask(h) = <<T("frontend_send_buffer_drained", peer[h])>>
    BY <1>5 DEF PeerTask, DrainedTask
  <2> QED
    BY <1>2, <2>2, <2>3
<1>6. ASSUME NEW h \in Backend, peer[h] # None PROVE Silent(PeerTask(h)) /\ Silent(DrainedTask(h))
  <2>1. peer[h] \in Frontend /\ h \notin Frontend
    BY <1>6, Pairs
  <2>2. /\ T("backend_close", peer[h]) \in Task
        /\ T("backend_close", peer[h]).type # "backend_conn_ok"
        /\ T("backend_send_buffer_drained", peer[h]) \in Task
        /\ T("backend_send_buffer_drained", peer[h]).type # "backend_conn_ok"
    BY <2>1 DEF T, Task
  <2>3. /\ PeerTask(h) = <<T("backend_close", peer[h])>>
        /\ DrainedTask(h) = <<T("backend_send_buffer_drained", peer[h])>>
    BY <1>6, <2>1 DEF PeerTask, DrainedTask
  <2> QED
    BY <1>2, <2>2, <2>3
<1> QED
  BY <1>1, <1>3, <1>4, <1>5, <1>6 DEF Conn


----------------------------------------------------------------------------
(* Every step is one of these                                               *)

\* The shapes in which tasks are pushed.
LEMMA Shapes ==
    ASSUME IInv
    PROVE  /\ taskq = taskq \o <<>> /\ (todo > 0 => Tail(taskq) = Tail(taskq) \o <<>>)
           /\ \A f \in Frontend : Told(f) \in Seq(Task) /\ SyncFailTasks(f) \in Seq(Task)
                                  /\ Append(taskq, T("backend_conn_ok", f)) = taskq \o Told(f)
                                  /\ \A s \in Seq(Task) : (taskq \o Told(f)) \o s = taskq \o (Told(f) \o s)
           /\ \A t \in Task : Append(taskq, t) = taskq \o <<t>>
<1>1. taskq \in Seq(Task) /\ (todo > 0 => Tail(taskq) \in Seq(Task))
  BY Types, TailTasks
<1>2. \A f \in Frontend : T("backend_conn_ok", f) \in Task /\ T("backend_close", f) \in Task
  BY DEF T, Task
<1>3. \A f \in Frontend : Told(f) \in Seq(Task) /\ SyncFailTasks(f) \in Seq(Task)
  BY <1>2 DEF Told, SyncFailTasks
<1>4. \A t \in Task : Append(taskq, t) = taskq \o <<t>>
  BY <1>1
<1>5. \A f \in Frontend : Append(taskq, T("backend_conn_ok", f)) = taskq \o Told(f)
  BY <1>2, <1>4 DEF Told
<1>6. ASSUME NEW f \in Frontend, NEW s \in Seq(Task)
      PROVE  (taskq \o Told(f)) \o s = taskq \o (Told(f) \o s)
  <2>1. \A a, c, d \in Seq(Task) : (a \o c) \o d = a \o (c \o d)
    OBVIOUS
  <2> QED
    BY <1>1, <1>3, <2>1
<1> QED
  BY <1>1, <1>3, <1>4, <1>5, <1>6

\* Tables below pd's register nobody who is not registered in it.
LEMMA SubtablePolls ==
    ASSUME IInv, Subtable(pd')
    PROVE  PollsOnly({})
<1> SUFFICES ASSUME NEW f \in Frontend, Unpolled(pd, f) PROVE Unpolled(pd', f)
  BY DEF PollsOnly
<1>1. f \in Conn /\ f # None
  BY Types
<1>2. \A p : Subtable(p) => Unpolled(p, f)
  BY <1>1, SubtableUnpolled
<1> QED
  BY <1>2

\* What on_close does to lives, pointers, apps and counters.
LEMMA OnCloseDeletes ==
    ASSUME IInv, NEW h \in Conn, NEW q, NEW p, NEW s, PausesBut(s, h), OnClose(h, q, p, s)
    PROVE  /\ peer' = Unlinked(h) /\ st' = [st EXCEPT ![h] = "free"]
           /\ \E x : PausesBut(x, h) /\ io' = [x EXCEPT ![h] = FreshIo]
           /\ req' = IF h \in Frontend THEN [req EXCEPT ![h] = "no"] ELSE req
           /\ frontend_active_n' = frontend_active_n - IF h \in Frontend THEN IsActive(h) ELSE 0
           /\ backend_active_n' = backend_active_n - IF h \in Backend THEN IsActive(h) ELSE 0
           /\ taskq' = q \o PeerTask(h) /\ pd' = p
<1>1. /\ frontend_active_n \in Int /\ backend_active_n \in Int
      /\ (h \in Frontend => h \notin Backend) /\ (h \notin Frontend => h \in Backend)
  BY Types DEF HInv, HandlerTypes, Conn
<1>2. PausesBut(s, h) /\ io' = [s EXCEPT ![h] = FreshIo]
  BY DEF OnClose
<1>3. \E x : PausesBut(x, h) /\ io' = [x EXCEPT ![h] = FreshIo]
  BY <1>2, Zenon
<1>4. /\ peer' = Unlinked(h) /\ st' = [st EXCEPT ![h] = "free"]
      /\ req' = IF h \in Frontend THEN [req EXCEPT ![h] = "no"] ELSE req
      /\ frontend_active_n' = frontend_active_n - IF h \in Frontend THEN IsActive(h) ELSE 0
      /\ backend_active_n' = backend_active_n - IF h \in Backend THEN IsActive(h) ELSE 0
      /\ taskq' = q \o PeerTask(h) /\ pd' = p
  BY <1>1 DEF OnClose
<1> QED
  BY <1>3, <1>4, Zenon

LEMMA LoopTold ==
    ASSUME IInv,
           \/ EpollWait \/ NextEvent \/ LoopTop \/ Restart \/ SkipEvent \/ AcceptDone
           \/ TimerDone \/ StaleTask \/ UNCHANGED vars
           \/ \E f \in Frontend : FrontendInactive(f)
           \/ Crash
    PROVE  TellingStep
<1>1. CASE Restart
  BY <1>1 DEF Restart, StartsOver, TellingStep
<1>2. CASE EpollWait \/ NextEvent \/ LoopTop \/ SkipEvent \/ AcceptDone \/ TimerDone \/ Crash
           \/ UNCHANGED vars
  <2>1. UNCHANGED <<st, peer, req, io, pd>> /\ SameCounts /\ LoopGoes
    BY <1>2 DEF EpollWait, NextEvent, LoopTop, SkipEvent, AcceptDone, TimerDone, Crash, EndEvent,
                IoEvent, InEvent, vars, handlers, LoopGoes, SameCounts
  <2> QED
    BY <2>1 DEF Rests, PollsOnly, PausesOnly, Unpolled, TellingStep
<1>3. CASE StaleTask /\ ~Crash
  <2>1. /\ phase = "tasks" /\ todo > 0 /\ ~Live(Head(taskq).p) /\ taskq' = Tail(taskq)
        /\ UNCHANGED <<st, peer, req, io, pd>> /\ SameCounts /\ EndTask
    BY <1>3 DEF StaleTask, DropTask, handlers, SameCounts
  <2>2. InTasks(<<>>)
    BY <2>1, SilentTasks, Shapes DEF InTasks, EndTask
  <2>3. taskq # <<>> /\ taskq \in Seq(Task)
    BY <2>1, TailTasks
  <2>4. \A f \in Frontend : EndsAt(1, f, taskq) => st[f] # "active_ok"
    BY <2>1, <2>3 DEF EndsAt, Live, LiveState
  <2> QED
    BY <2>1, <2>2, <2>4 DEF Rests, PollsOnly, PausesOnly, Unpolled, TellingStep
<1>4. ASSUME NEW f \in Frontend, FrontendInactive(f) PROVE TellingStep
  <2>1. /\ UNCHANGED <<st, peer, req, io, pd>> /\ SameCounts
        /\ phase = "events" /\ phase' = "events" /\ taskq' = Append(taskq, T("frontend_inactive", f))
    BY <1>4 DEF FrontendInactive, InEvent, handlers, SameCounts
  <2>2. T("frontend_inactive", f) \in Task /\ Silent(<<T("frontend_inactive", f)>>)
    BY SilentTasks DEF T, Task
  <2>3. InEvents(<<T("frontend_inactive", f)>>)
    BY <2>1, <2>2, Shapes DEF InEvents, Silent
  <2> QED
    BY <2>1, <2>2, <2>3 DEF Rests, PollsOnly, PausesOnly, Unpolled, TellingStep
<1> QED
  BY <1>1, <1>2, <1>3, <1>4

\* Tasks that change nothing, and tasks that delete.
LEMMA DropsTold ==
    ASSUME IInv, DropTask, phase = "tasks", todo > 0,
           \A f \in Frontend : EndsAt(1, f, taskq) => st[f] # "active_ok"
    PROVE  TellingStep
<1>1. UNCHANGED <<st, peer, req, io, pd>> /\ SameCounts /\ InTasks(<<>>)
  BY SilentTasks, Shapes DEF DropTask, EndTask, handlers, SameCounts, InTasks
<1> QED
  BY <1>1 DEF Rests, PollsOnly, PausesOnly, Unpolled, TellingStep

LEMMA TaskDeletes ==
    ASSUME IInv, NEW h \in Conn, phase = "tasks", todo > 0, EndTask, NEW p, Subtable(p),
           \A f \in Frontend : EndsAt(1, f, taskq) /\ st[f] = "active_ok" => f = h,
           NEW s, PausesBut(s, h), OnClose(h, Tail(taskq), p, s)
    PROVE  TellingStep
<1>1. InTasks(PeerTask(h))
  BY OnCloseDeletes, SilentTasks DEF InTasks, EndTask
<1>2. PollsOnly({})
  BY OnCloseDeletes, SubtablePolls
<1>3. Deletes(h)
  BY <1>1, <1>2, OnCloseDeletes DEF Deletes
<1> QED
  BY <1>3 DEF TellingStep

\* Who gets an event is registered.
LEMMA EventDeletes ==
    ASSUME IInv, PInv, NEW h \in Conn, NEW k, NEW e, Handling(h, k, e), EndEvent,
           NEW p, Subtable(p), NEW s, PausesBut(s, h), OnClose(h, taskq, p, s)
    PROVE  TellingStep
<1>1. ~Unpolled(pd, h) /\ phase = "events" /\ phase' = "events"
  BY Dispatch DEF Unpolled, Handling, IoEvent, InEvent, EndEvent
<1>2. Silent(PeerTask(h)) /\ InEvents(PeerTask(h))
  BY <1>1, OnCloseDeletes, SilentTasks DEF InEvents, Silent
<1>3. PollsOnly({})
  BY OnCloseDeletes, SubtablePolls
<1>4. Deletes(h)
  BY <1>1, <1>2, <1>3, OnCloseDeletes DEF Deletes
<1> QED
  BY <1>4 DEF TellingStep

LEMMA IoEventTold ==
    ASSUME IInv, PInv, UInv, NEW h \in Conn, Events(h)
    PROVE  TellingStep
<1>1. CASE OnError(h) \/ OnReadClose(h)
  <2>1. Subtable(RemoveAll(pd, fd[h]))
    BY SubtableSelf, SubtableRemove
  <2> QED
    BY <1>1, <2>1, EventDeletes, SamePauses DEF OnError, OnReadClose, Close
<1>2. CASE OnReadNothing(h)
  <2>1. UNCHANGED <<st, peer, req, io, pd>> /\ SameCounts /\ LoopGoes
    BY <1>2 DEF OnReadNothing, handlers, EndEvent, LoopGoes, SameCounts, Handling, IoEvent, InEvent
  <2> QED
    BY <2>1 DEF Rests, PollsOnly, PausesOnly, Unpolled, TellingStep
<1>3. CASE OnReadForward(h)
  <2>1. PICK r \in Forward(h) : io' = r[1] /\ pd' = r[2]
    BY <1>3 DEF OnReadForward
  <2>2. UNCHANGED <<st, peer, req>> /\ SameCounts /\ LoopGoes
    BY <1>3 DEF OnReadForward, EndEvent, LoopGoes, SameCounts, Handling, IoEvent, InEvent
  <2>3. h \in Frontend => st[h] = "active_ok"
    <3>1. /\ fd[h] \in Fd /\ pd[fd[h]].eh = h /\ st[h] \notin {"free", "new_ok"}
          /\ h \in Frontend => req[h] = "yes"
      BY <1>3, Dispatch DEF OnReadForward
    <3>2. h \in Frontend => ~(st[h] = "conn_ok" /\ req[h] # "no")
      BY <3>1 DEF UInv, WaitsUnpolled, Unpolled
    <3> QED
      BY <3>1, <3>2, Types DEF LiveState
  <2>4. Subtable(r[2]) /\ \A x \in Conn : r[1][x].paused => io[x].paused \/ x = h
    BY ForwardPolls
  <2>5. PollsOnly({}) /\ PausesOnly({})
    <3>1. PollsOnly({})
      BY <2>1, <2>4, SubtablePolls
    <3>2. PausesOnly({})
      BY <2>1, <2>3, <2>4, Types DEF PausesOnly
    <3> QED
      BY <3>1, <3>2
  <2> QED
    BY <2>2, <2>5 DEF Rests, TellingStep
<1>4. CASE OnWrite(h)
  <2>1. CASE Crash
    BY <2>1, LoopTold
  <2>2. CASE ~Crash
    <3>0. /\ UNCHANGED <<st, peer, req>> /\ SameCounts /\ phase = "events" /\ phase' = "events"
          /\ \/ UNCHANGED <<io, pd, taskq>>
             \/ /\ io' = [io EXCEPT ![h].buf = "empty", ![h].polling = FALSE]
                /\ \/ pd' = RemoveEv(pd, fd[h], "w") /\ taskq' = taskq \o DrainedTask(h)
                   \/ UNCHANGED <<pd, taskq>>
      BY <1>4, <2>2 DEF OnWrite, SameCounts, Handling, IoEvent, InEvent
    <3>1. Subtable(pd')
      BY <3>0, SubtableSelf, SubtableRemove
    <3>2. \A x \in Conn : io'[x].paused = io[x].paused
      <4>1. io' = io \/ io' = [io EXCEPT ![h].buf = "empty", ![h].polling = FALSE]
        BY <3>0
      <4> QED
        BY <4>1, MoreTypes DEF IoState
    <3>3. PollsOnly({}) /\ PausesOnly({})
      BY <3>1, <3>2, SubtablePolls, Types DEF PausesOnly
    <3>4. LoopGoes \/ (Silent(DrainedTask(h)) /\ InEvents(DrainedTask(h)))
      BY <3>0, SilentTasks DEF LoopGoes, InEvents, Silent
    <3> QED
      BY <3>0, <3>3, <3>4 DEF Rests, TellingStep
  <2> QED
    BY <2>1, <2>2
<1> QED
  BY <1>1, <1>2, <1>3, <1>4 DEF Events

\* The end of a connect.
LEMMA ConnectEventTold ==
    ASSUME IInv, PInv, UInv, NEW b \in Backend,
           OnConnectOk(b) \/ OnConnectFail(b) \/ ConnectTimeout(b)
    PROVE  TellingStep
<1>0. b \in Conn /\ b \notin Frontend /\ b # None /\ taskq \in Seq(Task)
  BY Types
<1>1. st[b] = "new_ok" /\ phase = "events" /\ phase' = "events"
  <2>1. CASE ConnectTimeout(b)
    BY <2>1 DEF ConnectTimeout, InEvent, UInv, DueConnects
  <2>2. CASE OnConnectOk(b) \/ OnConnectFail(b)
    <3>1. PICK e \in {"out", "in", "err"} : Handling(b, "connect", e) /\ EndEvent
      BY <2>2 DEF OnConnectOk, OnConnectFail
    <3>2. pd[cur.fd].eh = b /\ pd[cur.fd].kind = "connect" /\ cur.fd \in Fd /\ phase = "events"
      BY <3>1 DEF Handling, IoEvent, InEvent
    <3> QED
      BY <1>0, <3>1, <3>2 DEF PInv, PollerOwnsLive, Registered, EndEvent
  <2> QED
    BY <2>1, <2>2
<1>2. Subtable(RemoveAll(pd, fd[b]))
  BY SubtableSelf, SubtableRemove
<1>3. IsActive(b) = 0 /\ backend_active_n \in Int /\ frontend_active_n \in Int
  BY <1>1, Types DEF IsActive, HInv, HandlerTypes
<1>4. CASE OnConnectFail(b) \/ ConnectTimeout(b)
  <2>1. /\ peer' = Unlinked(b) /\ st' = [st EXCEPT ![b] = "free"]
        /\ io' = [io EXCEPT ![b] = FreshIo] /\ req' = req /\ pd' = RemoveAll(pd, fd[b])
        /\ UNCHANGED <<frontend_active_n, backend_active_n>>
        /\ taskq' = IF peer[b] = None THEN taskq
                    ELSE Append(taskq, T("backend_conn_fail", peer[b]))
    BY <1>4 DEF OnConnectFail, ConnectTimeout, ConnectFail
  <2>2. \E s : Silent(s) /\ InEvents(s)
    <3>1. CASE peer[b] = None
      BY <1>1, <2>1, <3>1, SilentTasks, Shapes DEF InEvents, Silent
    <3>2. CASE peer[b] # None
      <4>1. Silent(<<T("backend_conn_fail", peer[b])>>)
        BY <3>2, Pairs, SilentTasks
      <4>2. taskq' = taskq \o <<T("backend_conn_fail", peer[b])>>
        BY <1>0, <2>1, <3>2, <4>1 DEF Silent
      <4> QED
        BY <1>1, <4>1, <4>2 DEF InEvents, Silent
    <3> QED
      BY <3>1, <3>2
  <2>3. PollsOnly({})
    BY <1>2, <2>1, SubtablePolls
  <2>4. \E x : PausesBut(x, b) /\ io' = [x EXCEPT ![b] = FreshIo]
    <3>1. PausesBut(io, b) /\ io' = [io EXCEPT ![b] = FreshIo]
      BY <2>1, SamePauses
    <3> QED
      BY <3>1, Zenon
  <2>5. Deletes(b)
    <3>1. /\ peer' = Unlinked(b) /\ st' = [st EXCEPT ![b] = "free"]
          /\ req' = IF b \in Frontend THEN [req EXCEPT ![b] = "no"] ELSE req
          /\ frontend_active_n' = frontend_active_n - IF b \in Frontend THEN IsActive(b) ELSE 0
          /\ backend_active_n' = backend_active_n - IF b \in Backend THEN IsActive(b) ELSE 0
      BY <1>0, <1>3, <2>1
    <3> QED
      BY <1>0, <2>2, <2>3, <2>4, <3>1, Zenon DEF Deletes
  <2> QED
    BY <1>0, <2>5 DEF TellingStep
<1>5. CASE OnConnectOk(b)
  <2> DEFINE f == peer[b]
             tells == f # None /\ st[f] = "conn_ok"
             q == IF tells THEN Append(taskq, T("backend_conn_ok", f)) ELSE taskq
             p == RemoveAll(pd, fd[b])
  <2>1. \/ /\ f # None
           /\ st' = [st EXCEPT ![b] = "active_ok"]
           /\ pd' = AddEv(p, fd[b], b, "io", {"r"})
           /\ taskq' = q
           /\ backend_active_n' = backend_active_n + 1
           /\ UNCHANGED <<peer, io, req, frontend_active_n>>
        \/ OnClose(b, q, p, io)
    BY <1>5 DEF OnConnectOk
  <2>2. f # None => f \in Frontend /\ peer[f] = b
    BY Pairs
  <2>3. IF tells THEN q = taskq \o Told(f) ELSE q = taskq
    BY <2>2, Shapes
  <2>4. Subtable(p)
    BY <1>2
  <2> HIDE DEF q, p
  <2>5. CASE /\ f # None
             /\ st' = [st EXCEPT ![b] = "active_ok"]
             /\ pd' = AddEv(p, fd[b], b, "io", {"r"})
             /\ taskq' = q
             /\ backend_active_n' = backend_active_n + 1
             /\ UNCHANGED <<peer, io, req, frontend_active_n>>
    <3>1. PollsOnly({})
      <4> SUFFICES ASSUME NEW g \in Frontend, Unpolled(pd, g) PROVE Unpolled(pd', g)
        BY DEF PollsOnly
      <4>1. g # b /\ g # None /\ g \in Conn
        BY <1>0, Types
      <4>2. Unpolled(p, g)
        BY <2>4, <4>1, SubtableUnpolled
      <4> QED
        BY <2>4, <2>5, <4>1, <4>2 DEF AddEv, Unpolled, Subtable
    <3>2. InEvents(<<>>) \/ (st[peer[b]] = "conn_ok" /\ InEvents(Told(peer[b])))
      BY <1>1, <2>2, <2>3, <2>5, Shapes, SilentTasks DEF InEvents, Silent
    <3>3. Establishes(b)
      BY <1>1, <2>5, <3>1, <3>2 DEF Establishes
    <3> QED
      BY <3>3 DEF TellingStep
  <2>6. CASE OnClose(b, q, p, io)
    <3>0. PausesBut(io, b)
      BY SamePauses
    <3>1. Silent(PeerTask(b)) /\ taskq' = q \o PeerTask(b)
      BY <1>0, <2>6, <3>0, OnCloseDeletes, SilentTasks
    <3>2. CASE tells
      <4>0. Told(f) \in Seq(Task) /\ PeerTask(b) \in Seq(Task)
            /\ \A s \in Seq(Task) : (taskq \o Told(f)) \o s = taskq \o (Told(f) \o s)
        BY <2>2, <3>1, <3>2, Shapes DEF Silent
      <4>1. taskq' = taskq \o (Told(f) \o PeerTask(b)) /\ Told(f) \o PeerTask(b) \in Seq(Task)
        <5>1. (taskq \o Told(f)) \o PeerTask(b) = taskq \o (Told(f) \o PeerTask(b))
          BY <4>0, Zenon
        <5>2. taskq' = (taskq \o Told(f)) \o PeerTask(b)
          BY <2>3, <3>1, <3>2
        <5>3. Told(f) \o PeerTask(b) \in Seq(Task)
          BY <4>0
        <5> QED
          BY <5>1, <5>2, <5>3
      <4>2. InEvents(Told(f) \o PeerTask(b))
        BY <1>1, <4>1 DEF InEvents
      <4>3. PollsOnly({})
        BY <1>0, <2>4, <2>6, <3>0, OnCloseDeletes, SubtablePolls
      <4>4. Deletes(b)
        BY <1>0, <1>1, <2>6, <3>0, <3>1, <3>2, <4>2, <4>3, OnCloseDeletes DEF Deletes
      <4> QED
        BY <1>0, <4>4 DEF TellingStep
    <3>3. CASE ~tells
      <4>1. Silent(PeerTask(b)) /\ InEvents(PeerTask(b))
        BY <1>1, <2>3, <3>1, <3>3 DEF InEvents, Silent
      <4>3. PollsOnly({})
        BY <1>0, <2>4, <2>6, <3>0, OnCloseDeletes, SubtablePolls
      <4>4. Deletes(b)
        BY <1>0, <2>6, <3>0, <4>1, <4>3, OnCloseDeletes DEF Deletes
      <4> QED
        BY <1>0, <4>4 DEF TellingStep
    <3> QED
      BY <3>2, <3>3
  <2> QED
    BY <2>1, <2>5, <2>6
<1> QED
  BY <1>4, <1>5

LEMMA ToConnectBackendTold ==
    ASSUME IInv, NEW f \in Frontend, NEW n, NEW r \in {"saved", "yes"},
           NEW p, Subtable(p), Unpolled(p, f), st[f] = "free" \/ req[f] = "no",
           phase = "events", phase' = "events", ToConnectBackend(f, n, r, taskq, p)
    PROVE  TellingStep
<1>1. PICK b \in Backend, m \in FreeFds \ {n} :
        /\ st[b] = "free" /\ peer' = [peer EXCEPT ![f] = b, ![b] = f]
        /\ req' = [req EXCEPT ![f] = r] /\ UNCHANGED <<io, frontend_active_n>>
        /\ Connecting(f, b, m, taskq, p) \/ Connected(f, b, m, taskq, p)
  BY DEF ToConnectBackend
<1>2. b \notin Frontend /\ b # None
  BY Pairs
<1>3. PICK k \in {"io", "connect"}, e \in SUBSET {"r", "w"} : pd' = AddEv(p, m, b, k, e)
  BY <1>1 DEF Connecting, Connected
<1>4. \A g \in Frontend : Unpolled(p, g) => Unpolled(pd', g)
  BY <1>2, <1>3 DEF Unpolled, AddEv, Subtable
<1>5. PollsOnly({}) /\ Unpolled(pd', f)
  BY <1>4, SubtableUnpolled, Types DEF PollsOnly
<1>6. taskq = taskq \o <<>> /\ Silent(<<>>) /\ Told(f) \in Seq(Task)
      /\ Append(taskq, T("backend_conn_ok", f)) = taskq \o Told(f)
  BY Shapes, SilentTasks
<1>7. \/ /\ st' = [st EXCEPT ![f] = "conn_ok", ![b] = "new_ok"]
         /\ UNCHANGED backend_active_n /\ InEvents(<<>>)
      \/ /\ st' = [st EXCEPT ![f] = "conn_ok", ![b] = "active_ok"]
         /\ backend_active_n' = backend_active_n + 1 /\ InEvents(Told(f))
  BY <1>1, <1>6 DEF Connecting, Connected, InEvents, Silent
<1>8. Joins(f, b)
  BY <1>1, <1>5, <1>7 DEF Joins
<1> QED
  BY <1>8 DEF TellingStep

LEMMA FrontendEventTold ==
    ASSUME IInv, PInv, UInv, FreeHasNoApp, NEW f \in Frontend,
           Accept(f) \/ OnReadMatch(f) \/ OnReadForwardThenClose(f)
    PROVE  TellingStep
<1>0. f \in Conn /\ f # None
  BY Types
<1>1. \A s \in FailedConnectTasks(f) : s = <<>> \/ (s = SyncFailTasks(f) /\ ~NoLateFailure)
  BY DEF FailedConnectTasks, NoLateFailure
<1>2. CASE Accept(f)
  <2>1. st[f] = "free" /\ phase = "events" /\ phase' = "events"
    BY <1>2 DEF Accept, InEvent, loop
  <2>2. Unpolled(pd, f)
    BY <2>1, Types DEF Unpolled, PInv, PollerOwnsLive, Registered, Live, LiveState
  <2>3. PICK n \in FreeFds :
          \/ ToConnectBackend(f, n, "yes", taskq, pd)
          \/ /\ st' = [st EXCEPT ![f] = "conn_ok"]
             /\ pd' = AddEv(pd, n, f, "io", {"r"})
             /\ UNCHANGED <<peer, io, req, taskq, frontend_active_n, backend_active_n>>
          \/ /\ \E s \in FailedConnectTasks(f) : s # <<>> /\ taskq' = taskq \o s
             /\ UNCHANGED <<handlers, pd>>
    BY <1>2 DEF Accept
  <2>4. CASE ToConnectBackend(f, n, "yes", taskq, pd)
    BY <2>1, <2>2, <2>4, SubtableSelf, ToConnectBackendTold
  <2>5. CASE /\ st' = [st EXCEPT ![f] = "conn_ok"]
             /\ pd' = AddEv(pd, n, f, "io", {"r"})
             /\ UNCHANGED <<peer, io, req, taskq, frontend_active_n, backend_active_n>>
    <3>1. PollsOnly({f})
      BY <2>5, MoreTypes DEF AddEv, Unpolled, PollsOnly
    <3>2. InEvents(<<>>)
      BY <2>1, <2>5, Shapes, SilentTasks DEF InEvents, Silent
    <3>3. Arrives(f)
      BY <2>1, <2>5, <3>1, <3>2 DEF Arrives, SameCounts
    <3> QED
      BY <3>3 DEF TellingStep
  <2>6. CASE /\ \E s \in FailedConnectTasks(f) : s # <<>> /\ taskq' = taskq \o s
             /\ UNCHANGED <<handlers, pd>>
    <3>1. ~NoLateFailure /\ taskq' = taskq \o SyncFailTasks(f)
      BY <1>1, <2>6
    <3>2. InEvents(SyncFailTasks(f))
      BY <2>1, <3>1, Shapes DEF InEvents
    <3>3. UNCHANGED <<st, peer, req, io, pd>> /\ SameCounts
      BY <2>6 DEF handlers, SameCounts
    <3>4. PollsOnly({}) /\ PausesOnly({})
      BY <3>3 DEF PollsOnly, PausesOnly, Unpolled
    <3> QED
      BY <2>1, <3>1, <3>2, <3>3, <3>4 DEF Rests, TellingStep
  <2> QED
    BY <2>3, <2>4, <2>5, <2>6
<1>3. CASE OnReadMatch(f)
  <2> DEFINE p == RemoveEv(pd, fd[f], "r")
  <2>1. /\ req[f] = "no" /\ fd[f] \in Fd /\ pd[fd[f]].eh = f
        /\ phase = "events" /\ phase' = "events"
    BY <1>0, <1>3, Dispatch DEF OnReadMatch, EndEvent, Handling, IoEvent, InEvent
  <2>2. pd[fd[f]].ev \subseteq {"r"}
    BY <1>0, <2>1 DEF PInv, SavedIsAway
  <2>3. p = RemoveAll(pd, fd[f])
    BY <1>0, <2>1, <2>2 DEF RemoveEv
  <2>4. Subtable(p) /\ Unpolled(p, f) /\ Subtable(RemoveAll(pd, fd[f]))
    BY <1>0, <2>3, SubtableSelf, SubtableRemove, RemovedUnpolled
  <2> HIDE DEF p
  <2>5. CASE ToConnectBackend(f, fd[f], "saved", taskq, p)
    BY <2>1, <2>4, <2>5, ToConnectBackendTold
  <2>6. CASE \E s \in FailedConnectTasks(f) : Close(f, taskq \o s)
    <3>0. PICK s \in FailedConnectTasks(f) : Close(f, taskq \o s)
      BY <2>6
    <3>1. /\ OnClose(f, taskq \o s, RemoveAll(pd, fd[f]), io) /\ PausesBut(io, f) /\ peer[f] = None
          /\ PeerTask(f) = <<>> /\ taskq \in Seq(Task) /\ s \in Seq(Task)
      BY <1>0, <1>1, <2>1, <3>0, Shapes, Types, SilentTasks, SamePauses
         DEF Close, PeerTask, IInv, NoAppNoBackend, Silent
    <3>2. taskq' = taskq \o s
      <4>1. taskq' = (taskq \o s) \o PeerTask(f)
        BY <1>0, <3>1, OnCloseDeletes, Zenon
      <4>2. (taskq \o s) \o <<>> = taskq \o s
        BY <3>1
      <4> QED
        BY <3>1, <4>1, <4>2, Zenon
    <3>3. PollsOnly({})
      BY <1>0, <2>4, <3>1, OnCloseDeletes, SubtablePolls
    <3>4. \/ Silent(s) /\ InEvents(s)
          \/ ~NoLateFailure /\ InEvents(SyncFailTasks(f))
      BY <1>1, <2>1, <3>0, <3>1, <3>2, SilentTasks DEF InEvents
    <3>5. Deletes(f)
      BY <1>0, <2>1, <3>1, <3>3, <3>4, OnCloseDeletes DEF Deletes
    <3> QED
      BY <1>0, <3>5 DEF TellingStep
  <2> QED
    BY <1>3, <2>5, <2>6 DEF OnReadMatch, p
<1>4. CASE OnReadForwardThenClose(f)
  <2>1. PICK r \in Forward(f) :
          Crash \/ (OnClose(f, taskq, RemoveAll(r[2], fd[f]), r[1]) /\ EndEvent)
    BY <1>4 DEF OnReadForwardThenClose
  <2>2. Handling(f, "io", "in") /\ Subtable(RemoveAll(r[2], fd[f])) /\ PausesBut(r[1], f)
    BY <1>0, <1>4, <2>1, ForwardPolls, ForwardPauses, SubtableRemove DEF OnReadForwardThenClose
  <2> QED
    BY <1>0, <2>1, <2>2, EventDeletes, LoopTold
<1> QED
  BY <1>2, <1>3, <1>4

LEMMA TaskTold ==
    ASSUME IInv, PInv, UInv,
           \/ \E h \in Conn : TaskDrained(h)
           \/ \E f \in Frontend : TaskClosesFrontend(f) \/ TaskConnOk(f)
           \/ \E b \in Backend : TaskFrontendClose(b)
    PROVE  TellingStep
<1>0. todo > 0 => /\ Tail(taskq) \in Seq(Task) /\ taskq # <<>> /\ taskq \in Seq(Task)
                  /\ taskq[1] = Head(taskq) /\ 1 \in 1..Len(taskq)
  <2>1. todo > 0 => Tail(taskq) \in Seq(Task) /\ taskq # <<>> /\ taskq \in Seq(Task)
    BY Types, TailTasks
  <2> QED
    BY <2>1
<1>1. ASSUME NEW t, NEW h, RunsTask(t, h), t \notin {"backend_close", "backend_conn_fail"}
      PROVE  \A f \in Frontend : ~EndsAt(1, f, taskq)
  BY <1>0, <1>1 DEF RunsTask, EndsAt
<1>2. ASSUME NEW t, NEW h, RunsTask(t, h), t \notin {"backend_close", "backend_conn_fail"}, DropTask
      PROVE  TellingStep
  BY <1>1, <1>2, DropsTold DEF RunsTask
<1>3. ASSUME NEW h \in Conn, NEW p, Subtable(p), phase = "tasks", todo > 0, EndTask,
             NEW s, PausesBut(s, h), OnClose(h, Tail(taskq), p, s),
             \A f \in Frontend : EndsAt(1, f, taskq) => f = h
      PROVE  TellingStep
  BY <1>3, TaskDeletes
<1>4. Subtable(pd) /\ \A n : Subtable(RemoveAll(pd, n))
  BY SubtableSelf, SubtableRemove
<1>5. ASSUME NEW h \in Conn, TaskDrained(h) PROVE TellingStep
  <2>1. PICK t \in {"backend_send_buffer_drained", "frontend_send_buffer_drained"} : RunsTask(t, h)
    BY <1>5 DEF TaskDrained
  <2>2. phase = "tasks" /\ todo > 0 /\ \A f \in Frontend : ~EndsAt(1, f, taskq)
    BY <1>1, <2>1 DEF RunsTask
  <2>3. CASE /\ io[h].paused
             /\ pd' = AddEv(pd, fd[h], h, "io", {"r"})
             /\ io' = [io EXCEPT ![h].paused = FALSE]
             /\ taskq' = Tail(taskq) /\ EndTask
             /\ UNCHANGED <<st, peer, fd, req, frontend_active_n, backend_active_n>>
    <3>1. h \in Frontend => st[h] = "active_ok"
      BY <2>3 DEF UInv, PausedActive
    <3>2. PollsOnly({})
      BY <2>3, <3>1, MoreTypes DEF AddEv, Unpolled, PollsOnly
    <3>3. PausesOnly({})
      BY <2>3, MoreTypes, Types DEF IoState, PausesOnly
    <3>4. InTasks(<<>>)
      BY <2>2, <2>3, Shapes, SilentTasks DEF InTasks, EndTask
    <3> QED
      BY <2>2, <2>3, <3>2, <3>3, <3>4 DEF Rests, SameCounts, TellingStep
  <2>4. CASE DropTask
    BY <1>2, <2>1, <2>4
  <2>5. CASE Close(h, Tail(taskq)) /\ EndTask
    BY <1>3, <1>4, <2>2, <2>5, SamePauses DEF Close
  <2> QED
    BY <1>5, <2>3, <2>4, <2>5 DEF TaskDrained
<1>6. ASSUME NEW f \in Frontend, TaskClosesFrontend(f) PROVE TellingStep
  <2>1. Head(taskq).p = f /\ phase = "tasks" /\ todo > 0 /\ f \in Conn
    BY <1>6, Types DEF TaskClosesFrontend, RunsTask
  <2>2. \A g \in Frontend : EndsAt(1, g, taskq) => g = f
    BY <1>0, <2>1 DEF EndsAt
  <2> QED
    BY <1>3, <1>4, <1>6, <2>1, <2>2, SamePauses DEF TaskClosesFrontend, Close
<1>7. ASSUME NEW b \in Backend, TaskFrontendClose(b) PROVE TellingStep
  <2>1. RunsTask("frontend_close", b) /\ b \in Conn
    BY <1>7, Types DEF TaskFrontendClose
  <2>2. phase = "tasks" /\ todo > 0 /\ \A f \in Frontend : ~EndsAt(1, f, taskq)
    BY <1>1, <2>1 DEF RunsTask
  <2>3. CASE DropTask
    BY <1>2, <2>1, <2>3
  <2>4. CASE Close(b, Tail(taskq)) /\ EndTask
    BY <1>3, <1>4, <2>1, <2>2, <2>4, SamePauses DEF Close
  <2> QED
    BY <1>7, <2>3, <2>4 DEF TaskFrontendClose
<1>8. ASSUME NEW f \in Frontend, TaskConnOk(f) PROVE TellingStep
  <2>1. RunsTask("backend_conn_ok", f) /\ Live(f) /\ f \in Conn /\ f # None
    BY <1>8, Types DEF TaskConnOk
  <2>2. /\ phase = "tasks" /\ todo > 0 /\ \A g \in Frontend : ~EndsAt(1, g, taskq)
        /\ TellsAt(1, f, taskq)
    BY <1>0, <1>1, <2>1 DEF RunsTask, TellsAt
  <2>3. CASE DropTask
    BY <1>2, <2>1, <2>3
  <2>4. CASE ~DropTask
    <3>0. EndTask /\ peer[f] # None
      BY <1>8, <2>4 DEF TaskConnOk
    <3>1. PICK r \in IF req[f] = "saved" THEN Forward(f) ELSE {<<io, pd>>} :
           \/ /\ io' = r[1]
              /\ pd' = AddEv(r[2], fd[f], f, "io", {"r"})
              /\ st' = [st EXCEPT ![f] = "active_ok"]
              /\ req' = [req EXCEPT ![f] = "yes"]
              /\ frontend_active_n' = frontend_active_n + 1
              /\ taskq' = Tail(taskq) /\ UNCHANGED <<peer, fd, backend_active_n>>
           \/ OnClose(f, Tail(taskq), RemoveAll(r[2], fd[f]), r[1])
           \/ OnClose(f, Tail(taskq), r[2], r[1])
      BY <1>8, <2>4 DEF TaskConnOk
    <3>2. Subtable(r[2]) /\ \A x \in Conn : r[1][x].paused => io[x].paused \/ x = f
      BY <2>1, <3>1, ForwardPolls, SubtableSelf
    <3>6. PausesBut(r[1], f)
      BY <2>1, <3>1, ForwardPauses
    <3>3. CASE /\ io' = r[1]
               /\ pd' = AddEv(r[2], fd[f], f, "io", {"r"})
               /\ st' = [st EXCEPT ![f] = "active_ok"]
               /\ req' = [req EXCEPT ![f] = "yes"]
               /\ frontend_active_n' = frontend_active_n + 1
               /\ taskq' = Tail(taskq) /\ UNCHANGED <<peer, fd, backend_active_n>>
      <4>1. PollsOnly({f})
        <5> SUFFICES ASSUME NEW g \in Frontend \ {f}, Unpolled(pd, g) PROVE Unpolled(pd', g)
          BY DEF PollsOnly
        <5>1. Unpolled(r[2], g)
          BY <3>2, SubtableUnpolled, Types
        <5> QED
          BY <3>2, <3>3, <5>1 DEF AddEv, Unpolled, Subtable
      <4>2. PausesOnly({f})
        BY <3>2, <3>3, Types DEF PausesOnly
      <4>3. InTasks(<<>>)
        BY <2>2, <3>0, <3>3, Shapes, SilentTasks DEF InTasks, EndTask
      <4>4. Starts(f)
        BY <2>1, <2>2, <3>0, <3>3, <4>1, <4>2, <4>3 DEF Starts
      <4> QED
        BY <4>4 DEF TellingStep
    <3>4. CASE OnClose(f, Tail(taskq), RemoveAll(r[2], fd[f]), r[1])
      BY <1>3, <2>1, <2>2, <3>0, <3>2, <3>4, <3>6, SubtableRemove
    <3>5. CASE OnClose(f, Tail(taskq), r[2], r[1])
      BY <1>3, <2>1, <2>2, <3>0, <3>2, <3>5, <3>6
    <3> QED
      BY <3>1, <3>3, <3>4, <3>5
  <2> QED
    BY <2>3, <2>4
<1> QED
  BY <1>5, <1>6, <1>7, <1>8

LEMMA NextTold ==
    ASSUME IInv, PInv, UInv, FreeHasNoApp, [Next]_vars
    PROVE  TellingStep
BY LoopTold, IoEventTold, ConnectEventTold, FrontendEventTold, TaskTold DEF Next

----------------------------------------------------------------------------
(* Keeping who waits, pauses or times out                                  *)

\* Timers are called in the timer's event only.
LEMMA DueKept ==
    ASSUME IInv, UInv, [Next]_vars
    PROVE  DueConnects'
<1>0. DueConnects /\ TimerFd \notin Fd /\ ListenFd # TimerFd /\ due \subseteq Conn
      /\ \A b \in Backend : b \in Conn /\ b \notin Frontend
  BY ConstantsAssumption, Pairs, IInvParts DEF UInv, LoopTypes
<1>1. CASE due' = {} \/ phase' = "crashed"
  BY <1>1 DEF DueConnects
<1>2. CASE UNCHANGED <<st, cur, phase>> /\ due' \subseteq due
  BY <1>0, <1>2 DEF DueConnects
<1>3. CASE due' = due /\ (phase = "tasks" \/ (phase = "events" /\ (cur = None \/ cur.fd # TimerFd)))
  BY <1>0, <1>3 DEF DueConnects
<1>4. CASE NextEvent
  <2>1. PICK e \in ready : cur' = e /\ IF e.fd = TimerFd
           THEN due' \in SUBSET {h \in Conn : \/ h \in Backend /\ st[h] = "new_ok"
                                              \/ h \in Frontend /\ st[h] = "active_ok"}
           ELSE due' = due
    BY <1>4 DEF NextEvent
  <2>2. phase = "events" /\ phase' = "events" /\ cur = None /\ st' = st /\ e # None
    <3>1. None \notin Event
      BY NoneIsNoEvent
    <3> QED
      BY <1>4, <3>1, IInvParts DEF NextEvent, handlers, LoopTypes
  <2>3. due = {}
    BY <1>0, <2>2 DEF DueConnects
  <2> QED
    BY <1>0, <2>1, <2>2, <2>3 DEF DueConnects
<1>5. ASSUME NEW b \in Backend, ConnectTimeout(b) PROVE DueConnects'
  <2>1. /\ due' = due \ {b} /\ st' = [st EXCEPT ![b] = "free"] /\ phase' = phase /\ cur' = cur
    BY <1>5 DEF ConnectTimeout, ConnectFail
  <2>2. \A x \in Backend \ {b} : st'[x] = st[x]
    BY <1>0, <2>1, Types
  <2> QED
    BY <1>0, <2>1, <2>2 DEF DueConnects
<1>6. \/ NextEvent \/ \E b \in Backend : ConnectTimeout(b)
      \/ due' = {} \/ phase' = "crashed"
      \/ UNCHANGED <<st, cur, phase>> /\ due' \subseteq due
      \/ due' = due /\ (phase = "tasks" \/ (phase = "events" /\ (cur = None \/ cur.fd # TimerFd)))
  <2>1. EpollWait \/ LoopTop \/ Restart \/ StaleTask \/ TimerDone
        => \/ due' = {} \/ phase' = "crashed" \/ (due' = due /\ phase = "tasks")
           \/ (due' = due /\ phase = "events" /\ cur = None)
    BY DEF EpollWait, LoopTop, Restart, StaleTask, DropTask, EndTask, Crash, TimerDone, EndEvent
  <2>2. ASSUME IoEvent \/ (InEvent /\ cur.fd = ListenFd), due' = due
        PROVE  phase = "events" /\ cur.fd # TimerFd
    BY <1>0, <2>2 DEF IoEvent, InEvent
  <2>3. SkipEvent \/ AcceptDone
        => due' = due /\ phase = "events" /\ cur.fd # TimerFd
    BY <2>2 DEF SkipEvent, AcceptDone, EndEvent
  <2>4. \A h \in Conn : Events(h) \/ (h \in Frontend /\ (OnReadMatch(h) \/ OnReadForwardThenClose(h)))
                        \/ (h \in Backend /\ (OnConnectOk(h) \/ OnConnectFail(h)))
        => phase' = "crashed" \/ (due' = due /\ IoEvent)
    BY DEF Events, OnError, OnWrite, OnReadNothing, OnReadClose, OnReadForward, OnReadMatch,
           OnReadForwardThenClose, OnConnectOk, OnConnectFail, EndEvent, Crash, Handling
  <2>5. \A f \in Frontend : Accept(f) => due' = due /\ phase = "events" /\ cur.fd # TimerFd
    BY <2>2 DEF Accept, loop
  <2>6. \A f \in Frontend : FrontendInactive(f) => UNCHANGED <<st, cur, phase>> /\ due' \subseteq due
    BY DEF FrontendInactive, handlers
  <2>7. \A h \in Conn : TaskDrained(h) \/ (h \in Frontend /\ (TaskClosesFrontend(h) \/ TaskConnOk(h)))
                        \/ (h \in Backend /\ TaskFrontendClose(h))
        => due' = due /\ phase = "tasks"
    BY DEF TaskDrained, TaskClosesFrontend, TaskConnOk, TaskFrontendClose, RunsTask, DropTask,
           EndTask
  <2>8. UNCHANGED vars => UNCHANGED <<st, cur, phase>> /\ due' \subseteq due
    BY DEF vars
  <2>9. \A f \in Frontend : f \in Conn
    BY Types
  <2> QED
    BY <1>0, <2>1, <2>2, <2>3, <2>4, <2>5, <2>6, <2>7, <2>8, <2>9 DEF Next
<1> QED
  BY <1>1, <1>2, <1>3, <1>4, <1>5, <1>6

\* Everybody but h, and b, is as before.
LEMMA DeletesOthers ==
    ASSUME IInv, NEW h \in Conn, Deletes(h)
    PROVE  /\ st'[h] = "free" /\ ~io'[h].paused
           /\ \A x \in Conn \ {h} : /\ st'[x] = st[x] /\ (io'[x].paused => io[x].paused)
                                   /\ (x \in Frontend => req'[x] = req[x])
           /\ \A x \in Conn : peer'[x] # None => /\ x # h /\ peer'[x] = peer[x]
                                                /\ peer[x] \in Conn \ {h}
<1>1. peer' = Unlinked(h)
  BY DEF Deletes
<1>2. /\ st'[h] = "free" /\ ~io'[h].paused
      /\ \A x \in Conn \ {h} : /\ st'[x] = st[x] /\ (io'[x].paused => io[x].paused)
                              /\ (x \in Frontend => req'[x] = req[x])
  BY Types, MoreTypes DEF Deletes, FreshIo, PausesBut
<1>3. \A x \in Conn : peer'[x] # None => x # h /\ peer'[x] = peer[x] /\ peer[x] \in Conn \ {h}
  BY <1>1, Types, UnlinkedLinks
<1> QED
  BY <1>2, <1>3

LEMMA JoinsOthers ==
    ASSUME IInv, NEW f \in Frontend, NEW b \in Backend, Joins(f, b)
    PROVE  /\ f \in Conn /\ b \in Conn /\ f # b /\ b \notin Frontend /\ peer[f] = None
           /\ st'[f] = "conn_ok" /\ st'[b] \in {"new_ok", "active_ok"}
           /\ peer'[f] = b /\ req'[f] \in {"saved", "yes"}
           /\ \A x \in Conn \ {f, b} : /\ st'[x] = st[x] /\ peer'[x] = peer[x]
                                      /\ (x \in Frontend => req'[x] = req[x])
           /\ \A x \in Conn \ {f, b} : peer[x] # None => peer[x] \in Conn \ {f, b}
<1>1. /\ f \in Conn /\ b \in Conn /\ f # b /\ b \notin Frontend /\ peer[f] = None
      /\ \A x \in Conn : peer[x] # b /\ peer[x] # f
  BY Pairs, Types, NotLinkedYet DEF Joins, IInv, LinkSymmetry, Live, LiveState
<1>2. /\ st'[f] = "conn_ok" /\ st'[b] \in {"new_ok", "active_ok"}
      /\ peer'[f] = b /\ req'[f] \in {"saved", "yes"}
  BY <1>1, Types DEF Joins
<1>3. \A x \in Conn \ {f, b} : /\ st'[x] = st[x] /\ peer'[x] = peer[x]
                               /\ (x \in Frontend => req'[x] = req[x])
  BY <1>1, Types DEF Joins
<1>4. \A x \in Conn \ {f, b} : peer[x] # None => peer[x] \in Conn \ {f, b}
  BY <1>1, Types
<1> QED
  BY <1>1, <1>2, <1>3, <1>4

\* Who is deleted, connected or told.
LEMMA UKept ==
    ASSUME IInv, PInv, UInv, FreeHasNoApp, TellingStep, DueConnects'
    PROVE  UInv'
<1>0. WaitsUnpolled /\ PausedActive /\ ActiveServes /\ \A f \in Frontend : f \in Conn /\ f # None
  BY Types DEF UInv
<1>1. CASE Rests
  <2>1. UNCHANGED <<st, req>> /\ PollsOnly({}) /\ PausesOnly({})
    BY <1>1 DEF Rests
  <2>2. WaitsUnpolled'
    <3>1. \A f \in Frontend : st'[f] = "conn_ok" /\ req'[f] # "no" => Unpolled(pd', f)
      BY <1>0, <2>1 DEF WaitsUnpolled, PollsOnly
    <3> QED
      BY <3>1 DEF WaitsUnpolled, Unpolled
  <2> QED
    BY <1>0, <2>1, <2>2 DEF UInv, PausedActive, ActiveServes, PausesOnly
<1>2. ASSUME NEW h \in Conn, Deletes(h) PROVE UInv'
  <2>1. PollsOnly({})
    BY <1>2 DEF Deletes
  <2>2. WaitsUnpolled'
    <3>1. \A f \in Frontend : st'[f] = "conn_ok" /\ req'[f] # "no" => Unpolled(pd', f)
      BY <1>0, <1>2, <2>1, DeletesOthers DEF WaitsUnpolled, PollsOnly
    <3> QED
      BY <3>1 DEF WaitsUnpolled, Unpolled
  <2>3. PausedActive' /\ ActiveServes'
    BY <1>0, <1>2, DeletesOthers DEF PausedActive, ActiveServes
  <2> QED
    BY <2>2, <2>3 DEF UInv
<1>3. ASSUME NEW b \in Backend, Establishes(b) PROVE UInv'
  <2>1. /\ PollsOnly({}) /\ UNCHANGED <<req, io>>
        /\ \A f \in Frontend : st'[f] = st[f]
    BY <1>0, <1>3, Types DEF Establishes
  <2>2. WaitsUnpolled'
    <3>1. \A f \in Frontend : st'[f] = "conn_ok" /\ req'[f] # "no" => Unpolled(pd', f)
      BY <1>0, <2>1 DEF WaitsUnpolled, PollsOnly
    <3> QED
      BY <3>1 DEF WaitsUnpolled, Unpolled
  <2> QED
    BY <1>0, <2>1, <2>2 DEF UInv, PausedActive, ActiveServes
<1>4. ASSUME NEW f \in Frontend, NEW b \in Backend, Joins(f, b) PROVE UInv'
  <2>1. PollsOnly({}) /\ UNCHANGED io /\ Unpolled(pd', f) /\ (st[f] = "free" \/ req[f] = "no")
    BY <1>4 DEF Joins
  <2>2. WaitsUnpolled'
    <3>1. \A g \in Frontend : st'[g] = "conn_ok" /\ req'[g] # "no" => Unpolled(pd', g)
      BY <1>0, <1>4, <2>1, JoinsOthers DEF WaitsUnpolled, PollsOnly
    <3> QED
      BY <3>1 DEF WaitsUnpolled, Unpolled
  <2>3. PausedActive' /\ ActiveServes'
    BY <1>0, <1>4, <2>1, JoinsOthers DEF PausedActive, ActiveServes
  <2> QED
    BY <2>2, <2>3 DEF UInv
<1>5. ASSUME NEW f \in Frontend, Arrives(f) PROVE UInv'
  <2>1. /\ PollsOnly({f}) /\ UNCHANGED <<io, req>> /\ st[f] = "free" /\ req[f] = "no"
        /\ st'[f] = "conn_ok" /\ \A g \in Frontend \ {f} : st'[g] = st[g]
    BY <1>0, <1>5, Types DEF Arrives, FreeHasNoApp, Live, LiveState
  <2>2. WaitsUnpolled'
    <3>1. \A g \in Frontend : st'[g] = "conn_ok" /\ req'[g] # "no" => Unpolled(pd', g)
      BY <1>0, <2>1 DEF WaitsUnpolled, PollsOnly
    <3> QED
      BY <3>1 DEF WaitsUnpolled, Unpolled
  <2>3. PausedActive' /\ ActiveServes'
    BY <1>0, <2>1 DEF PausedActive, ActiveServes
  <2> QED
    BY <2>2, <2>3 DEF UInv
<1>6. ASSUME NEW f \in Frontend, Starts(f) PROVE UInv'
  <2>1. /\ PollsOnly({f}) /\ PausesOnly({f})
        /\ st'[f] = "active_ok" /\ req'[f] = "yes"
        /\ \A g \in Frontend \ {f} : st'[g] = st[g] /\ req'[g] = req[g]
    BY <1>0, <1>6, Types DEF Starts
  <2>2. WaitsUnpolled'
    <3>1. \A g \in Frontend : st'[g] = "conn_ok" /\ req'[g] # "no" => Unpolled(pd', g)
      BY <1>0, <2>1 DEF WaitsUnpolled, PollsOnly
    <3> QED
      BY <3>1 DEF WaitsUnpolled, Unpolled
  <2>3. PausedActive' /\ ActiveServes'
    BY <1>0, <2>1 DEF PausedActive, ActiveServes, PausesOnly
  <2> QED
    BY <2>2, <2>3 DEF UInv
<1>7. CASE StartsOver
  BY <1>0, <1>7 DEF StartsOver, UInv, WaitsUnpolled, PausedActive, ActiveServes, FreshIo
<1> QED
  BY <1>1, <1>2, <1>3, <1>4, <1>5, <1>6, <1>7 DEF TellingStep

----------------------------------------------------------------------------
(* The counters                                                            *)

Active(S) == {x \in S : st[x] = "active_ok"}

CountsExact == /\ frontend_active_n = Cardinality(Active(Frontend))
               /\ backend_active_n = Cardinality(Active(Backend))

LEMMA ActiveFinite ==
    /\ IsFiniteSet(Active(Frontend)) /\ IsFiniteSet(Active(Backend))
    /\ Cardinality(Active(Frontend)) \in Nat /\ Cardinality(Active(Backend)) \in Nat
<1>1. Active(Frontend) \subseteq Frontend /\ Active(Backend) \subseteq Backend
  BY DEF Active
<1>2. IsFiniteSet(Active(Frontend)) /\ IsFiniteSet(Active(Backend))
  BY <1>1, FiniteMemory, FS_Subset
<1> QED
  BY <1>2, FS_CardinalityType

\* The steps count whom they make active, and whom they delete while it is active.
LEMMA CountsKept ==
    ASSUME IInv, UInv, CountsExact, TellingStep,
           \A f \in Frontend : TellsAt(1, f, taskq) /\ phase = "tasks" => st[f] # "active_ok"
    PROVE  CountsExact'
<1>0. /\ \A f \in Frontend : f \in Conn /\ f \notin Backend
      /\ \A b \in Backend : b \in Conn /\ b \notin Frontend
      /\ frontend_active_n \in Nat /\ backend_active_n \in Nat
  BY Pairs, ActiveFinite DEF CountsExact
<1>1. CASE Rests
  BY <1>1 DEF Rests, SameCounts, CountsExact, Active
<1>2. ASSUME NEW h \in Conn, Deletes(h) PROVE CountsExact'
  <2>1. Active(Frontend)' = Active(Frontend) \ {h} /\ Active(Backend)' = Active(Backend) \ {h}
    BY <1>0, <1>2, DeletesOthers DEF Active
  <2>2. /\ frontend_active_n' = frontend_active_n - IF h \in Frontend THEN IsActive(h) ELSE 0
        /\ backend_active_n' = backend_active_n - IF h \in Backend THEN IsActive(h) ELSE 0
    BY <1>2 DEF Deletes
  <2>3. /\ Cardinality(Active(Frontend) \ {h}) =
              IF h \in Active(Frontend) THEN frontend_active_n - 1 ELSE frontend_active_n
        /\ Cardinality(Active(Backend) \ {h}) =
              IF h \in Active(Backend) THEN backend_active_n - 1 ELSE backend_active_n
    BY ActiveFinite, FS_RemoveElement DEF CountsExact
  <2>4. /\ h \in Active(Frontend) <=> h \in Frontend /\ IsActive(h) = 1
        /\ h \in Active(Backend) <=> h \in Backend /\ IsActive(h) = 1
        /\ IsActive(h) \in {0, 1}
    BY DEF Active, IsActive
  <2> QED
    BY <1>0, <2>1, <2>2, <2>3, <2>4 DEF CountsExact
<1>3. ASSUME NEW f \in Frontend, Active(Frontend)' = Active(Frontend) \cup {f},
             f \notin Active(Frontend), frontend_active_n' = frontend_active_n + 1
      PROVE  frontend_active_n' = Cardinality(Active(Frontend)')
  BY <1>3, ActiveFinite, FS_AddElement DEF CountsExact
<1>4. ASSUME NEW b \in Backend, Active(Backend)' = Active(Backend) \cup {b},
             b \notin Active(Backend), backend_active_n' = backend_active_n + 1
      PROVE  backend_active_n' = Cardinality(Active(Backend)')
  BY <1>4, ActiveFinite, FS_AddElement DEF CountsExact
<1>5. ASSUME NEW b \in Backend, Establishes(b) PROVE CountsExact'
  <2>1. /\ Active(Backend)' = Active(Backend) \cup {b} /\ b \notin Active(Backend)
        /\ Active(Frontend)' = Active(Frontend)
    BY <1>0, <1>5, Types DEF Establishes, Active
  <2>2. backend_active_n' = backend_active_n + 1 /\ frontend_active_n' = frontend_active_n
    BY <1>5 DEF Establishes
  <2> QED
    BY <1>4, <2>1, <2>2 DEF CountsExact
<1>6. ASSUME NEW f \in Frontend, NEW b \in Backend, Joins(f, b) PROVE CountsExact'
  <2>1. st[f] # "active_ok" /\ st[b] = "free" /\ frontend_active_n' = frontend_active_n
    BY <1>6 DEF Joins, UInv, ActiveServes
  <2>2. Active(Frontend)' = Active(Frontend)
    BY <1>0, <1>6, <2>1, JoinsOthers DEF Active
  <2>3. CASE st'[b] = "new_ok"
    <3>1. Active(Backend)' = Active(Backend)
      BY <1>0, <1>6, <2>1, <2>3, JoinsOthers DEF Active
    <3>2. backend_active_n' = backend_active_n
      BY <1>0, <1>6, <2>3, Types DEF Joins
    <3> QED
      BY <2>1, <2>2, <3>1, <3>2 DEF CountsExact
  <2>4. CASE st'[b] = "active_ok"
    <3>1. Active(Backend)' = Active(Backend) \cup {b} /\ b \notin Active(Backend)
      BY <1>0, <1>6, <2>1, <2>4, JoinsOthers DEF Active
    <3>2. backend_active_n' = backend_active_n + 1
      BY <1>0, <1>6, <2>4, Types DEF Joins
    <3> QED
      BY <1>4, <2>1, <2>2, <3>1, <3>2 DEF CountsExact
  <2> QED
    BY <1>6, <2>3, <2>4, JoinsOthers
<1>7. ASSUME NEW f \in Frontend, Arrives(f) PROVE CountsExact'
  <2>1. Active(Frontend)' = Active(Frontend) /\ Active(Backend)' = Active(Backend)
    BY <1>0, <1>7, Types DEF Arrives, Active
  <2> QED
    BY <1>7, <2>1 DEF Arrives, SameCounts, CountsExact
<1>8. ASSUME NEW f \in Frontend, Starts(f) PROVE CountsExact'
  <2>1. TellsAt(1, f, taskq) /\ phase = "tasks" /\ st' = [st EXCEPT ![f] = "active_ok"]
        /\ frontend_active_n' = frontend_active_n + 1 /\ backend_active_n' = backend_active_n
    BY <1>8 DEF Starts, InTasks
  <2>2. /\ Active(Frontend)' = Active(Frontend) \cup {f} /\ f \notin Active(Frontend)
        /\ Active(Backend)' = Active(Backend)
    BY <1>0, <2>1, Types DEF Active
  <2> QED
    BY <1>3, <2>1, <2>2 DEF CountsExact
<1>9. CASE StartsOver
  <2>1. Active(Frontend)' = {} /\ Active(Backend)' = {}
    BY <1>0, <1>9 DEF StartsOver, Active
  <2> QED
    BY <1>9, <2>1, FS_EmptySet DEF StartsOver, CountsExact
<1> QED
  BY <1>1, <1>2, <1>5, <1>6, <1>7, <1>8, <1>9 DEF TellingStep

----------------------------------------------------------------------------
(* Keeping the notices apart                                               *)

\* f waits, out of the poller, to be told of a backend that is connected.
Waits(f) == /\ st[f] = "conn_ok" /\ req[f] # "no" /\ Unpolled(pd, f)
            /\ peer[f] # None => st[peer[f]] = "active_ok"

\* Between two notices to a frontend there is a task that closes it, and all notices are
\* given in the round of tasks that follows their event.
NoticesApart ==
    /\ \A f \in Frontend : Apart(f, taskq)
    /\ phase = "tasks" => \A f \in Frontend, i \in 1..Len(taskq) : TellsAt(i, f, taskq) => i <= todo

\* Who is active is closed before a notice reaches it.
ActiveIsOld ==
    \A f \in Frontend : st[f] = "active_ok" =>
        EndsFirst(f, taskq) /\ (phase = "events" => ~Tells(f, taskq))

\* Who has a notice coming waits for it.
ToldWaits ==
    phase = "events" =>
        \A f \in Frontend : Open(f, taskq) \/ (NoLateFailure /\ Tells(f, taskq)) => Waits(f)

\* Whoever is told, or reads, has a backend that is connected.
ToldConnected ==
    NoLateFailure =>
        \A f \in Frontend : (Tells(f, taskq) \/ st[f] = "active_ok") /\ peer[f] # None
            => st[peer[f]] = "active_ok"

TInv == NoticesApart /\ ActiveIsOld /\ ToldWaits /\ ToldConnected

\* The queue of a step that pushes no notice.
LEMMA QueueSilent ==
    ASSUME IInv, TInv, NEW s, Silent(s), InEvents(s) \/ InTasks(s)
    PROVE  /\ NoticesApart'
           /\ \A f \in Frontend :
                 /\ Tells(f, taskq') => Tells(f, taskq)
                 /\ phase' = "events" /\ Open(f, taskq') => Open(f, taskq)
                 /\ /\ EndsFirst(f, taskq)
                    /\ phase' = "tasks" => ~EndsAt(1, f, taskq)
                    => EndsFirst(f, taskq')
<1>1. taskq \in Seq(Task) /\ s \in Seq(Task) /\ (\A f : ~Tells(f, s))
      /\ (\A f : \A i \in 1..Len(s) : ~TellsAt(i, f, s))
  BY Types DEF Silent, Tells, TellsAt
<1>2. CASE InEvents(s)
  <2>1. phase = "events" /\ phase' = "events" /\ taskq' = taskq \o s
    BY <1>2 DEF InEvents
  <2>2. \A f : /\ Apart(f, taskq) => Apart(f, taskq')
               /\ Open(f, taskq') => Open(f, taskq)
               /\ Tells(f, taskq') => Tells(f, taskq)
               /\ EndsFirst(f, taskq) => EndsFirst(f, taskq')
    BY <1>1, <2>1, Pushed
  <2> QED
    BY <2>1, <2>2 DEF TInv, NoticesApart
<1>3. CASE InTasks(s)
  <2> DEFINE q == Tail(taskq)
  <2>1. phase = "tasks" /\ phase' = "tasks" /\ todo > 0 /\ todo' = todo - 1 /\ taskq' = q \o s
    BY <1>3 DEF InTasks
  <2>2. q \in Seq(Task) /\ taskq # <<>> /\ todo \in Nat
    BY <2>1, TailTasks, IInvParts DEF LoopTypes
  <2>3. \A f : /\ Apart(f, taskq) => Apart(f, q)
               /\ Tells(f, q) => Tells(f, taskq)
               /\ EndsFirst(f, taskq) /\ ~EndsAt(1, f, taskq) => EndsFirst(f, q)
               /\ (\A i \in 1..Len(taskq) : TellsAt(i, f, taskq) => i <= todo)
                     => \A i \in 1..Len(q) : TellsAt(i, f, q) => i <= todo - 1
    BY <1>1, <2>2, Popped
  <2> HIDE DEF q
  <2>4. \A f : /\ Apart(f, q) => Apart(f, taskq')
               /\ Tells(f, taskq') => Tells(f, q)
               /\ EndsFirst(f, q) => EndsFirst(f, taskq')
    BY <1>1, <2>1, <2>2, Pushed
  <2>5. ASSUME NEW f \in Frontend, NEW i \in 1..Len(taskq'), TellsAt(i, f, taskq')
        PROVE  i <= todo'
    <3>1. TellsAt(i, f, q)
      <4>1. \A j \in Nat : TellsAt(j, f, q \o s) =>
                TellsAt(j, f, q) \/ (j > Len(q) /\ TellsAt(j - Len(q), f, s))
        BY <1>1, <2>2, Behind
      <4>2. \A j : TellsAt(j, f, s) => j \in 1..Len(s)
        BY DEF TellsAt
      <4>3. i \in Nat
        BY <1>1, <2>1, <2>2
      <4> QED
        BY <1>1, <2>1, <2>5, <4>1, <4>2, <4>3
    <3>2. i \in 1..Len(q)
      BY <3>1 DEF TellsAt
    <3>3. \A j \in 1..Len(taskq) : TellsAt(j, f, taskq) => j <= todo
      BY <2>1 DEF TInv, NoticesApart
    <3> QED
      BY <2>1, <2>3, <3>1, <3>2, <3>3
  <2>6. NoticesApart'
    BY <2>3, <2>4, <2>5 DEF TInv, NoticesApart
  <2> QED
    BY <2>1, <2>3, <2>4, <2>6
<1> QED
  BY <1>2, <1>3

\* The queue of a step that pushes a notice to g, which waited for none.
LEMMA QueueTold ==
    ASSUME IInv, TInv, NEW g \in Frontend, ~Open(g, taskq), NEW s, Silent(s),
           InEvents(Told(g) \o s)
    PROVE  /\ NoticesApart'
           /\ \A f \in Frontend :
                 /\ Tells(f, taskq') => Tells(f, taskq) \/ f = g
                 /\ Open(f, taskq') => (Open(f, taskq) \/ f = g) /\ ~Ends(f, Told(g) \o s)
                 /\ EndsFirst(f, taskq) /\ f # g => EndsFirst(f, taskq')
<1> DEFINE r == Told(g) \o s
<1>1. taskq \in Seq(Task) /\ s \in Seq(Task) /\ Told(g) \in Seq(Task)
  BY Types, Shapes DEF Silent
<1>2. r \in Seq(Task) /\ Len(r) = Len(s) + 1 /\ Len(s) \in Nat /\ r[1] = T("backend_conn_ok", g)
      /\ \A i \in 1..Len(r) : i > 1 => i - 1 \in 1..Len(s) /\ r[i] = s[i - 1]
  BY <1>1 DEF Told
<1>3. phase = "events" /\ phase' = "events" /\ taskq' = taskq \o r
  BY DEF InEvents
<1> HIDE DEF r
<1>4. \A f : \A i \in 1..Len(r) : TellsAt(i, f, r) => i = 1 /\ f = g
  BY <1>2 DEF TellsAt, Silent, T
<1>5. \A f : /\ Apart(f, taskq) => Apart(f, taskq')
             /\ Open(f, taskq') => (Open(f, taskq) \/ Tells(f, r)) /\ ~Ends(f, r)
             /\ Tells(f, taskq') => Tells(f, taskq) \/ Tells(f, r)
             /\ EndsFirst(f, taskq) /\ ~Tells(f, r) => EndsFirst(f, taskq')
  BY <1>1, <1>2, <1>3, <1>4, Pushed
<1>6. \A f : Tells(f, r) => f = g
  BY <1>4 DEF Tells
<1>7. \A f : /\ Tells(f, taskq') => Tells(f, taskq) \/ f = g
             /\ Open(f, taskq') => (Open(f, taskq) \/ f = g) /\ ~Ends(f, Told(g) \o s)
             /\ EndsFirst(f, taskq) /\ f # g => EndsFirst(f, taskq')
  BY <1>5, <1>6 DEF r
<1> QED
  BY <1>3, <1>5, <1>7 DEF TInv, NoticesApart

LEMMA SyncFailTold ==
    ASSUME IInv, NEW f \in Frontend
    PROVE  \E s : Silent(s) /\ SyncFailTasks(f) = Told(f) \o s /\ Ends(f, SyncFailTasks(f))
<1> DEFINE s == <<T("backend_close", f)>>
<1>1. T("backend_close", f) \in Task /\ T("backend_close", f).type = "backend_close"
      /\ T("backend_close", f).p = f
  BY DEF T, Task
<1>2. Silent(s)
  BY <1>1 DEF Silent
<1>3. SyncFailTasks(f) = Told(f) \o s
  BY DEF SyncFailTasks, Told
<1>4. EndsAt(2, f, SyncFailTasks(f)) /\ 2 \in 1..Len(SyncFailTasks(f))
  BY <1>1 DEF EndsAt, SyncFailTasks
<1>5. Ends(f, SyncFailTasks(f))
  BY <1>4 DEF Ends
<1> QED
  BY <1>2, <1>3, <1>5

\* Steps that change no life.
LEMMA RestsTold ==
    ASSUME IInv, TInv, Rests, NoLateFailure' <=> NoLateFailure
    PROVE  TInv'
<1>0. /\ UNCHANGED <<st, peer, req>> /\ PollsOnly({})
      /\ \A f \in Frontend : Waits(f) => Unpolled(pd', f)
  BY DEF Rests, PollsOnly, Waits
<1>1. \A f \in Frontend : Waits(f) => Waits(f)'
  <2>1. \A f \in Frontend : Waits(f) =>
            /\ st'[f] = "conn_ok" /\ req'[f] # "no" /\ Unpolled(pd', f)
            /\ peer'[f] # None => st'[peer'[f]] = "active_ok"
    BY <1>0 DEF Waits
  <2> QED
    BY <2>1 DEF Waits, Unpolled
<1>2. ASSUME NoticesApart',
             \A f \in Frontend :
                 /\ Tells(f, taskq') => Tells(f, taskq) \/ ~NoLateFailure
                 /\ st[f] = "active_ok" =>
                       EndsFirst(f, taskq') /\ (phase' = "events" => ~Tells(f, taskq'))
                 /\ phase' = "events" /\ (Open(f, taskq') \/ (NoLateFailure /\ Tells(f, taskq')))
                       => Waits(f)
      PROVE  TInv'
  <2>1. ActiveIsOld'
    BY <1>0, <1>2 DEF ActiveIsOld
  <2>2. ToldWaits'
    BY <1>1, <1>2 DEF ToldWaits
  <2>3. ToldConnected'
    BY <1>0, <1>2 DEF TInv, ToldConnected
  <2> QED
    BY <1>2, <2>1, <2>2, <2>3 DEF TInv
<1>3. CASE LoopGoes
  <2>1. taskq' = taskq
    BY <1>3 DEF LoopGoes
  <2>2. phase = "tasks" /\ todo = 0 => \A f \in Frontend : ~Tells(f, taskq) /\ ~Open(f, taskq)
    BY DEF TInv, NoticesApart, Tells, TellsAt, Open
  <2>3. NoticesApart'
    BY <1>3, <2>1 DEF TInv, NoticesApart, LoopGoes, TellsAt
  <2>4. phase' = "events" => phase = "events" \/ (phase = "tasks" /\ todo = 0)
    BY <1>3 DEF LoopGoes
  <2> QED
    BY <1>2, <2>1, <2>2, <2>3, <2>4 DEF TInv, ActiveIsOld, ToldWaits
<1>4. ASSUME NEW s, Silent(s), InEvents(s) PROVE TInv'
  <2>1. phase = "events" /\ phase' = "events"
    BY <1>4 DEF InEvents
  <2> QED
    BY <1>2, <1>4, <2>1, QueueSilent DEF TInv, ActiveIsOld, ToldWaits
<1>5. ASSUME NEW g \in Frontend, st[g] = "free", InEvents(SyncFailTasks(g)), ~NoLateFailure
      PROVE  TInv'
  <2>0. phase = "events" /\ phase' = "events"
    BY <1>5 DEF InEvents
  <2>1. ~Open(g, taskq)
    BY <1>5, <2>0 DEF TInv, ToldWaits, Waits
  <2>2. PICK s : Silent(s) /\ SyncFailTasks(g) = Told(g) \o s /\ Ends(g, SyncFailTasks(g))
    BY SyncFailTold
  <2>3. /\ NoticesApart'
        /\ \A f \in Frontend :
              /\ Tells(f, taskq') => Tells(f, taskq) \/ f = g
              /\ Open(f, taskq') => Open(f, taskq)
              /\ EndsFirst(f, taskq) /\ f # g => EndsFirst(f, taskq')
    BY <1>5, <2>1, <2>2, QueueTold
  <2> QED
    BY <1>2, <1>5, <2>0, <2>3 DEF TInv, ActiveIsOld, ToldWaits
<1>6. CASE InTasks(<<>>) /\ \A f \in Frontend : EndsAt(1, f, taskq) => st[f] # "active_ok"
  <2>1. phase' = "tasks" /\ Silent(<<>>)
    BY <1>6 DEF InTasks
  <2>2. /\ NoticesApart'
        /\ \A f \in Frontend :
              /\ Tells(f, taskq') => Tells(f, taskq)
              /\ st[f] = "active_ok" => EndsFirst(f, taskq')
    BY <1>6, <2>1, QueueSilent DEF TInv, ActiveIsOld
  <2> QED
    BY <1>2, <2>1, <2>2
<1> QED
  BY <1>3, <1>4, <1>5, <1>6 DEF Rests

\* h is deleted.
LEMMA DeletesTold ==
    ASSUME IInv, UInv, TInv, NoLateFailure' <=> NoLateFailure, NEW h \in Conn, Deletes(h)
    PROVE  TInv'
<1>0. /\ \A f \in Frontend : f \in Conn /\ f # None /\ f \notin Backend
      /\ \A f \in Frontend : peer[f] # None => peer[f] \in Backend /\ peer[peer[f]] = f
      /\ \A b \in Backend : peer[b] # None => peer[b] \in Frontend /\ peer[peer[b]] = b
                                              /\ req[peer[b]] # "no"
  BY Pairs
<1>1. \A f \in Frontend \ {h} : Waits(f) => Waits(f)'
  <2> SUFFICES ASSUME NEW f \in Frontend \ {h}, Waits(f) PROVE Waits(f)'
    OBVIOUS
  <2>1. /\ st[f] = "conn_ok" /\ req[f] # "no" /\ Unpolled(pd, f)
        /\ peer[f] # None => st[peer[f]] = "active_ok"
    BY DEF Waits
  <2>2. st'[f] = "conn_ok" /\ req'[f] # "no"
    BY <1>0, <2>1, DeletesOthers
  <2>3. peer'[f] # None => st'[peer'[f]] = "active_ok"
    BY <1>0, <2>1, DeletesOthers
  <2>4. Unpolled(pd', f)
    BY <2>1 DEF Deletes, PollsOnly
  <2> QED
    BY <2>2, <2>3, <2>4 DEF Waits, Unpolled
<1>2. ASSUME NoticesApart',
             \A f \in Frontend \ {h} :
                 /\ Tells(f, taskq') => Tells(f, taskq) \/ ~NoLateFailure \/ peer'[f] = None
                 /\ st[f] = "active_ok" =>
                       EndsFirst(f, taskq') /\ (phase' = "events" => ~Tells(f, taskq'))
                 /\ phase' = "events" /\ (Open(f, taskq') \/ (NoLateFailure /\ Tells(f, taskq')))
                       => Waits(f)',
             phase' = "events" => ~Open(h, taskq') /\ (NoLateFailure => ~Tells(h, taskq'))
      PROVE  TInv'
  <2>1. ActiveIsOld'
    BY <1>0, <1>2, DeletesOthers DEF ActiveIsOld
  <2>2. ToldWaits'
    BY <1>2 DEF ToldWaits
  <2>3. ToldConnected'
    BY <1>0, <1>2, DeletesOthers DEF TInv, ToldConnected
  <2> QED
    BY <1>2, <2>1, <2>2, <2>3 DEF TInv
<1>3. ASSUME NEW s, Silent(s), InEvents(s), h \in Frontend => req[h] = "no" \/ ~Unpolled(pd, h)
      PROVE  TInv'
  <2>1. phase = "events" /\ phase' = "events"
    BY <1>3 DEF InEvents
  <2>2. ~Open(h, taskq) /\ (NoLateFailure => ~Tells(h, taskq))
    <3>1. h \notin Frontend => ~Open(h, taskq) /\ ~Tells(h, taskq)
      BY Types DEF Open, Tells, TellsAt, Task
    <3>2. h \in Frontend => ~Waits(h)
      BY <1>3 DEF Waits
    <3> QED
      BY <2>1, <3>1, <3>2 DEF TInv, ToldWaits
  <2>3. /\ NoticesApart'
        /\ \A f \in Frontend :
                 /\ Tells(f, taskq') => Tells(f, taskq)
                 /\ Open(f, taskq') => Open(f, taskq)
                 /\ EndsFirst(f, taskq) => EndsFirst(f, taskq')
    BY <1>3, <2>1, QueueSilent
  <2>4. h \notin Frontend => ~Open(h, taskq') /\ ~Tells(h, taskq')
    <3>1. taskq' \in Seq(Task)
      BY <1>3, Types DEF InEvents, Silent
    <3> QED
      BY <1>0, <3>1 DEF Open, Tells, TellsAt, Task
  <2> QED
    BY <1>1, <1>2, <2>1, <2>2, <2>3, <2>4 DEF TInv, ActiveIsOld, ToldWaits
<1>4. ASSUME NEW g \in Frontend, ~Open(g, taskq), NEW s, Silent(s), InEvents(Told(g) \o s)
      PROVE  /\ NoticesApart' /\ phase = "events" /\ phase' = "events"
             /\ \A f \in Frontend \ {g} :
                 /\ Tells(f, taskq') => Tells(f, taskq)
                 /\ Open(f, taskq') => Open(f, taskq)
                 /\ EndsFirst(f, taskq) => EndsFirst(f, taskq')
             /\ Open(g, taskq') => ~Ends(g, Told(g) \o s)
  BY <1>4, QueueTold DEF InEvents
<1>5. ASSUME h \in Backend, st[h] = "new_ok", peer[h] # None, st[peer[h]] = "conn_ok",
             NEW s, Silent(s), InEvents(Told(peer[h]) \o s)
      PROVE  TInv'
  <2>. PICK g \in Frontend : g = peer[h]
    BY <1>0, <1>5
  <2>0. g \in Frontend /\ peer[g] = h /\ h \notin Frontend /\ req[g] # "no" /\ g # h /\ g # None
        /\ h # None
    BY <1>0, <1>5, Types
  <2>1. ~Waits(g) /\ Unpolled(pd, g)
    BY <1>5, <2>0 DEF Waits, UInv, WaitsUnpolled
  <2>2. phase = "events" /\ ~Open(g, taskq)
    BY <1>5, <2>0, <2>1 DEF TInv, ToldWaits, InEvents
  <2>3. /\ NoticesApart' /\ phase' = "events"
        /\ \A f \in Frontend \ {g} :
                 /\ Tells(f, taskq') => Tells(f, taskq)
                 /\ Open(f, taskq') => Open(f, taskq)
                 /\ EndsFirst(f, taskq) => EndsFirst(f, taskq')
    BY <1>4, <1>5, <2>0, <2>2
  <2>4. Waits(g)' /\ peer'[g] = None
    <3>1. peer'[g] = None
      BY <1>0, <2>0, DeletesOthers
    <3>2. st'[g] = "conn_ok" /\ req'[g] # "no"
      BY <1>0, <1>5, <2>0, DeletesOthers
    <3>3. Unpolled(pd', g)
      BY <1>5, <2>0, <2>1 DEF Deletes, PollsOnly
    <3> QED
      BY <3>1, <3>2, <3>3 DEF Waits, Unpolled
  <2>5. ~Open(h, taskq') /\ ~Tells(h, taskq')
    <3>1. Told(g) \in Seq(Task)
      BY <2>0, Shapes
    <3>2. taskq' \in Seq(Task)
      BY <1>5, <3>1, Types DEF InEvents, Silent
    <3> QED
      BY <2>0, <3>2 DEF Open, Tells, TellsAt, Task
  <2>6. st[g] # "active_ok"
    BY <1>5
  <2> QED
    BY <1>1, <1>2, <2>2, <2>3, <2>4, <2>5, <2>6 DEF TInv, ActiveIsOld, ToldWaits
<1>6. ASSUME ~NoLateFailure, h \in Frontend, req[h] = "no", InEvents(SyncFailTasks(h))
      PROVE  TInv'
  <2>0. phase = "events" /\ phase' = "events"
    BY <1>6 DEF InEvents
  <2>1. ~Open(h, taskq)
    BY <1>6, <2>0 DEF TInv, ToldWaits, Waits
  <2>2. PICK s : Silent(s) /\ SyncFailTasks(h) = Told(h) \o s /\ Ends(h, SyncFailTasks(h))
    BY <1>6, SyncFailTold
  <2>3. /\ NoticesApart' /\ ~Open(h, taskq')
        /\ \A f \in Frontend \ {h} :
                 /\ Tells(f, taskq') => Tells(f, taskq)
                 /\ Open(f, taskq') => Open(f, taskq)
                 /\ EndsFirst(f, taskq) => EndsFirst(f, taskq')
    BY <1>4, <1>6, <2>1, <2>2
  <2> QED
    BY <1>1, <1>2, <1>6, <2>0, <2>3 DEF TInv, ActiveIsOld, ToldWaits
<1>7. ASSUME NEW s, InTasks(s), \A f \in Frontend : EndsAt(1, f, taskq) /\ st[f] = "active_ok" => f = h
      PROVE  TInv'
  <2>1. phase' = "tasks" /\ Silent(s)
    BY <1>7 DEF InTasks
  <2>2. /\ NoticesApart'
        /\ \A f \in Frontend \ {h} :
              /\ Tells(f, taskq') => Tells(f, taskq)
              /\ st[f] = "active_ok" => EndsFirst(f, taskq')
    BY <1>7, <2>1, QueueSilent DEF TInv, ActiveIsOld
  <2> QED
    BY <1>2, <2>1, <2>2
<1> QED
  BY <1>3, <1>5, <1>6, <1>7 DEF Deletes

\* The connect of b ends well.
LEMMA EstablishesTold ==
    ASSUME IInv, UInv, TInv, NoLateFailure' <=> NoLateFailure, NEW b \in Backend, Establishes(b)
    PROVE  TInv'
<1>. PICK g \in Frontend : g = peer[b]
  BY Pairs DEF Establishes
<1>0. /\ \A f \in Frontend : f \in Conn /\ f # b
      /\ \A f \in Frontend : peer[f] # None => peer[f] \in Conn
      /\ g \in Frontend /\ peer[g] = b /\ req[g] # "no" /\ b # None /\ b \in Conn
      /\ st[b] = "new_ok"
  BY Pairs, Types DEF Establishes
<1>1. /\ UNCHANGED <<peer, req>> /\ PollsOnly({}) /\ st'[b] = "active_ok"
      /\ \A x \in Conn \ {b} : st'[x] = st[x]
  BY <1>0, Types DEF Establishes
<1>2. ~Waits(g)
  BY <1>0 DEF Waits
<1>3. \A f \in Frontend : Waits(f) => Waits(f)'
  <2> SUFFICES ASSUME NEW f \in Frontend, Waits(f) PROVE Waits(f)'
    OBVIOUS
  <2>1. /\ st[f] = "conn_ok" /\ req[f] # "no" /\ Unpolled(pd, f)
        /\ peer[f] # None => st[peer[f]] = "active_ok"
    BY DEF Waits
  <2>2. st'[f] = "conn_ok" /\ (peer[f] # None => st'[peer[f]] = "active_ok")
    BY <1>0, <1>1, <2>1
  <2>3. Unpolled(pd', f)
    BY <1>1, <2>1 DEF PollsOnly
  <2> QED
    BY <1>1, <2>1, <2>2, <2>3 DEF Waits, Unpolled
<1>4. st[g] = "conn_ok" => Waits(g)'
  <2> SUFFICES ASSUME st[g] = "conn_ok" PROVE Waits(g)'
    OBVIOUS
  <2>1. Unpolled(pd, g)
    BY <1>0 DEF UInv, WaitsUnpolled
  <2>2. Unpolled(pd', g)
    BY <1>0, <1>1, <2>1 DEF PollsOnly
  <2>3. st'[g] = "conn_ok" /\ req'[g] # "no" /\ st'[peer'[g]] = "active_ok"
    BY <1>0, <1>1
  <2> QED
    BY <2>2, <2>3 DEF Waits, Unpolled
<1>5. phase = "events" /\ phase' = "events" /\ ~Open(g, taskq)
  BY <1>0, <1>2 DEF Establishes, InEvents, TInv, ToldWaits
<1>6. /\ NoticesApart'
      /\ \A f \in Frontend :
            /\ Tells(f, taskq') => Tells(f, taskq) \/ (f = g /\ st[g] = "conn_ok")
            /\ Open(f, taskq') => Open(f, taskq) \/ (f = g /\ st[g] = "conn_ok")
            /\ EndsFirst(f, taskq) => EndsFirst(f, taskq') \/ (f = g /\ st[g] = "conn_ok")
  <2>1. CASE InEvents(<<>>)
    BY <1>5, <2>1, QueueSilent, SilentTasks
  <2>2. CASE st[g] = "conn_ok" /\ InEvents(Told(g))
    <3>1. Told(g) = Told(g) \o <<>>
      BY <1>0, Shapes
    <3> QED
      BY <1>0, <1>5, <2>2, <3>1, SilentTasks, QueueTold
  <2> QED
    BY <2>1, <2>2 DEF Establishes
<1>7. ActiveIsOld'
  BY <1>0, <1>1, <1>5, <1>6 DEF TInv, ActiveIsOld
<1>8. ToldWaits'
  BY <1>3, <1>4, <1>5, <1>6 DEF TInv, ToldWaits
<1>9. ToldConnected'
  BY <1>0, <1>1, <1>6 DEF TInv, ToldConnected
<1> QED
  BY <1>6, <1>7, <1>8, <1>9 DEF TInv

\* f gets a backend.
LEMMA JoinsTold ==
    ASSUME IInv, UInv, TInv, NoLateFailure' <=> NoLateFailure, NEW f \in Frontend,
           NEW b \in Backend, Joins(f, b)
    PROVE  TInv'
<1>0. \A g \in Frontend : g \in Conn
  BY Types
<1>1. ~Waits(f)
  BY DEF Joins, Waits
<1>2. PollsOnly({}) /\ Unpolled(pd', f)
  BY DEF Joins
<1>3. \A g \in Frontend \ {f} : Waits(g) => Waits(g)'
  <2> SUFFICES ASSUME NEW g \in Frontend \ {f}, Waits(g) PROVE Waits(g)'
    OBVIOUS
  <2>1. /\ st[g] = "conn_ok" /\ req[g] # "no" /\ Unpolled(pd, g)
        /\ peer[g] # None => st[peer[g]] = "active_ok"
    BY DEF Waits
  <2>2. /\ st'[g] = "conn_ok" /\ req'[g] # "no"
        /\ peer'[g] # None => st'[peer'[g]] = "active_ok"
    BY <1>0, <2>1, JoinsOthers
  <2>3. Unpolled(pd', g)
    BY <1>2, <2>1 DEF PollsOnly
  <2> QED
    BY <2>2, <2>3 DEF Waits, Unpolled
<1>4. phase = "events" /\ phase' = "events"
  BY DEF Joins, InEvents
<1>5. ~Open(f, taskq) /\ (NoLateFailure => ~Tells(f, taskq))
  BY <1>1, <1>4 DEF TInv, ToldWaits
<1>6. st'[b] = "active_ok" => Waits(f)'
  <2>1. st'[f] = "conn_ok" /\ req'[f] # "no" /\ peer'[f] = b
    BY JoinsOthers
  <2> QED
    BY <1>2, <2>1 DEF Waits, Unpolled
<1>7. /\ NoticesApart'
      /\ \A g \in Frontend :
            /\ Tells(g, taskq') => Tells(g, taskq) \/ (g = f /\ st'[b] = "active_ok")
            /\ Open(g, taskq') => Open(g, taskq) \/ (g = f /\ st'[b] = "active_ok")
            /\ EndsFirst(g, taskq) /\ g # f => EndsFirst(g, taskq')
  <2>1. CASE InEvents(<<>>)
    BY <1>4, <2>1, QueueSilent, SilentTasks
  <2>2. CASE st'[b] = "active_ok" /\ InEvents(Told(f))
    <3>1. Told(f) = Told(f) \o <<>>
      BY Shapes
    <3> QED
      BY <1>4, <1>5, <2>2, <3>1, SilentTasks, QueueTold
  <2>3. InEvents(<<>>) \/ (st'[b] = "active_ok" /\ InEvents(Told(f)))
    BY JoinsOthers, Types DEF Joins
  <2> QED
    BY <2>1, <2>2, <2>3
<1>8. ActiveIsOld'
  BY <1>0, <1>4, <1>7, JoinsOthers DEF TInv, ActiveIsOld
<1>9. ToldWaits'
  BY <1>3, <1>4, <1>5, <1>6, <1>7 DEF TInv, ToldWaits
<1>10. ToldConnected'
  <2> SUFFICES ASSUME NoLateFailure, NEW g \in Frontend,
                      Tells(g, taskq') \/ st'[g] = "active_ok", peer'[g] # None
               PROVE  st'[peer'[g]] = "active_ok"
    BY DEF ToldConnected
  <2>1. CASE g = f
    BY <1>5, <1>7, <2>1, JoinsOthers
  <2>2. CASE g # f
    <3>1. g \in Conn \ {f, b} /\ st'[g] = st[g] /\ peer'[g] = peer[g]
      BY <1>0, <2>2, JoinsOthers
    <3>2. peer[g] \in Conn \ {f, b}
      BY <3>1, JoinsOthers
    <3>3. Tells(g, taskq) \/ st[g] = "active_ok"
      BY <1>7, <2>2, <3>1
    <3>4. st[peer[g]] = "active_ok"
      BY <3>1, <3>3 DEF TInv, ToldConnected
    <3> QED
      BY <3>1, <3>2, <3>4, JoinsOthers
  <2> QED
    BY <2>1, <2>2
<1> QED
  BY <1>7, <1>8, <1>9, <1>10 DEF TInv

\* f waits for its first request.
LEMMA ArrivesTold ==
    ASSUME IInv, TInv, NoLateFailure' <=> NoLateFailure, NEW f \in Frontend, Arrives(f)
    PROVE  TInv'
<1>0. /\ \A g \in Frontend : g \in Conn /\ peer[g] # f
      /\ \A g \in Frontend : peer[g] # None => peer[g] \in Conn
      /\ st[f] = "free" /\ peer[f] = None
  BY Pairs, Types, NotLinkedYet DEF Arrives, IInv, LinkSymmetry, Live, LiveState
<1>1. /\ UNCHANGED <<peer, req>> /\ PollsOnly({f}) /\ st'[f] = "conn_ok"
      /\ \A x \in Conn \ {f} : st'[x] = st[x]
  BY <1>0, Types DEF Arrives
<1>2. \A g \in Frontend \ {f} : Waits(g) => Waits(g)'
  <2> SUFFICES ASSUME NEW g \in Frontend \ {f}, Waits(g) PROVE Waits(g)'
    OBVIOUS
  <2>1. /\ st[g] = "conn_ok" /\ req[g] # "no" /\ Unpolled(pd, g)
        /\ peer[g] # None => st[peer[g]] = "active_ok"
    BY DEF Waits
  <2>2. st'[g] = "conn_ok" /\ (peer[g] # None => st'[peer[g]] = "active_ok")
    BY <1>0, <1>1, <2>1
  <2>3. Unpolled(pd', g)
    BY <1>1, <2>1 DEF PollsOnly
  <2> QED
    BY <1>1, <2>1, <2>2, <2>3 DEF Waits, Unpolled
<1>3. phase = "events" /\ phase' = "events" /\ InEvents(<<>>)
  BY DEF Arrives, InEvents
<1>4. ~Open(f, taskq) /\ (NoLateFailure => ~Tells(f, taskq))
  BY <1>0, <1>3 DEF TInv, ToldWaits, Waits
<1>5. /\ NoticesApart'
      /\ \A g \in Frontend :
            /\ Tells(g, taskq') => Tells(g, taskq)
            /\ Open(g, taskq') => Open(g, taskq)
            /\ EndsFirst(g, taskq) => EndsFirst(g, taskq')
  BY <1>3, QueueSilent, SilentTasks
<1>6. ActiveIsOld'
  BY <1>0, <1>1, <1>3, <1>5 DEF TInv, ActiveIsOld
<1>7. ToldWaits'
  BY <1>2, <1>3, <1>4, <1>5 DEF TInv, ToldWaits
<1>8. ToldConnected'
  BY <1>0, <1>1, <1>5 DEF TInv, ToldConnected
<1> QED
  BY <1>5, <1>6, <1>7, <1>8 DEF TInv

\* f is told, and cannot have been active: it is closed before it is told again.
LEMMA StartsTold ==
    ASSUME IInv, TInv, NoLateFailure' <=> NoLateFailure, NEW f \in Frontend, Starts(f)
    PROVE  TInv' /\ st[f] # "active_ok"
<1>0. /\ \A g \in Frontend : g \in Conn /\ peer[g] # f
      /\ \A g \in Frontend : peer[g] # None => peer[g] \in Conn
  BY Pairs, Types
<1>1. /\ peer' = peer /\ st'[f] = "active_ok"
      /\ \A x \in Conn \ {f} : st'[x] = st[x]
  BY <1>0, Types DEF Starts
<1>2. /\ phase = "tasks" /\ phase' = "tasks" /\ InTasks(<<>>) /\ TellsAt(1, f, taskq) /\ todo > 0
      /\ taskq' = Tail(taskq) \o <<>>
  BY DEF Starts, InTasks
<1>3. taskq \in Seq(Task) /\ taskq # <<>> /\ taskq' = Tail(taskq)
  BY <1>2, Types, TailTasks
<1>4. Apart(f, taskq)
  BY DEF TInv, NoticesApart
<1>5. EndsFirst(f, taskq') /\ Tells(f, taskq) /\ ~EndsFirst(f, taskq)
  BY <1>2, <1>3, <1>4, Popped
<1>6. \A g : ~EndsAt(1, g, taskq)
  BY <1>2 DEF TellsAt, EndsAt
<1>7. /\ NoticesApart'
      /\ \A g \in Frontend :
            /\ Tells(g, taskq') => Tells(g, taskq)
            /\ EndsFirst(g, taskq) => EndsFirst(g, taskq')
  BY <1>2, <1>6, QueueSilent, SilentTasks
<1>8. ActiveIsOld'
  BY <1>0, <1>1, <1>2, <1>5, <1>7 DEF TInv, ActiveIsOld
<1>9. ToldWaits'
  BY <1>2 DEF ToldWaits
<1>10. ToldConnected'
  BY <1>0, <1>1, <1>5, <1>7 DEF TInv, ToldConnected
<1> QED
  BY <1>5, <1>7, <1>8, <1>9, <1>10 DEF TInv, ActiveIsOld

LEMMA StartsOverTold ==
    ASSUME IInv, StartsOver
    PROVE  TInv'
<1>1. \A f : ~Tells(f, <<>>) /\ ~Open(f, <<>>) /\ Apart(f, <<>>)
             /\ \A i \in 1..Len(<<>>) : ~TellsAt(i, f, <<>>)
  BY DEF Tells, TellsAt, Open, Apart
<1>2. \A f \in Frontend : f \in Conn
  BY Types
<1> QED
  BY <1>1, <1>2 DEF StartsOver, TInv, NoticesApart, ActiveIsOld, ToldWaits, ToldConnected

----------------------------------------------------------------------------
(* Theorems                                                                *)

\* What the environment does is decided once.
LEMMA EnvFixed == ASSUME [Next]_vars PROVE env' = env
BY DEF Next, vars, EpollWait, NextEvent, LoopTop, Restart, SkipEvent, AcceptDone, TimerDone,
       StaleTask, DropTask, Crash, EndTask, EndEvent, Events, OnError, OnWrite, OnReadNothing,
       OnReadClose, OnReadForward, TaskDrained, Accept, OnReadMatch, OnReadForwardThenClose,
       FrontendInactive, TaskClosesFrontend, TaskConnOk, OnConnectOk, OnConnectFail,
       ConnectTimeout, TaskFrontendClose, loop

\* The inductive invariant of the notices and of the counters.
RInv == PInv /\ UInv /\ TInv /\ CountsExact

LEMMA NextRInv ==
    ASSUME IInv, FreeHasNoApp, RInv, [Next]_vars
    PROVE  RInv'
<1>0. PInv /\ UInv /\ TInv /\ CountsExact
  BY DEF RInv
<1>1. PInv' /\ TellingStep
  BY <1>0, NextPInv, NextTold
<1>2. UInv'
  BY <1>0, <1>1, DueKept, UKept
<1>3. NoLateFailure' <=> NoLateFailure
  BY EnvFixed DEF NoLateFailure
<1>4. TInv'
  BY <1>0, <1>1, <1>3, RestsTold, DeletesTold, EstablishesTold, JoinsTold, ArrivesTold, StartsTold,
     StartsOverTold DEF TellingStep
<1>5. \A f \in Frontend : TellsAt(1, f, taskq) /\ phase = "tasks" => st[f] # "active_ok"
  <2> SUFFICES ASSUME NEW f \in Frontend, TellsAt(1, f, taskq), st[f] = "active_ok" PROVE FALSE
    OBVIOUS
  <2>1. taskq \in Seq(Task) /\ taskq # <<>>
    BY Types DEF TellsAt
  <2>2. ~EndsFirst(f, taskq)
    BY <2>1, Popped
  <2> QED
    BY <1>0, <2>2 DEF TInv, ActiveIsOld
<1>6. CountsExact'
  BY <1>0, <1>1, <1>5, CountsKept
<1> QED
  BY <1>1, <1>2, <1>4, <1>6 DEF RInv

LEMMA RInvStarts == Init => RInv
<1> SUFFICES ASSUME Init PROVE RInv
  OBVIOUS
<1>1. PInv
  BY PollerStarts
<1>2. \A h \in Conn : st[h] = "free" /\ ~io[h].paused
  BY DEF Init, FreshIo
<1>3. \A f \in Frontend : f \in Conn
  BY DEF Conn
<1>4. UInv
  BY <1>2, <1>3 DEF Init, UInv, WaitsUnpolled, PausedActive, ActiveServes, DueConnects
<1>5. \A f : ~Tells(f, <<>>) /\ ~Open(f, <<>>) /\ Apart(f, <<>>)
             /\ \A i \in 1..Len(<<>>) : ~TellsAt(i, f, <<>>)
  BY DEF Tells, TellsAt, Open, Apart
<1>6. TInv
  BY <1>2, <1>3, <1>5 DEF Init, TInv, NoticesApart, ActiveIsOld, ToldWaits, ToldConnected
<1>7. CountsExact
  <2>1. Active(Frontend) = {} /\ Active(Backend) = {}
    BY <1>2 DEF Active, Conn
  <2> QED
    BY <2>1, FS_EmptySet DEF Init, CountsExact
<1> QED
  BY <1>1, <1>4, <1>6, <1>7 DEF RInv

LEMMA RInvariance == Spec => [](SInv /\ RInv)
<1>1. SInv /\ RInv /\ [Next]_vars => RInv'
  BY NextRInv DEF SInv
<1> QED
  BY <1>1, RInvStarts, SessionInvariance, PTL DEF Spec

\* frontend_active_n and backend_active_n, which worker_shutdown::on_timeout reads to let a
\* worker exit, count the active connections exactly: however closes, notices and failed
\* connects interleave, on_connect_ok and on_close add and subtract once per connection.
THEOREM CountsNeverDrift == Spec => []ActiveCountExact
<1>1. RInv => ActiveCountExact
  BY DEF RInv, CountsExact, Active, ActiveCountExact
<1> QED
  BY <1>1, RInvariance, PTL

\* A frontend is read from only while its backend is connected: io_handle::send never meets
\* fd == -1 there and no request is lost, unless a connect can fail after on_open has told its
\* frontend of the success.
THEOREM ReadsWhenConnected == Spec => []ReadsOnlyWhenConnected
<1>1. RInv => ReadsOnlyWhenConnected
  BY DEF RInv, TInv, ToldConnected, NoLateFailure, ReadsOnlyWhenConnected
<1> QED
  BY <1>1, RInvariance, PTL

----------------------------------------------------------------------------
(* Congestion.  Who cannot be written to has its peer paused, and a paused  *)
(* handler is resumed by a notice of its peer, which comes by a task.       *)

\* What h is registered for, as its poll_desc says.
RegIn(p, h) == IF fd[h] = None THEN {} ELSE p[fd[h]].ev
Reg(h)      == RegIn(pd, h)

\* An event that will make h read is at hand.
Hears(h) == /\ fd[h] # None
            /\ \/ \E e \in ready : e.fd = fd[h] /\ "in" \in e.ev
               \/ cur # None /\ cur.fd = fd[h] /\ "in" \in cur.ev

Data(h) == io[h].buf = "data"

\* The i-th task of q tells h that its peer drained.
Drained         == {"frontend_send_buffer_drained", "backend_send_buffer_drained"}
OwedAt(i, h, q) == i \in 1..Len(q) /\ q[i].type \in Drained /\ q[i].p = h
Owed(h, q)      == \E i \in 1..Len(q) : OwedAt(i, h, q)

\* The environments in which Backpressure holds, and PausedCanResume.
Plain   == ~({"host_port", "sync_connect", "slow_client", "slow_server"} \subseteq env)
OneSlow == ~({"slow_client", "slow_server"} \subseteq env
             \/ {"slow_client", "sync_connect"} \subseteq env)

----------------------------------------------------------------------------
(* Lives, descriptors and the batch of events                               *)

Stages == /\ \A f \in Frontend : st[f] # "new_ok"
          /\ \A b \in Backend : st[b] # "conn_ok"

LiveHasFd == \A h \in Conn : Live(h) <=> fd[h] # None

\* Who is connecting, or has not read its first request, has sent and paused nothing.
Fresh == \A h \in Conn :
            st[h] \in {"free", "new_ok"} \/ (h \in Frontend /\ req[h] = "no") => io[h] = FreshIo

\* A first request is saved on a port of several apps only.
HostApps == \A f \in Frontend : Live(f) /\ req[f] # "yes" => "host_port" \in env

\* One event for each descriptor, and none while tasks run.
BatchApart ==
    /\ \A e1, e2 \in ready : e1.fd = e2.fd => e1 = e2
    /\ cur # None => \A e \in ready : e.fd # cur.fd
    /\ phase = "tasks" => ready = {} /\ cur = None

\* A descriptor without interests is not registered.
TidyTable(p) == \A n \in Fd : p[n].eh = None <=> p[n].ev = {}
Tidy         == TidyTable(pd)

BInv == Stages /\ LiveHasFd /\ Fresh /\ HostApps /\ BatchApart /\ Tidy

----------------------------------------------------------------------------
(* The poller's calls, as seen by a handler                                 *)

\* A table of the poller in good order.
Sane(p) == p \in [Fd -> PdState] /\ TidyTable(p)

LEMMA SaneCalls ==
    ASSUME NEW p, Sane(p), NEW n \in Fd
    PROVE  /\ Sane(RemoveAll(p, n)) /\ Sane(AppendEv(p, n, "w"))
           /\ \A e \in {"r", "w"} : Sane(RemoveEv(p, n, e))
           /\ \A h \in Conn, k \in {"io", "connect"}, e \in SUBSET {"r", "w"} :
                 h # None /\ e # {} => Sane(AddEv(p, n, h, k, e))
<1>1. p \in [Fd -> PdState] /\ TidyTable(p)
  BY DEF Sane
<1>2. Sane(RemoveAll(p, n))
  <2>1. RemoveAll(p, n) \in [Fd -> PdState]
    BY <1>1, PdTypes
  <2>2. \A m \in Fd : RemoveAll(p, n)[m] = IF m = n THEN NoPd ELSE p[m]
    BY <1>1 DEF RemoveAll
  <2> QED
    BY <1>1, <2>1, <2>2 DEF Sane, TidyTable, NoPd
<1>3. Sane(AppendEv(p, n, "w"))
  <2>1. AppendEv(p, n, "w") \in [Fd -> PdState]
    BY <1>1, PdTypes
  <2>2. CASE p[n].eh = None
    BY <1>1, <2>2 DEF AppendEv, Sane
  <2>3. CASE p[n].eh # None
    <3>1. AppendEv(p, n, "w") = [p EXCEPT ![n].ev = @ \cup {"w"}]
      BY <2>3 DEF AppendEv
    <3>2. \A m \in Fd : /\ AppendEv(p, n, "w")[m].eh = p[m].eh
                        /\ AppendEv(p, n, "w")[m].ev = IF m = n THEN p[n].ev \cup {"w"} ELSE p[m].ev
      BY <1>1, <3>1 DEF PdState
    <3> QED
      BY <1>1, <2>1, <2>3, <3>2 DEF Sane, TidyTable
  <2> QED
    BY <2>2, <2>3
<1>4. ASSUME NEW e \in {"r", "w"} PROVE Sane(RemoveEv(p, n, e))
  <2>1. RemoveEv(p, n, e) \in [Fd -> PdState]
    BY <1>1, PdTypes
  <2>2. CASE p[n].eh # None /\ p[n].ev \subseteq {e}
    BY <1>2, <2>2 DEF RemoveEv
  <2>3. CASE ~(p[n].eh # None /\ p[n].ev \subseteq {e})
    <3>1. RemoveEv(p, n, e) = [p EXCEPT ![n].ev = @ \ {e}]
      BY <2>3 DEF RemoveEv
    <3>2. \A m \in Fd : /\ RemoveEv(p, n, e)[m].eh = p[m].eh
                        /\ RemoveEv(p, n, e)[m].ev = IF m = n THEN p[n].ev \ {e} ELSE p[m].ev
      BY <1>1, <3>1 DEF PdState
    <3> QED
      BY <1>1, <2>1, <2>3, <3>2 DEF Sane, TidyTable
  <2> QED
    BY <2>2, <2>3
<1>5. ASSUME NEW h \in Conn, NEW k \in {"io", "connect"}, NEW e \in SUBSET {"r", "w"},
             h # None, e # {}
      PROVE  Sane(AddEv(p, n, h, k, e))
  <2>1. AddEv(p, n, h, k, e) \in [Fd -> PdState]
    BY <1>1, AddEvType
  <2>2. \A m \in Fd : AddEv(p, n, h, k, e)[m] = IF m = n THEN [eh |-> h, kind |-> k, ev |-> e] ELSE p[m]
    BY <1>1 DEF AddEv
  <2> QED
    BY <1>1, <1>5, <2>1, <2>2 DEF Sane, TidyTable
<1> QED
  BY <1>2, <1>3, <1>4, <1>5

\* q is p but for the descriptor of h, where it has the interests e.
ButFor(h, p, q, e) == \A m \in Fd : q[m].ev = IF m = fd[h] THEN e ELSE p[m].ev

LEMMA OnlyOwner ==
    ASSUME IInv, PInv, NEW h \in Conn, fd[h] # None, NEW p, NEW q, NEW e, ButFor(h, p, q, e)
    PROVE  RegIn(q, h) = e /\ \A x \in Conn \ {h} : RegIn(q, x) = RegIn(p, x)
<1>1. \A x \in Conn \ {h} : fd[x] # fd[h] /\ (fd[x] # None => fd[x] \in Fd)
  BY MoreTypes DEF PInv, FdsApart
<1>2. fd[h] \in Fd
  BY MoreTypes
<1> QED
  BY <1>1, <1>2 DEF RegIn, ButFor

\* Each call changes what its descriptor's owner is registered for, and nobody else.
LEMMA RemoveAllSeen ==
    ASSUME IInv, PInv, NEW p, Sane(p), NEW h \in Conn, fd[h] # None
    PROVE  /\ RegIn(RemoveAll(p, fd[h]), h) = {}
           /\ \A x \in Conn \ {h} : RegIn(RemoveAll(p, fd[h]), x) = RegIn(p, x)
<1> DEFINE q == RemoveAll(p, fd[h])
<1>1. p \in [Fd -> PdState]
  BY DEF Sane
<1>2. ButFor(h, p, q, {})
  BY <1>1 DEF RemoveAll, NoPd, ButFor
<1> HIDE DEF q
<1>3. RegIn(q, h) = {} /\ \A x \in Conn \ {h} : RegIn(q, x) = RegIn(p, x)
  BY <1>2, OnlyOwner
<1> QED
  BY <1>3 DEF q

LEMMA RemoveEvSeen ==
    ASSUME IInv, PInv, NEW p, Sane(p), NEW h \in Conn, fd[h] # None, NEW e \in {"r", "w"}
    PROVE  /\ RegIn(RemoveEv(p, fd[h], e), h) = RegIn(p, h) \ {e}
           /\ \A x \in Conn \ {h} : RegIn(RemoveEv(p, fd[h], e), x) = RegIn(p, x)
<1> DEFINE n == fd[h]
           q == RemoveEv(p, n, e)
           i == p[n].ev \ {e}
<1>1. p \in [Fd -> PdState] /\ n \in Fd /\ RegIn(p, h) = p[n].ev
  BY MoreTypes DEF Sane, RegIn
<1> HIDE DEF n
<1>2. \A m \in Fd : q[m].ev = IF m = n THEN i ELSE p[m].ev
  <2>1. CASE p[n].eh # None /\ p[n].ev \subseteq {e}
    <3>1. q = [p EXCEPT ![n] = NoPd] /\ i = {}
      BY <2>1 DEF RemoveEv, RemoveAll
    <3> QED
      BY <1>1, <3>1 DEF NoPd
  <2>2. CASE ~(p[n].eh # None /\ p[n].ev \subseteq {e})
    <3>1. q = [p EXCEPT ![n].ev = @ \ {e}]
      BY <2>2 DEF RemoveEv
    <3> QED
      BY <1>1, <3>1 DEF PdState
  <2> QED
    BY <2>1, <2>2
<1>3. ButFor(h, p, q, i)
  BY <1>2 DEF ButFor, n
<1> HIDE DEF q, i
<1>4. RegIn(q, h) = i /\ \A x \in Conn \ {h} : RegIn(q, x) = RegIn(p, x)
  BY <1>3, OnlyOwner
<1> QED
  BY <1>1, <1>4 DEF q, i, n

LEMMA AppendSeen ==
    ASSUME IInv, PInv, NEW p, Sane(p), NEW h \in Conn, fd[h] # None
    PROVE  /\ RegIn(AppendEv(p, fd[h], "w"), h) =
                 IF RegIn(p, h) = {} THEN {} ELSE RegIn(p, h) \cup {"w"}
           /\ \A x \in Conn \ {h} : RegIn(AppendEv(p, fd[h], "w"), x) = RegIn(p, x)
<1> DEFINE n == fd[h]
           q == AppendEv(p, n, "w")
           i == IF p[n].ev = {} THEN {} ELSE p[n].ev \cup {"w"}
<1>1. p \in [Fd -> PdState] /\ TidyTable(p) /\ n \in Fd /\ RegIn(p, h) = p[n].ev
  BY MoreTypes DEF Sane, RegIn
<1> HIDE DEF n
<1>2. \A m \in Fd : q[m].ev = IF m = n THEN i ELSE p[m].ev
  <2>1. CASE p[n].eh = None
    BY <1>1, <2>1 DEF AppendEv, TidyTable
  <2>2. CASE p[n].eh # None
    BY <1>1, <2>2 DEF AppendEv, TidyTable, PdState
  <2> QED
    BY <2>1, <2>2
<1>3. ButFor(h, p, q, i)
  BY <1>2 DEF ButFor, n
<1> HIDE DEF q, i
<1>4. RegIn(q, h) = i /\ \A x \in Conn \ {h} : RegIn(q, x) = RegIn(p, x)
  BY <1>3, OnlyOwner
<1> QED
  BY <1>1, <1>4 DEF q, i, n

LEMMA ReadsSeen ==
    ASSUME IInv, PInv, NEW p, Sane(p), NEW h \in Conn, fd[h] # None
    PROVE  /\ RegIn(AddEv(p, fd[h], h, "io", {"r"}), h) = {"r"}
           /\ \A x \in Conn \ {h} : RegIn(AddEv(p, fd[h], h, "io", {"r"}), x) = RegIn(p, x)
<1> DEFINE q == AddEv(p, fd[h], h, "io", {"r"})
<1>1. p \in [Fd -> PdState]
  BY DEF Sane
<1>2. ButFor(h, p, q, {"r"})
  BY <1>1 DEF AddEv, ButFor
<1> HIDE DEF q
<1>3. RegIn(q, h) = {"r"} /\ \A x \in Conn \ {h} : RegIn(q, x) = RegIn(p, x)
  BY <1>2, OnlyOwner
<1> QED
  BY <1>3 DEF q

\* Registering a descriptor that nobody owns concerns nobody.
LEMMA FreeFdSeen ==
    ASSUME NEW p, Sane(p), NEW n \in FreeFds, NEW h, NEW k, NEW e, fd \in [Conn -> Fd \cup {None}]
    PROVE  /\ n \in Fd /\ AddEv(p, n, h, k, e)[n].ev = e
           /\ \A x \in Conn : RegIn(AddEv(p, n, h, k, e), x) = RegIn(p, x)
<1>1. n \in Fd /\ p \in [Fd -> PdState] /\ \A x \in Conn : fd[x] # n /\ fd[x] \in Fd \cup {None}
  BY DEF FreeFds, Sane
<1>2. \A m \in Fd : AddEv(p, n, h, k, e)[m].ev = IF m = n THEN e ELSE p[m].ev
  BY <1>1 DEF AddEv
<1> QED
  BY <1>1, <1>2 DEF RegIn

----------------------------------------------------------------------------
(* Notices that a peer drained                                              *)

Mute(s) == s \in Seq(Task) /\ \A i \in 1..Len(s) : s[i].type \notin Drained

Popping == phase = "tasks" /\ todo > 0

\* What steps do to the queue and the loop, those aside that push a notice.
Moves ==
    \/ LoopGoes
    \/ \E s : Mute(s) /\ InEvents(s)
    \/ /\ Popping /\ phase' = "tasks" /\ todo' = todo - 1
       /\ \E s : Mute(s) /\ taskq' = Tail(taskq) \o s

\* A notice to a frontend is read before the task that starts that frontend.
OwedFirst == Plain =>
    \A f \in Frontend : \A i, j \in 1..Len(taskq) :
        OwedAt(j, f, taskq) /\ TellsAt(i, f, taskq) => j < i

\* Notices are read in the round of tasks that follows their event.
OwedLater == phase = "tasks" => \A h \in Conn : \A i \in 1..Len(taskq) : OwedAt(i, h, taskq) => i <= todo

LEMMA OwedBehind ==
    ASSUME NEW q \in Seq(Task), NEW s \in Seq(Task), NEW h
    PROVE  \A i \in Nat : OwedAt(i, h, q \o s) <=>
                 OwedAt(i, h, q) \/ (i > Len(q) /\ OwedAt(i - Len(q), h, s))
<1>1. /\ Len(q \o s) = Len(q) + Len(s) /\ Len(q) \in Nat /\ Len(s) \in Nat
      /\ \A i \in 1..Len(q) : (q \o s)[i] = q[i]
      /\ \A i \in 1..(Len(q) + Len(s)) : i > Len(q) =>
            i - Len(q) \in 1..Len(s) /\ (q \o s)[i] = s[i - Len(q)]
  OBVIOUS
<1> QED
  BY <1>1 DEF OwedAt

\* Pushing tasks that are no notices.
LEMMA OwedMute ==
    ASSUME NEW q \in Seq(Task), NEW s, Mute(s), NEW h
    PROVE  /\ \A i : OwedAt(i, h, q \o s) <=> OwedAt(i, h, q)
           /\ \A i : TellsAt(i, h, q) => TellsAt(i, h, q \o s)
           /\ \A i : TellsAt(i, h, q \o s) => TellsAt(i, h, q) \/ (i \in Nat /\ i > Len(q))
<1>1. s \in Seq(Task) /\ \A i : ~OwedAt(i, h, s)
  BY DEF Mute, OwedAt
<1>2. /\ Len(q \o s) = Len(q) + Len(s) /\ Len(q) \in Nat /\ Len(s) \in Nat
  BY <1>1
<1>3. \A i : /\ OwedAt(i, h, q \o s) => i \in Nat
             /\ OwedAt(i, h, q) => i \in Nat
             /\ TellsAt(i, h, q \o s) => i \in Nat
             /\ TellsAt(i, h, q) => i \in Nat
  BY <1>2 DEF OwedAt, TellsAt
<1> QED
  BY <1>1, <1>3, OwedBehind, Behind

\* Taking the first task.
LEMMA OwedTail ==
    ASSUME NEW q \in Seq(Task), q # <<>>, NEW h
    PROVE  /\ Tail(q) \in Seq(Task)
           /\ \A i : OwedAt(i, h, Tail(q)) => i \in Nat \ {0} /\ OwedAt(i + 1, h, q)
           /\ \A i : TellsAt(i, h, Tail(q)) => i \in Nat \ {0} /\ TellsAt(i + 1, h, q)
           /\ Owed(h, q) => Owed(h, Tail(q)) \/ OwedAt(1, h, q)
           /\ Tells(h, q) => Tells(h, Tail(q)) \/ TellsAt(1, h, q)
<1> DEFINE r == Tail(q)
<1>1. /\ Len(r) = Len(q) - 1 /\ Len(q) \in Nat \ {0} /\ r \in Seq(Task)
      /\ \A i \in 1..(Len(q) - 1) : r[i] = q[i + 1]
  OBVIOUS
<1> HIDE DEF r
<1>2. /\ \A i \in Nat \ {0} : OwedAt(i, h, r) <=> OwedAt(i + 1, h, q)
      /\ \A i \in Nat \ {0} : TellsAt(i, h, r) <=> TellsAt(i + 1, h, q)
      /\ \A i : (OwedAt(i, h, q) => i \in 1..Len(q)) /\ (OwedAt(i, h, r) => i \in 1..Len(r))
             /\ (TellsAt(i, h, q) => i \in 1..Len(q)) /\ (TellsAt(i, h, r) => i \in 1..Len(r))
  BY <1>1 DEF OwedAt, TellsAt
<1>3. ASSUME NEW i \in 1..Len(q), OwedAt(i, h, q), i # 1 PROVE Owed(h, r)
  <2>1. i - 1 \in Nat \ {0} /\ (i - 1) + 1 = i
    BY <1>1, <1>3
  <2>2. OwedAt(i - 1, h, r)
    BY <1>2, <1>3, <2>1
  <2> QED
    BY <1>2, <2>2 DEF Owed
<1>4. ASSUME NEW i \in 1..Len(q), TellsAt(i, h, q), i # 1 PROVE Tells(h, r)
  <2>1. i - 1 \in Nat \ {0} /\ (i - 1) + 1 = i
    BY <1>1, <1>4
  <2>2. TellsAt(i - 1, h, r)
    BY <1>2, <1>4, <2>1
  <2> QED
    BY <1>2, <2>2 DEF Tells
<1>5. Owed(h, q) => Owed(h, r) \/ OwedAt(1, h, q)
  BY <1>3 DEF Owed
<1>6. Tells(h, q) => Tells(h, r) \/ TellsAt(1, h, q)
  BY <1>4 DEF Tells
<1>7. /\ \A i : OwedAt(i, h, r) => i \in Nat \ {0} /\ OwedAt(i + 1, h, q)
      /\ \A i : TellsAt(i, h, r) => i \in Nat \ {0} /\ TellsAt(i + 1, h, q)
  <2>1. \A i \in 1..Len(r) : i \in Nat \ {0}
    BY <1>1
  <2> QED
    BY <1>2, <2>1
<1> QED
  BY <1>1, <1>5, <1>6, <1>7 DEF r

\* The notices of the queue after such a step.
LEMMA MovesOwe ==
    ASSUME IInv, TInv, OwedFirst, OwedLater, Moves, env' = env
    PROVE  /\ OwedFirst' /\ OwedLater'
           /\ \A h \in Conn :
                 /\ Owed(h, taskq') => Owed(h, taskq)
                 /\ Owed(h, taskq) => Owed(h, taskq') \/ (Popping /\ OwedAt(1, h, taskq))
                 /\ Tells(h, taskq) => Tells(h, taskq') \/ (Popping /\ TellsAt(1, h, taskq))
                 /\ Popping /\ OwedAt(1, h, taskq) => Owed(h, taskq)
           /\ phase' = "events" => \/ phase = "events"
                                   \/ \A h \in Conn : ~Owed(h, taskq) /\ ~Owed(h, taskq')
           /\ phase # "events" => phase' # "events" \/ (phase = "tasks" /\ todo = 0)
<1>0. taskq \in Seq(Task) /\ todo \in Nat
  BY Types, IInvParts DEF LoopTypes
<1>1. \A h, q : \A i : (OwedAt(i, h, q) => i \in 1..Len(q)) /\ (TellsAt(i, h, q) => i \in 1..Len(q))
  BY DEF OwedAt, TellsAt
<1>2. \A h, q : (Owed(h, q) <=> \E i : OwedAt(i, h, q)) /\ (Tells(h, q) <=> \E i : TellsAt(i, h, q))
  BY <1>1 DEF Owed, Tells
<1>3. \A h \in Conn : Popping /\ OwedAt(1, h, taskq) => Owed(h, taskq)
  BY <1>2
<1>4. CASE LoopGoes
  <2>1. taskq' = taskq /\ (phase' = "tasks" => (phase = "tasks" /\ todo' = todo) \/ todo' = Len(taskq))
        /\ (phase' = "events" => phase = "events" \/ (phase = "tasks" /\ todo = 0))
    BY <1>4 DEF LoopGoes
  <2>2. OwedFirst'
    BY <2>1 DEF OwedFirst, Plain
  <2>3. OwedLater'
    BY <1>0, <2>1 DEF OwedLater
  <2>4. phase = "tasks" /\ todo = 0 => \A h \in Conn : ~Owed(h, taskq)
    BY <1>0, <1>1 DEF OwedLater, Owed
  <2> QED
    BY <1>3, <2>1, <2>2, <2>3, <2>4
<1>5. CASE \E s : Mute(s) /\ InEvents(s)
  <2>1. PICK s : Mute(s) /\ taskq' = taskq \o s /\ phase = "events" /\ phase' = "events"
    BY <1>5 DEF InEvents
  <2>2. \A h : /\ \A i : OwedAt(i, h, taskq') <=> OwedAt(i, h, taskq)
               /\ \A i : TellsAt(i, h, taskq) => TellsAt(i, h, taskq')
               /\ \A i : TellsAt(i, h, taskq') => TellsAt(i, h, taskq) \/ (i \in Nat /\ i > Len(taskq))
    BY <1>0, <2>1, OwedMute
  <2>3. OwedFirst'
    <3> SUFFICES ASSUME Plain, NEW f \in Frontend, NEW i \in Nat, NEW j \in Nat,
                        OwedAt(j, f, taskq'), TellsAt(i, f, taskq')
                 PROVE  j < i
      BY <2>1 DEF OwedFirst, Plain
    <3>1. OwedAt(j, f, taskq) /\ j \in 1..Len(taskq) /\ Len(taskq) \in Nat
      BY <1>0, <1>1, <2>2
    <3>2. CASE TellsAt(i, f, taskq)
      BY <1>1, <3>1, <3>2 DEF OwedFirst
    <3>3. CASE i > Len(taskq)
      BY <3>1, <3>3
    <3> QED
      BY <2>2, <3>2, <3>3
  <2>4. OwedLater'
    BY <2>1 DEF OwedLater
  <2> QED
    BY <1>2, <1>3, <2>1, <2>2, <2>3, <2>4
<1>6. CASE /\ Popping /\ phase' = "tasks" /\ todo' = todo - 1
           /\ \E s : Mute(s) /\ taskq' = Tail(taskq) \o s
  <2>1. PICK s : Mute(s) /\ taskq' = Tail(taskq) \o s
    BY <1>6
  <2>2. taskq # <<>> /\ phase = "tasks" /\ todo > 0
    BY <1>6, TailTasks DEF Popping
  <2>3. \A h : /\ Tail(taskq) \in Seq(Task)
               /\ \A i : OwedAt(i, h, Tail(taskq)) => i \in Nat \ {0} /\ OwedAt(i + 1, h, taskq)
               /\ \A i : TellsAt(i, h, Tail(taskq)) => i \in Nat \ {0} /\ TellsAt(i + 1, h, taskq)
               /\ Owed(h, taskq) => Owed(h, Tail(taskq)) \/ OwedAt(1, h, taskq)
               /\ Tells(h, taskq) => Tells(h, Tail(taskq)) \/ TellsAt(1, h, taskq)
    BY <1>0, <2>2, OwedTail
  <2> DEFINE q == Tail(taskq)
  <2> HIDE DEF q
  <2>4. \A h : /\ \A i : OwedAt(i, h, taskq') <=> OwedAt(i, h, q)
               /\ \A i : TellsAt(i, h, q) => TellsAt(i, h, taskq')
               /\ \A i : TellsAt(i, h, taskq') => TellsAt(i, h, q) \/ (i \in Nat /\ i > Len(q))
    BY <2>1, <2>3, OwedMute DEF q
  <2>5. OwedFirst'
    <3> SUFFICES ASSUME Plain, NEW f \in Frontend, NEW i \in Nat, NEW j \in Nat,
                        OwedAt(j, f, taskq'), TellsAt(i, f, taskq')
                 PROVE  j < i
      BY <1>6 DEF OwedFirst, Plain
    <3>0. q \in Seq(Task) /\ Len(q) \in Nat
      BY <2>3 DEF q
    <3>1. OwedAt(j, f, q) /\ j \in 1..Len(q) /\ Len(q) \in Nat /\ OwedAt(j + 1, f, taskq)
      <4>1. OwedAt(j, f, q)
        BY <2>4
      <4> QED
        BY <1>1, <2>3, <3>0, <4>1 DEF q
    <3>2. CASE TellsAt(i, f, q)
      <4>1. TellsAt(i + 1, f, taskq) /\ i + 1 \in 1..Len(taskq) /\ j + 1 \in 1..Len(taskq)
        BY <1>1, <2>3, <3>1, <3>2 DEF q
      <4>2. j + 1 < i + 1
        BY <3>1, <4>1 DEF OwedFirst
      <4> QED
        BY <4>2
    <3>3. CASE i > Len(q)
      BY <3>1, <3>3
    <3> QED
      BY <2>4, <3>2, <3>3
  <2>6. OwedLater'
    <3> SUFFICES ASSUME NEW h \in Conn, NEW i \in Nat, OwedAt(i, h, taskq') PROVE i <= todo'
      BY DEF OwedLater
    <3>1. OwedAt(i + 1, h, taskq) /\ i + 1 \in 1..Len(taskq)
      BY <1>1, <2>3, <2>4 DEF q
    <3>2. i + 1 <= todo
      BY <2>2, <3>1 DEF OwedLater
    <3> QED
      BY <1>0, <1>6, <3>2
  <2>7. ASSUME NEW h \in Conn
        PROVE  /\ Owed(h, taskq') => Owed(h, taskq)
               /\ Owed(h, taskq) => Owed(h, taskq') \/ OwedAt(1, h, taskq)
               /\ Tells(h, taskq) => Tells(h, taskq') \/ TellsAt(1, h, taskq)
    <3>1. (Owed(h, taskq') <=> Owed(h, q)) /\ (Tells(h, q) => Tells(h, taskq'))
      BY <1>2, <2>4
    <3>2. Owed(h, q) => Owed(h, taskq)
      BY <1>2, <2>3 DEF q
    <3> QED
      BY <2>3, <3>1, <3>2 DEF q
  <2> QED
    BY <1>3, <1>6, <2>2, <2>5, <2>6, <2>7
<1> QED
  BY <1>4, <1>5, <1>6 DEF Moves

----------------------------------------------------------------------------
(* Who has data to send, who is paused                                      *)

PollingData == \A h \in Conn : io[h].polling <=> Data(h)
SlowOnly    == \A h \in Conn : Data(h) => CanBeSlow(h)

\* Write interest is asked for with data only; a connect under way has it too.
WriteData == \A h \in Conn : st[h] # "new_ok" /\ "w" \in Reg(h) => Data(h)

\* Who is paused has a peer, of the other class, that was slow.
PausedFor == \A h \in Conn : io[h].paused =>
                (IF h \in Frontend THEN "slow_server" ELSE "slow_client") \in env

\* Who serves and is not paused is read from.
ActivePolled == \A h \in Conn : st[h] = "active_ok" /\ ~io[h].paused => "r" \in Reg(h)

\* Who is paused is not read from, the frontend of a request that was saved aside.
PausedDeaf ==
    \A h \in Conn : io[h].paused =>
        /\ "r" \in Reg(h) => h \in Frontend /\ "host_port" \in env
        /\ "r" \notin Reg(h) => ~Hears(h)

GInv == PollingData /\ SlowOnly /\ WriteData /\ PausedFor /\ ActivePolled /\ PausedDeaf

----------------------------------------------------------------------------
(* Steps by what they do to send queues, registrations and notices          *)

Hushed == \A x \in Conn : Hears(x)' => Hears(x)

\* Nobody outside S is touched.
Spares(S) == \A x \in Conn \ S : io'[x] = io[x] /\ Reg(x)' = Reg(x)

\* What x is registered for after the step.
After(x) == IF fd'[x] = None THEN {} ELSE pd'[fd'[x]].ev

\* g is left with data to send, and asks for write interest if it can.
Feeds(g) ==
    /\ CanBeSlow(g) /\ st[g] \notin {"free", "new_ok"}
    /\ io'[g] = [io[g] EXCEPT !.buf = "data", !.polling = TRUE]
    /\ After(g) = IF Data(g) \/ Reg(g) = {} THEN Reg(g) ELSE Reg(g) \cup {"w"}

Idles ==
    /\ UNCHANGED <<st, peer, fd, req>> /\ Spares({}) /\ Moves
    /\ \/ Hushed
       \/ phase = "tasks" /\ todo = 0 /\ \A x \in Conn : Hears(x)' => "r" \in Reg(x)
    /\ \/ ~Popping \/ UNCHANGED taskq
       \/ \A x \in Conn : /\ OwedAt(1, x, taskq) => ~io[x].paused
                          /\ TellsAt(1, x, taskq) => st[x] = "free" \/ peer[x] = None

\* h is deleted; it may have sent to its peer just before.
Left(h) ==
    /\ peer' = Unlinked(h) /\ st' = [st EXCEPT ![h] = "free"]
    /\ fd' = [fd EXCEPT ![h] = None] /\ io'[h] = FreshIo
    /\ \A f \in Frontend \ {h} : req'[f] = req[f]
    /\ Spares({h}) \/ (peer[h] # None /\ Spares({h, peer[h]}) /\ Feeds(peer[h]))

Leaves(h) ==
    /\ Left(h) /\ Hushed /\ Moves
    /\ phase = "events" => Reg(h) # {} \/ st[h] = "new_ok"
    /\ Popping => \A x \in Conn : OwedAt(1, x, taskq) \/ TellsAt(1, x, taskq) => x = h

\* h reads what its peer cannot take.
Congests(h) ==
    /\ UNCHANGED <<st, peer, fd, req, taskq>> /\ LoopGoes /\ phase = "events"
    /\ st[h] = "active_ok" /\ peer[h] # None /\ Reg(h) # {} /\ Hears(h)
    /\ io'[h] = [io[h] EXCEPT !.paused = TRUE]
    /\ Reg(h)' = IF io[h].paused THEN Reg(h) ELSE Reg(h) \ {"r"}
    /\ Feeds(peer[h]) /\ Spares({h, peer[h]}) /\ Hushed /\ ~Hears(h)'

\* h has sent everything, and tells its peer.
Drains(h) ==
    /\ UNCHANGED <<st, peer, fd, req>> /\ st[h] \notin {"free", "new_ok"}
    /\ io[h].polling /\ Reg(h) # {}
    /\ io'[h] = [io[h] EXCEPT !.buf = "empty", !.polling = FALSE]
    /\ Reg(h)' = Reg(h) \ {"w"} /\ Spares({h}) /\ Hushed /\ InEvents(DrainedTask(h))

\* The connect of b ends well.
Attaches(b) ==
    /\ st[b] = "new_ok" /\ peer[b] # None /\ st' = [st EXCEPT ![b] = "active_ok"]
    /\ UNCHANGED <<peer, fd, req, io>> /\ Reg(b)' = {"r"} /\ ~Hears(b)'
    /\ Spares({b}) /\ Hushed /\ Moves /\ phase = "events"
    /\ st[peer[b]] = "conn_ok" => Tells(peer[b], taskq')

\* f, new or with its first request at hand, gets a backend.
Couples(f, b) ==
    /\ st[b] = "free" /\ (st[f] = "free" \/ (st[f] = "conn_ok" /\ req[f] = "no"))
    /\ peer' = [peer EXCEPT ![f] = b, ![b] = f] /\ UNCHANGED io
    /\ \E s \in {"new_ok", "active_ok"} : st' = [st EXCEPT ![f] = "conn_ok", ![b] = s]
    /\ st'[b] = "active_ok" => "sync_connect" \in env
    /\ fd'[f] # None /\ fd'[b] # None /\ \A x \in Conn \ {f, b} : fd'[x] = fd[x]
    /\ \A g \in Frontend \ {f} : req'[g] = req[g]
    /\ req'[f] = "yes" \/ "host_port" \in env
    /\ Reg(f)' = {} /\ "r" \in Reg(b)' /\ (st'[b] = "active_ok" => Reg(b)' = {"r"})
    /\ Spares({f, b}) /\ (\A x \in Conn \ {f, b} : Hears(x)' => Hears(x))
    /\ Moves /\ phase = "events"

\* f waits for its first request.
Enters(f) ==
    /\ st[f] = "free" /\ "host_port" \in env /\ st' = [st EXCEPT ![f] = "conn_ok"]
    /\ UNCHANGED <<peer, req, io>>
    /\ fd'[f] # None /\ \A x \in Conn \ {f} : fd'[x] = fd[x]
    /\ Reg(f)' = {"r"} /\ Spares({f}) /\ (\A x \in Conn \ {f} : Hears(x)' => Hears(x))
    /\ Moves /\ phase = "events"

\* h, told that its peer drained, reads again.
Resumes(h) ==
    /\ UNCHANGED <<st, peer, fd, req>> /\ Live(h) /\ io[h].paused /\ Reg(h) = {}
    /\ io'[h] = [io[h] EXCEPT !.paused = FALSE] /\ Reg(h)' = {"r"}
    /\ Spares({h}) /\ Hushed /\ Moves /\ Popping /\ OwedAt(1, h, taskq)

\* f, told that its backend is connected, sends what it saved and reads.
Serves(f) ==
    /\ Live(f) /\ peer[f] # None /\ st' = [st EXCEPT ![f] = "active_ok"]
    /\ UNCHANGED <<peer, fd>> /\ req' = [req EXCEPT ![f] = "yes"] /\ Reg(f)' = {"r"}
    /\ \/ io'[f] = io[f] /\ Spares({f})
       \/ /\ "host_port" \in env /\ io'[f] = [io[f] EXCEPT !.paused = TRUE]
          /\ Feeds(peer[f]) /\ Spares({f, peer[f]})
    /\ Hushed /\ Moves /\ Popping /\ TellsAt(1, f, taskq)

AllAnew ==
    /\ st' = [h \in Conn |-> "free"] /\ peer' = [h \in Conn |-> None]
    /\ fd' = [h \in Conn |-> None] /\ io' = [h \in Conn |-> FreshIo]
    /\ taskq' = <<>>

FlowStep ==
    \/ Idles \/ AllAnew
    \/ \E h \in Conn : Leaves(h) \/ Congests(h) \/ Drains(h) \/ Resumes(h)
    \/ \E b \in Backend : Attaches(b)
    \/ \E f \in Frontend : Enters(f) \/ Serves(f) \/ \E b \in Backend : Couples(f, b)

\* What the steps are read from.
FInv0 == IInv /\ FreeHasNoApp /\ PInv /\ UInv /\ BInv /\ GInv

----------------------------------------------------------------------------
(* Every step is one of these                                               *)

\* A step changes what is registered for h only through h's descriptor.
LEMMA RegNext ==
    /\ \A x : Reg(x)' = After(x)
    /\ \A x : fd'[x] = fd[x] => Reg(x)' = RegIn(pd', x) /\ After(x) = RegIn(pd', x)
    /\ \A x : fd'[x] = None => Reg(x)' = {} /\ ~Hears(x)'
    /\ \A x : fd'[x] # None => Reg(x)' = pd'[fd'[x]].ev
BY DEF Reg, RegIn, Hears, After

LEMMA Listens ==
    ASSUME IInv, ready' \subseteq ready,
           \/ cur' = None \/ cur' = cur \/ cur' \in ready
           \/ cur # None /\ "in" \in cur.ev /\ cur' = [cur EXCEPT !.ev = {"in"}]
    PROVE  \A x : fd'[x] = fd[x] => (Hears(x)' => Hears(x))
<1>1. cur # None => cur \in Event
  BY IInvParts DEF LoopTypes
<1>2. cur # None /\ cur' = [cur EXCEPT !.ev = {"in"}] => cur'.fd = cur.fd
  BY <1>1 DEF Event
<1> QED
  BY <1>2 DEF Hears

\* The event at hand is the last of its descriptor.
LEMMA EventUsed ==
    ASSUME BInv, NEW h, cur # None, cur.fd = fd[h], cur' = None, ready' = ready, fd'[h] = fd[h]
    PROVE  ~Hears(h)'
BY DEF BInv, BatchApart, Hears

LEMMA MuteTasks ==
    ASSUME IInv
    PROVE  /\ Mute(<<>>)
           /\ \A h \in Conn : Mute(PeerTask(h))
           /\ \A f \in Frontend : /\ Mute(<<T("backend_conn_fail", f)>>)
                                 /\ Mute(<<T("frontend_inactive", f)>>)
                                 /\ Mute(Told(f)) /\ Mute(SyncFailTasks(f))
<1>1. Mute(<<>>)
  BY DEF Mute
<1>2. ASSUME NEW t \in Task, t.type \notin Drained PROVE Mute(<<t>>)
  BY <1>2 DEF Mute
<1>3. ASSUME NEW f \in Frontend
      PROVE  /\ Mute(<<T("backend_conn_fail", f)>>) /\ Mute(<<T("frontend_inactive", f)>>)
             /\ Mute(Told(f)) /\ Mute(SyncFailTasks(f)) /\ Mute(<<T("backend_close", f)>>)
  <2>1. \A t \in {"backend_conn_fail", "frontend_inactive", "backend_conn_ok", "backend_close"} :
           T(t, f) \in Task /\ T(t, f).type = t /\ t \notin Drained
    BY DEF T, Task, Drained
  <2>2. SyncFailTasks(f) \in Seq(Task) /\ \A i \in 1..Len(SyncFailTasks(f)) :
           SyncFailTasks(f)[i] \in {T("backend_conn_ok", f), T("backend_close", f)}
    BY <2>1 DEF SyncFailTasks
  <2> QED
    BY <1>2, <2>1, <2>2 DEF Told, Mute
<1>4. ASSUME NEW b \in Backend PROVE Mute(<<T("frontend_close", b)>>)
  <2>1. T("frontend_close", b) \in Task /\ T("frontend_close", b).type \notin Drained
    BY DEF T, Task, Drained
  <2> QED
    BY <1>2, <2>1
<1>5. ASSUME NEW h \in Conn PROVE Mute(PeerTask(h))
  <2>1. CASE peer[h] = None
    BY <1>1, <2>1 DEF PeerTask
  <2>2. CASE peer[h] # None /\ h \in Frontend
    <3>1. peer[h] \in Backend /\ PeerTask(h) = <<T("frontend_close", peer[h])>>
      BY <2>2, Pairs DEF PeerTask
    <3> QED
      BY <1>4, <3>1
  <2>3. CASE peer[h] # None /\ h \in Backend
    <3>1. peer[h] \in Frontend /\ PeerTask(h) = <<T("backend_close", peer[h])>>
      BY <2>3, Pairs DEF PeerTask
    <3> QED
      BY <1>3, <3>1
  <2> QED
    BY <2>1, <2>2, <2>3 DEF Conn
<1> QED
  BY <1>1, <1>3, <1>5

LEMMA MuteConcat == ASSUME NEW a, NEW c, Mute(a), Mute(c) PROVE Mute(a \o c)
<1>1. a \in Seq(Task) /\ c \in Seq(Task)
  BY DEF Mute
<1>2. a \o c \in Seq(Task) /\ Len(a \o c) = Len(a) + Len(c) /\ Len(a) \in Nat /\ Len(c) \in Nat
      /\ (\A i \in 1..Len(a) : (a \o c)[i] = a[i])
      /\ \A i \in 1..(Len(a) + Len(c)) : i > Len(a) =>
            i - Len(a) \in 1..Len(c) /\ (a \o c)[i] = c[i - Len(a)]
  BY <1>1
<1> QED
  BY <1>2 DEF Mute

\* r is what Forward(h) leaves when the peer of h cannot take everything.
Clogged(r, h) ==
    /\ peer[h] # None /\ CanBeSlow(peer[h]) /\ st[peer[h]] \notin {"free", "new_ok"}
    /\ r[1][peer[h]] = [io[peer[h]] EXCEPT !.buf = "data", !.polling = TRUE]
    /\ r[1][h] = [io[h] EXCEPT !.paused = TRUE]
    /\ RegIn(r[2], peer[h]) = IF Data(peer[h]) \/ Reg(peer[h]) = {} THEN Reg(peer[h])
                              ELSE Reg(peer[h]) \cup {"w"}
    /\ RegIn(r[2], h) = IF io[h].paused THEN Reg(h) ELSE Reg(h) \ {"r"}
    /\ \A x \in Conn \ {h, peer[h]} : r[1][x] = io[x] /\ RegIn(r[2], x) = Reg(x)
    /\ Sane(r[2])

LEMMA ForwardSeen ==
    ASSUME IInv, PInv, BInv, GInv, NEW h \in Conn, fd[h] # None, NEW r \in Forward(h)
    PROVE  r = <<io, pd>> \/ Clogged(r, h)
<1>1. CASE peer[h] = None
  BY <1>1 DEF Forward
<1>2. CASE peer[h] # None
  <2> DEFINE g == peer[h]
  <2>1. g \in Conn /\ g # h /\ Live(g) /\ fd[g] # None /\ io[g] \in IoState /\ io \in [Conn -> IoState]
        /\ io = [io EXCEPT ![g] = io[g]]
    <3>1. g \in Conn /\ g # h /\ Live(g)
      BY <1>2, Types, Pairs DEF IInv, LinkSymmetry, Conn
    <3> QED
      BY <3>1, MoreTypes DEF BInv, LiveHasFd
  <2>2. PICK new \in SendIo(g) :
          r = IF new.buf = "data"
              THEN <<[io EXCEPT ![g] = new, ![h] = PauseIo(h)],
                     PausePd(h, SendPd(g, new, pd))>>
              ELSE <<[io EXCEPT ![g] = new], SendPd(g, new, pd)>>
    BY <1>2 DEF Forward
  <2>3. Sane(pd)
    BY MoreTypes DEF BInv, Tidy, Sane
  <2>4. CASE new.buf # "data"
    <3>1. new = io[g]
      BY <2>1, <2>2, <2>4 DEF SendIo, IoState
    <3>2. SendPd(g, new, pd) = pd
      BY <2>4 DEF SendPd
    <3> QED
      BY <2>1, <2>2, <2>4, <3>1, <3>2
  <2>5. CASE new.buf = "data"
    <3>1. st[g] \notin {"free", "new_ok"}
      <4>1. st[g] = "new_ok" => io[g].buf = "none" /\ new = io[g]
        BY <2>1, <2>2 DEF BInv, Fresh, FreshIo, SendIo
      <4> QED
        BY <2>1, <2>5, <4>1 DEF Live, LiveState
    <3>2. /\ new = [io[g] EXCEPT !.buf = "data", !.polling = TRUE] /\ CanBeSlow(g)
          /\ io[g].polling <=> Data(g)
      <4>0. (io[g].polling <=> Data(g)) /\ (Data(g) => CanBeSlow(g))
        BY <2>1 DEF GInv, PollingData, SlowOnly
      <4>1. CASE Data(g)
        <5>1. new = io[g]
          BY <2>1, <2>2, <3>1, <4>1 DEF SendIo, Data
        <5>2. io[g] = [io[g] EXCEPT !.buf = "data", !.polling = TRUE]
          BY <2>1, <4>0, <4>1 DEF Data, IoState
        <5> QED
          BY <4>0, <4>1, <5>1, <5>2
      <4>2. CASE ~Data(g)
        BY <2>2, <2>5, <3>1, <4>0, <4>2 DEF SendIo, Data
      <4> QED
        BY <4>1, <4>2
    <3> DEFINE p == SendPd(g, new, pd)
    <3>3. p = IF Data(g) THEN pd ELSE AppendEv(pd, fd[g], "w")
      BY <2>5, <3>2 DEF SendPd, Data
    <3>4. /\ Sane(p)
          /\ RegIn(p, g) = IF Data(g) \/ Reg(g) = {} THEN Reg(g) ELSE Reg(g) \cup {"w"}
          /\ \A x \in Conn \ {g} : RegIn(p, x) = Reg(x)
      <4>1. fd[g] \in Fd
        BY <2>1, MoreTypes
      <4>2. Sane(AppendEv(pd, fd[g], "w"))
        BY <2>3, <4>1, SaneCalls
      <4>3. /\ RegIn(AppendEv(pd, fd[g], "w"), g) = IF Reg(g) = {} THEN {} ELSE Reg(g) \cup {"w"}
            /\ \A x \in Conn \ {g} : RegIn(AppendEv(pd, fd[g], "w"), x) = Reg(x)
        BY <2>1, <2>3, AppendSeen DEF Reg
      <4>4. CASE Data(g)
        BY <2>3, <3>3, <4>4 DEF Reg
      <4>5. CASE ~Data(g)
        BY <3>3, <4>2, <4>3, <4>5
      <4> QED
        BY <4>4, <4>5
    <3> HIDE DEF p
    <3> DEFINE q == PausePd(h, p)
    <3>5. q = IF io[h].paused THEN p ELSE RemoveEv(p, fd[h], "r")
      BY DEF PausePd
    <3>6. /\ Sane(q)
          /\ RegIn(q, h) = IF io[h].paused THEN RegIn(p, h) ELSE RegIn(p, h) \ {"r"}
          /\ \A x \in Conn \ {h} : RegIn(q, x) = RegIn(p, x)
      <4>1. fd[h] \in Fd
        BY MoreTypes
      <4>2. Sane(RemoveEv(p, fd[h], "r"))
        BY <3>4, <4>1, SaneCalls
      <4>3. /\ RegIn(RemoveEv(p, fd[h], "r"), h) = RegIn(p, h) \ {"r"}
            /\ \A x \in Conn \ {h} : RegIn(RemoveEv(p, fd[h], "r"), x) = RegIn(p, x)
        BY <3>4, RemoveEvSeen
      <4>4. CASE io[h].paused
        BY <3>4, <3>5, <4>4
      <4>5. CASE ~io[h].paused
        BY <3>5, <4>2, <4>3, <4>5
      <4> QED
        BY <4>4, <4>5
    <3> HIDE DEF q
    <3>7. r = <<[io EXCEPT ![g] = new, ![h] = PauseIo(h)], q>>
      BY <2>2, <2>5 DEF q, p
    <3>8. /\ r[2] = q /\ r[1][g] = new /\ r[1][h] = [io[h] EXCEPT !.paused = TRUE]
          /\ \A x \in Conn \ {h, g} : r[1][x] = io[x]
      BY <2>1, <3>7 DEF PauseIo
    <3> QED
      BY <1>2, <2>1, <3>1, <3>2, <3>4, <3>6, <3>8 DEF Clogged
  <2> QED
    BY <2>4, <2>5
<1> QED
  BY <1>1, <1>2

\* A step that changes neither handlers nor the poller, and pushes or pops tasks.
LEMMA IdleSteps ==
    ASSUME FInv0,
           \/ EpollWait \/ NextEvent \/ LoopTop \/ SkipEvent \/ AcceptDone
           \/ TimerDone \/ StaleTask \/ UNCHANGED vars \/ Crash
           \/ \E f \in Frontend : FrontendInactive(f)
    PROVE  FlowStep /\ Tidy'
<1>0. IInv /\ BInv /\ Tidy /\ PInv
  BY DEF FInv0, BInv
<1>1. UNCHANGED <<st, peer, fd, io, req, pd>>
  BY DEF EpollWait, NextEvent, LoopTop, SkipEvent, AcceptDone, TimerDone, StaleTask, DropTask,
         Crash, FrontendInactive, vars, handlers
<1>2. Tidy' /\ Spares({})
  BY <1>0, <1>1 DEF Tidy, Spares, Reg, RegIn
<1>3. CASE EpollWait
  <2>1. LoopGoes /\ phase = "tasks" /\ todo = 0 /\ cur' = cur /\ UNCHANGED taskq
    BY <1>3 DEF EpollWait, LoopGoes
  <2>2. PICK b \in SUBSET ({ListenEvent, TimerEvent} \cup
                       (UNION {EventsOf(n) : n \in {m \in Fd : Registered(m)}})) : ready' = b
    BY <1>3 DEF EpollWait
  <2>3. \A e \in ready' : e.fd \in Fd /\ "in" \in e.ev => "r" \in pd[e.fd].ev
    <3> SUFFICES ASSUME NEW e \in ready', e.fd \in Fd, "in" \in e.ev PROVE "r" \in pd[e.fd].ev
      OBVIOUS
    <3>1. e # ListenEvent /\ e # TimerEvent
      BY ConstantsAssumption DEF ListenEvent, TimerEvent
    <3>2. PICK n \in Fd : e \in EventsOf(n)
      BY <2>2, <3>1
    <3> QED
      BY <3>2 DEF EventsOf
  <2>4. cur' = None
    BY <1>0, <2>1 DEF BInv, BatchApart
  <2>5. \A x \in Conn : Hears(x)' => "r" \in Reg(x)
    BY <1>0, <1>1, <2>3, <2>4, MoreTypes DEF Hears, Reg, RegIn
  <2> QED
    BY <1>1, <1>2, <2>1, <2>5 DEF Moves, Idles, FlowStep, Popping
<1>4. CASE \/ NextEvent \/ LoopTop \/ SkipEvent \/ AcceptDone \/ TimerDone \/ UNCHANGED vars \/ Crash
  <2>1. LoopGoes /\ UNCHANGED taskq
    BY <1>4 DEF NextEvent, LoopTop, SkipEvent, AcceptDone, TimerDone, Crash, EndEvent, IoEvent, InEvent,
                vars, handlers, LoopGoes
  <2>2. ready' \subseteq ready /\ (cur' = None \/ cur' = cur \/ cur' \in ready)
    BY <1>4 DEF NextEvent, LoopTop, SkipEvent, AcceptDone, TimerDone, Crash, EndEvent, vars
  <2>3. Hushed
    BY <1>0, <1>1, <2>2, Listens DEF Hushed
  <2> QED
    BY <1>1, <1>2, <2>1, <2>3 DEF Moves, Idles, FlowStep
<1>5. CASE StaleTask /\ ~Crash
  <2>1. /\ phase = "tasks" /\ todo > 0 /\ ~Live(Head(taskq).p) /\ taskq' = Tail(taskq) /\ EndTask
    BY <1>5 DEF StaleTask, DropTask
  <2>2. taskq # <<>> /\ taskq \in Seq(Task) /\ taskq' = Tail(taskq) \o <<>>
    BY <1>0, <2>1, TailTasks, Shapes
  <2>3. Moves
    BY <1>0, <2>1, <2>2, MuteTasks DEF Moves, Popping, EndTask
  <2>4. \A x \in Conn : OwedAt(1, x, taskq) \/ TellsAt(1, x, taskq) => st[x] = "free" /\ ~io[x].paused
    <3> SUFFICES ASSUME NEW x \in Conn, OwedAt(1, x, taskq) \/ TellsAt(1, x, taskq)
                 PROVE  st[x] = "free" /\ ~io[x].paused
      OBVIOUS
    <3>1. ~Live(x)
      BY <2>1, <2>2 DEF OwedAt, TellsAt
    <3>2. st[x] = "free"
      BY <1>0, <3>1, Types DEF Live
    <3> QED
      BY <1>0, <3>2 DEF BInv, Fresh, FreshIo
  <2>5. Hushed
    BY <1>0, <1>1, <2>1, Listens DEF Hushed, EndTask
  <2> QED
    BY <1>1, <1>2, <2>3, <2>4, <2>5 DEF Idles, FlowStep
<1>6. ASSUME NEW f \in Frontend, FrontendInactive(f) PROVE FlowStep
  <2>1. /\ phase = "events" /\ phase' = "events" /\ taskq' = Append(taskq, T("frontend_inactive", f))
        /\ UNCHANGED <<ready, cur>>
    BY <1>6 DEF FrontendInactive, InEvent
  <2>2. Mute(<<T("frontend_inactive", f)>>) /\ T("frontend_inactive", f) \in Task
    BY <1>0, MuteTasks DEF T, Task
  <2>3. InEvents(<<T("frontend_inactive", f)>>)
    BY <1>0, <2>1, <2>2, Shapes DEF InEvents, Mute
  <2>4. Hushed
    BY <1>0, <1>1, <2>1, Listens DEF Hushed
  <2> QED
    BY <1>1, <1>2, <2>1, <2>2, <2>3, <2>4 DEF Moves, Idles, FlowStep, Popping
<1> QED
  BY <1>2, <1>3, <1>4, <1>5, <1>6

\* s and p are what h leaves in the send queues and in the poller of the others.
Sent(s, p, h) ==
    \/ \A x \in Conn \ {h} : s[x] = io[x] /\ RegIn(p, x) = Reg(x)
    \/ /\ peer[h] # None /\ CanBeSlow(peer[h]) /\ st[peer[h]] \notin {"free", "new_ok"}
       /\ s[peer[h]] = [io[peer[h]] EXCEPT !.buf = "data", !.polling = TRUE]
       /\ RegIn(p, peer[h]) = IF Data(peer[h]) \/ Reg(peer[h]) = {} THEN Reg(peer[h])
                              ELSE Reg(peer[h]) \cup {"w"}
       /\ \A x \in Conn \ {h, peer[h]} : s[x] = io[x] /\ RegIn(p, x) = Reg(x)

LEMMA CloseSent ==
    ASSUME IInv, PInv, BInv, NEW h \in Conn, fd[h] # None
    PROVE  Sane(RemoveAll(pd, fd[h])) /\ Sent(io, RemoveAll(pd, fd[h]), h)
<1>1. Sane(pd) /\ fd[h] \in Fd
  BY MoreTypes DEF BInv, Tidy, Sane
<1>2. Sane(RemoveAll(pd, fd[h]))
  BY <1>1, SaneCalls
<1>3. \A x \in Conn \ {h} : RegIn(RemoveAll(pd, fd[h]), x) = Reg(x)
  BY <1>1, RemoveAllSeen DEF Reg
<1> QED
  BY <1>2, <1>3 DEF Sent

LEMMA ForwardSent ==
    ASSUME IInv, PInv, BInv, GInv, NEW h \in Conn, fd[h] # None, NEW r \in Forward(h)
    PROVE  /\ Sane(r[2]) /\ Sent(r[1], r[2], h)
           /\ Sane(RemoveAll(r[2], fd[h])) /\ Sent(r[1], RemoveAll(r[2], fd[h]), h)
           /\ r[1] \in [Conn -> IoState]
<1>1. Sane(pd) /\ fd[h] \in Fd
  BY MoreTypes DEF BInv, Tidy, Sane
<1>2. Sane(r[2]) /\ Sent(r[1], r[2], h)
  <2>1. CASE r = <<io, pd>>
    BY <1>1, <2>1 DEF Sent, Reg
  <2>2. CASE Clogged(r, h)
    BY <2>2 DEF Clogged, Sent
  <2> QED
    BY <2>1, <2>2, ForwardSeen
<1>3. Sane(RemoveAll(r[2], fd[h]))
  BY <1>1, <1>2, SaneCalls
<1>4. \A x \in Conn \ {h} : RegIn(RemoveAll(r[2], fd[h]), x) = RegIn(r[2], x)
  BY <1>2, RemoveAllSeen
<1>5. peer[h] # None => peer[h] \in Conn \ {h}
  BY Types, Pairs DEF IInv, LinkSymmetry, Conn
<1>6. Sent(r[1], RemoveAll(r[2], fd[h]), h)
  BY <1>2, <1>4, <1>5, Zenon DEF Sent
<1>7. r[1] \in [Conn -> IoState]
  BY ForwardType DEF IInv
<1> QED
  BY <1>2, <1>3, <1>6, <1>7

LEMMA OnCloseLeft ==
    ASSUME IInv, NEW h \in Conn, NEW q, NEW p, NEW s \in [Conn -> IoState], Sane(p), Sent(s, p, h),
           OnClose(h, q, p, s)
    PROVE  Left(h) /\ Tidy' /\ taskq' = q \o PeerTask(h)
<1>1. /\ peer' = Unlinked(h) /\ st' = [st EXCEPT ![h] = "free"]
      /\ fd' = [fd EXCEPT ![h] = None] /\ io' = [s EXCEPT ![h] = FreshIo] /\ pd' = p
      /\ taskq' = q \o PeerTask(h)
      /\ req' = IF h \in Frontend THEN [req EXCEPT ![h] = "no"] ELSE req
  BY DEF OnClose
<1>2. io'[h] = FreshIo /\ \A x \in Conn \ {h} : io'[x] = s[x] /\ fd'[x] = fd[x]
  BY <1>1, MoreTypes
<1>3. \A x \in Conn \ {h} : Reg(x)' = RegIn(p, x) /\ After(x) = RegIn(p, x)
  BY <1>1, <1>2, RegNext
<1>4. \A f \in Frontend \ {h} : req'[f] = req[f]
  BY <1>1, Types
<1>5. peer[h] # None => peer[h] \in Conn \ {h}
  BY Types, Pairs DEF IInv, LinkSymmetry, Conn
<1>6. Spares({h}) \/ (peer[h] # None /\ Spares({h, peer[h]}) /\ Feeds(peer[h]))
  <2>1. CASE \A x \in Conn \ {h} : s[x] = io[x] /\ RegIn(p, x) = Reg(x)
    BY <1>2, <1>3, <2>1 DEF Spares
  <2>2. CASE ~(\A x \in Conn \ {h} : s[x] = io[x] /\ RegIn(p, x) = Reg(x))
    <3>1. /\ peer[h] # None /\ CanBeSlow(peer[h]) /\ st[peer[h]] \notin {"free", "new_ok"}
          /\ s[peer[h]] = [io[peer[h]] EXCEPT !.buf = "data", !.polling = TRUE]
          /\ RegIn(p, peer[h]) = IF Data(peer[h]) \/ Reg(peer[h]) = {} THEN Reg(peer[h])
                                 ELSE Reg(peer[h]) \cup {"w"}
          /\ \A x \in Conn \ {h, peer[h]} : s[x] = io[x] /\ RegIn(p, x) = Reg(x)
      BY <2>2 DEF Sent
    <3>2. Spares({h, peer[h]})
      BY <1>2, <1>3, <3>1 DEF Spares
    <3>3. Feeds(peer[h])
      <4>1. io'[peer[h]] = s[peer[h]] /\ After(peer[h]) = RegIn(p, peer[h])
        BY <1>2, <1>3, <1>5, <3>1
      <4> QED
        BY <3>1, <4>1 DEF Feeds
    <3> QED
      BY <3>1, <3>2, <3>3
  <2> QED
    BY <2>1, <2>2
<1>7. Tidy'
  BY <1>1 DEF Sane, Tidy
<1> QED
  BY <1>1, <1>2, <1>4, <1>6, <1>7 DEF Left

\* A delete in an event of h.
LEMMA EventLeaves ==
    ASSUME FInv0, NEW h \in Conn, NEW k, NEW e, Handling(h, k, e), EndEvent,
           NEW p, NEW s \in [Conn -> IoState], Sane(p), Sent(s, p, h),
           NEW a, Mute(a), OnClose(h, taskq \o a, p, s)
    PROVE  FlowStep /\ Tidy'
<1>0. IInv /\ PInv /\ BInv /\ Tidy
  BY DEF FInv0, BInv
<1>1. fd[h] \in Fd /\ pd[fd[h]].eh = h /\ fd[h] # None /\ h # None /\ phase = "events" /\ phase' = "events"
  BY <1>0, Dispatch, Types, MoreTypes DEF Handling, IoEvent, InEvent, EndEvent
<1>2. Reg(h) # {}
  BY <1>0, <1>1 DEF Tidy, TidyTable, Reg, RegIn
<1>3. Left(h) /\ Tidy' /\ taskq' = (taskq \o a) \o PeerTask(h)
  BY <1>0, OnCloseLeft
<1>4. Moves
  <2>1. Mute(PeerTask(h)) /\ Mute(a \o PeerTask(h))
    BY <1>0, MuteTasks, MuteConcat
  <2>2. taskq \in Seq(Task) /\ a \in Seq(Task) /\ PeerTask(h) \in Seq(Task)
        /\ a \o PeerTask(h) \in Seq(Task)
    BY <1>0, <2>1, Types DEF Mute
  <2>3. (taskq \o a) \o PeerTask(h) = taskq \o (a \o PeerTask(h))
    BY <2>2
  <2>4. taskq' = taskq \o (a \o PeerTask(h))
    BY <1>3, <2>3, Zenon
  <2> QED
    BY <1>1, <2>1, <2>2, <2>4 DEF Moves, InEvents
<1>5. Hushed
  <2>1. fd' = [fd EXCEPT ![h] = None]
    BY <1>3 DEF Left
  <2>2. \A x \in Conn : fd'[x] = fd[x] \/ fd'[x] = None
    BY <1>0, <2>1, MoreTypes
  <2> QED
    BY <1>0, <2>2, Listens, RegNext DEF Hushed, EndEvent
<1> QED
  BY <1>1, <1>2, <1>3, <1>4, <1>5 DEF Leaves, FlowStep, Popping

LEMMA IoEventFlow ==
    ASSUME FInv0, NEW h \in Conn, Events(h)
    PROVE  FlowStep /\ Tidy'
<1>0. IInv /\ PInv /\ UInv /\ BInv /\ GInv /\ Tidy /\ PollingData
  BY DEF FInv0, BInv, GInv
<1>1. Sane(pd) /\ \A x \in Conn : Reg(x) = RegIn(pd, x)
  BY <1>0, MoreTypes DEF Sane, Reg, Tidy
<1>2. PICK e \in {"err", "in", "out"} : Handling(h, "io", e)
  BY DEF Events, OnError, OnWrite, OnReadNothing, OnReadClose, OnReadForward
<1>3. /\ fd[h] \in Fd /\ pd[fd[h]].eh = h /\ fd[h] # None /\ h # None /\ phase = "events"
      /\ cur # None /\ cur.fd = fd[h] /\ st[h] \notin {"free", "new_ok"} /\ Live(h)
  BY <1>0, <1>2, Dispatch, Types, MoreTypes DEF Handling, IoEvent, InEvent
<1>4. Reg(h) # {}
  BY <1>0, <1>3 DEF Tidy, TidyTable, Reg, RegIn
<1>5. CASE OnError(h) \/ OnReadClose(h)
  <2>1. Sane(RemoveAll(pd, fd[h])) /\ Sent(io, RemoveAll(pd, fd[h]), h) /\ io \in [Conn -> IoState]
    BY <1>0, <1>3, CloseSent, MoreTypes
  <2>2. Handling(h, "io", e) /\ EndEvent /\ OnClose(h, taskq, RemoveAll(pd, fd[h]), io)
    BY <1>2, <1>5 DEF OnError, OnReadClose, Close
  <2>3. Mute(<<>>) /\ taskq = taskq \o <<>>
    BY <1>0, MuteTasks, Shapes
  <2>4. OnClose(h, taskq \o <<>>, RemoveAll(pd, fd[h]), io)
    BY <2>2, <2>3, Zenon
  <2> QED
    BY <2>1, <2>2, <2>3, <2>4, EventLeaves
<1>6. CASE OnReadNothing(h)
  <2>1. UNCHANGED <<st, peer, fd, io, req, pd, taskq>> /\ LoopGoes /\ EndEvent
    BY <1>3, <1>6 DEF OnReadNothing, handlers, EndEvent, LoopGoes
  <2>2. Hushed
    BY <1>0, <2>1, Listens DEF Hushed, EndEvent
  <2>3. Tidy' /\ Spares({})
    BY <1>0, <2>1 DEF Tidy, Spares, Reg, RegIn
  <2> QED
    BY <2>1, <2>2, <2>3 DEF Moves, Idles, FlowStep
<1>7. CASE OnReadForward(h)
  <2>1. PICK r \in Forward(h) : io' = r[1] /\ pd' = r[2]
    BY <1>7 DEF OnReadForward
  <2>2. UNCHANGED <<st, peer, fd, req, taskq>> /\ LoopGoes /\ EndEvent /\ Handling(h, "io", "in")
        /\ (h \in Frontend => req[h] = "yes")
    BY <1>3, <1>7 DEF OnReadForward, EndEvent, LoopGoes
  <2>3. Hushed
    BY <1>0, <2>2, Listens DEF Hushed, EndEvent
  <2>4. \A x \in Conn : Reg(x)' = RegIn(r[2], x) /\ After(x) = RegIn(r[2], x)
    BY <2>1, <2>2, RegNext
  <2>5. Tidy'
    <3>1. Sane(r[2])
      BY <1>0, <1>3, ForwardSent
    <3> QED
      BY <2>1, <3>1 DEF Sane, Tidy
  <2>6. CASE r = <<io, pd>>
    <3>1. Spares({})
      BY <1>1, <2>1, <2>4, <2>6 DEF Spares
    <3> QED
      BY <2>2, <2>3, <2>5, <3>1 DEF Moves, Idles, FlowStep
  <2>7. CASE Clogged(r, h)
    <3>1. st[h] = "active_ok"
      <4>1. h \in Frontend => ~(st[h] = "conn_ok" /\ req[h] # "no")
        BY <1>0, <1>3 DEF UInv, WaitsUnpolled, Unpolled
      <4>2. h \in Backend => st[h] # "conn_ok"
        BY <1>0 DEF BInv, Stages
      <4> QED
        BY <1>0, <1>3, <2>2, <4>1, <4>2, Types DEF LiveState, Conn
    <3>2. Hears(h) /\ ~Hears(h)'
      BY <1>0, <1>3, <2>2, EventUsed DEF Hears, Handling, EndEvent
    <3>3. /\ peer[h] # None /\ Feeds(peer[h]) /\ io'[h] = [io[h] EXCEPT !.paused = TRUE]
          /\ Reg(h)' = IF io[h].paused THEN Reg(h) ELSE Reg(h) \ {"r"}
          /\ Spares({h, peer[h]})
      <4>1. peer[h] # None => peer[h] \in Conn
        BY <1>0, Types
      <4>2. Feeds(peer[h]) /\ peer[h] # None
        BY <2>1, <2>4, <2>7, <4>1 DEF Clogged, Feeds
      <4>3. Spares({h, peer[h]})
        BY <2>1, <2>4, <2>7 DEF Clogged, Spares
      <4>4. /\ io'[h] = [io[h] EXCEPT !.paused = TRUE]
            /\ Reg(h)' = IF io[h].paused THEN Reg(h) ELSE Reg(h) \ {"r"}
        BY <2>1, <2>4, <2>7 DEF Clogged
      <4> QED
        BY <4>2, <4>3, <4>4
    <3>4. Congests(h)
      BY <1>3, <1>4, <2>2, <2>3, <3>1, <3>2, <3>3 DEF Congests
    <3> QED
      BY <2>5, <3>4 DEF FlowStep
  <2> QED
    BY <1>0, <1>3, <2>6, <2>7, ForwardSeen
<1>8. CASE OnWrite(h) /\ ~Crash
  <2>1. /\ UNCHANGED <<st, peer, fd, req>> /\ phase' = phase /\ todo' = todo /\ ready' = ready
        /\ cur' = None \/ ("in" \in cur.ev /\ cur' = [cur EXCEPT !.ev = {"in"}])
        /\ \/ UNCHANGED <<io, pd, taskq>>
           \/ /\ io' = [io EXCEPT ![h].buf = "empty", ![h].polling = FALSE]
              /\ IF io[h].polling
                 THEN pd' = RemoveEv(pd, fd[h], "w") /\ taskq' = taskq \o DrainedTask(h)
                 ELSE UNCHANGED <<pd, taskq>> /\ io[h].buf # "none"
    BY <1>8 DEF OnWrite
  <2>2. Hushed
    BY <1>0, <1>3, <2>1, Listens DEF Hushed
  <2>3. CASE io[h].polling /\ pd' = RemoveEv(pd, fd[h], "w") /\ taskq' = taskq \o DrainedTask(h)
             /\ io' = [io EXCEPT ![h].buf = "empty", ![h].polling = FALSE]
    <3>1. Sane(pd') /\ RegIn(pd', h) = Reg(h) \ {"w"} /\ \A x \in Conn \ {h} : RegIn(pd', x) = Reg(x)
      <4>1. Sane(RemoveEv(pd, fd[h], "w"))
        BY <1>1, <1>3, SaneCalls
      <4> QED
        BY <1>0, <1>1, <1>3, <2>3, <4>1, RemoveEvSeen
    <3>2. \A x \in Conn : Reg(x)' = RegIn(pd', x)
      BY <2>1, RegNext
    <3>3. io'[h] = [io[h] EXCEPT !.buf = "empty", !.polling = FALSE] /\ \A x \in Conn \ {h} : io'[x] = io[x]
      BY <1>0, <2>3, MoreTypes DEF IoState
    <3>4. Silent(DrainedTask(h)) /\ InEvents(DrainedTask(h))
      BY <1>0, <1>3, <2>1, <2>3, SilentTasks DEF InEvents, Silent
    <3>5. Drains(h)
      BY <1>3, <1>4, <2>1, <2>2, <2>3, <3>1, <3>2, <3>3, <3>4 DEF Drains, Spares
    <3>6. Tidy'
      BY <3>1 DEF Sane, Tidy
    <3> QED
      BY <3>5, <3>6 DEF FlowStep
  <2>4. CASE UNCHANGED <<io, pd, taskq>>
    <3>1. Tidy' /\ Spares({}) /\ LoopGoes
      BY <1>0, <1>3, <2>1, <2>4 DEF Tidy, Spares, Reg, RegIn, LoopGoes
    <3> QED
      BY <2>1, <2>2, <2>4, <3>1 DEF Moves, Idles, FlowStep
  <2>5. CASE /\ ~io[h].polling /\ UNCHANGED <<pd, taskq>> /\ io[h].buf # "none"
             /\ io' = [io EXCEPT ![h].buf = "empty", ![h].polling = FALSE]
    <3>1. io[h].buf = "empty" /\ io[h] \in IoState /\ io \in [Conn -> IoState]
      BY <1>0, <2>5, MoreTypes DEF PollingData, Data, IoState
    <3>2. io' = io
      <4>1. io[h] = [io[h] EXCEPT !.buf = "empty", !.polling = FALSE]
        BY <2>5, <3>1 DEF IoState
      <4> QED
        BY <2>5, <3>1, <4>1 DEF IoState
    <3> QED
      BY <2>4, <2>5, <3>2
  <2> QED
    BY <2>1, <2>3, <2>4, <2>5
<1>9. CASE Crash
  BY <1>9, IdleSteps
<1> QED
  BY <1>5, <1>6, <1>7, <1>8, <1>9 DEF Events

\* A connect that ends for b is under way.
LEMMA ConnectEnding ==
    ASSUME IInv, PInv, UInv, NEW b \in Backend,
           OnConnectOk(b) \/ OnConnectFail(b) \/ ConnectTimeout(b)
    PROVE  /\ st[b] = "new_ok" /\ phase = "events" /\ phase' = "events"
           /\ b \in Conn /\ b \notin Frontend /\ b # None
<1>0. b \in Conn /\ b \notin Frontend /\ b # None
  BY Types
<1>1. CASE ConnectTimeout(b)
  BY <1>0, <1>1 DEF ConnectTimeout, InEvent, UInv, DueConnects
<1>2. CASE OnConnectOk(b) \/ OnConnectFail(b)
  <2>1. PICK e \in {"out", "in", "err"} : Handling(b, "connect", e) /\ EndEvent
    BY <1>2 DEF OnConnectOk, OnConnectFail
  <2>2. pd[cur.fd].eh = b /\ pd[cur.fd].kind = "connect" /\ cur.fd \in Fd /\ phase = "events"
    BY <2>1 DEF Handling, IoEvent, InEvent
  <2> QED
    BY <1>0, <2>1, <2>2 DEF PInv, PollerOwnsLive, Registered, EndEvent
<1> QED
  BY <1>1, <1>2

LEMMA ConnectEventFlow ==
    ASSUME FInv0, NEW b \in Backend,
           OnConnectOk(b) \/ OnConnectFail(b) \/ ConnectTimeout(b)
    PROVE  FlowStep /\ Tidy'
<1>0. IInv /\ PInv /\ UInv /\ BInv /\ GInv
  BY DEF FInv0
<1>1. /\ st[b] = "new_ok" /\ phase = "events" /\ phase' = "events"
      /\ b \in Conn /\ b \notin Frontend /\ b # None
  BY <1>0, ConnectEnding
<1>2. fd[b] # None /\ fd[b] \in Fd
  BY <1>0, <1>1, MoreTypes DEF BInv, LiveHasFd, Live, LiveState
<1>3. Sane(RemoveAll(pd, fd[b])) /\ Sent(io, RemoveAll(pd, fd[b]), b) /\ io \in [Conn -> IoState]
  BY <1>0, <1>1, <1>2, CloseSent, MoreTypes
<1>4. CASE OnConnectFail(b) \/ ConnectTimeout(b)
  <2>1. /\ peer' = Unlinked(b) /\ st' = [st EXCEPT ![b] = "free"] /\ fd' = [fd EXCEPT ![b] = None]
        /\ io' = [io EXCEPT ![b] = FreshIo] /\ req' = req /\ pd' = RemoveAll(pd, fd[b])
        /\ taskq' = IF peer[b] = None THEN taskq
                    ELSE Append(taskq, T("backend_conn_fail", peer[b]))
        /\ ready' = ready /\ (cur' = None \/ cur' = cur)
    BY <1>4 DEF OnConnectFail, ConnectTimeout, ConnectFail, EndEvent
  <2>2. Moves
    <3>1. CASE peer[b] = None
      BY <1>0, <1>1, <2>1, <3>1, MuteTasks, Shapes DEF Moves, InEvents, Mute
    <3>2. CASE peer[b] # None
      <4>1. Mute(<<T("backend_conn_fail", peer[b])>>) /\ T("backend_conn_fail", peer[b]) \in Task
        BY <1>0, <3>2, Pairs, MuteTasks DEF T, Task
      <4>2. taskq' = taskq \o <<T("backend_conn_fail", peer[b])>>
        BY <1>0, <2>1, <3>2, <4>1, Shapes
      <4> QED
        BY <1>1, <4>1, <4>2 DEF Moves, InEvents, Mute
    <3> QED
      BY <3>1, <3>2
  <2>3. io'[b] = FreshIo /\ \A x \in Conn \ {b} : io'[x] = io[x] /\ fd'[x] = fd[x]
    BY <1>0, <1>1, <2>1, MoreTypes
  <2>4. Spares({b})
    <3>1. \A x \in Conn \ {b} : RegIn(pd', x) = Reg(x)
      <4>1. Sane(pd)
        BY <1>0, MoreTypes DEF BInv, Tidy, Sane
      <4> QED
        BY <1>0, <1>1, <1>2, <2>1, <4>1, RemoveAllSeen DEF Reg
    <3> QED
      BY <2>3, <3>1, RegNext DEF Spares
  <2>5. Hushed
    <3>1. \A x \in Conn : fd'[x] = fd[x] \/ fd'[x] = None
      BY <1>0, <2>1, MoreTypes
    <3> QED
      BY <1>0, <2>1, <3>1, Listens, RegNext DEF Hushed
  <2>6. Left(b) /\ Tidy'
    BY <1>3, <2>1, <2>3, <2>4 DEF Left, Sane, Tidy
  <2> QED
    BY <1>1, <2>2, <2>5, <2>6 DEF Leaves, FlowStep, Popping
<1>5. CASE OnConnectOk(b)
  <2> DEFINE f == peer[b]
             p == RemoveAll(pd, fd[b])
             q == IF f # None /\ st[f] = "conn_ok"
                  THEN Append(taskq, T("backend_conn_ok", f)) ELSE taskq
  <2>1. /\ Handling(b, "connect", "out") /\ EndEvent
        /\ \/ /\ f # None
              /\ st' = [st EXCEPT ![b] = "active_ok"]
              /\ pd' = AddEv(p, fd[b], b, "io", {"r"})
              /\ taskq' = q
              /\ UNCHANGED <<peer, fd, io, req>>
           \/ OnClose(b, q, p, io)
    BY <1>5 DEF OnConnectOk
  <2>2. f # None => f \in Frontend
    BY <1>0, <1>1, Pairs
  <2>3. PICK a : /\ Mute(a) /\ q = taskq \o a
                 /\ f # None /\ st[f] = "conn_ok" => a = Told(f)
    <3>1. CASE f # None /\ st[f] = "conn_ok"
      <4>1. Mute(Told(f)) /\ q = taskq \o Told(f)
        BY <1>0, <2>2, <3>1, MuteTasks, Shapes
      <4> QED
        BY <4>1
    <3>2. CASE ~(f # None /\ st[f] = "conn_ok")
      <4>1. Mute(<<>>) /\ q = taskq \o <<>>
        BY <1>0, <3>2, MuteTasks, Shapes
      <4> QED
        BY <3>2, <4>1
    <3> QED
      BY <3>1, <3>2
  <2>4. Sane(p) /\ Sent(io, p, b)
    BY <1>3
  <2> HIDE DEF q, p
  <2>5. CASE OnClose(b, q, p, io)
    <3>1. OnClose(b, taskq \o a, p, io)
      BY <2>3, <2>5, Zenon
    <3> QED
      BY <1>1, <1>3, <2>1, <2>3, <2>4, <3>1, EventLeaves
  <2>6. CASE /\ f # None
             /\ st' = [st EXCEPT ![b] = "active_ok"]
             /\ pd' = AddEv(p, fd[b], b, "io", {"r"})
             /\ taskq' = q
             /\ UNCHANGED <<peer, fd, io, req>>
    <3>1. Sane(pd')
      BY <1>1, <1>2, <2>4, <2>6, SaneCalls
    <3>2. Reg(b)' = {"r"} /\ Spares({b})
      <4>1. Sane(pd)
        BY <1>0, MoreTypes DEF BInv, Tidy, Sane
      <4>2. \A x \in Conn \ {b} : RegIn(p, x) = Reg(x)
        BY <1>0, <1>1, <1>2, <4>1, RemoveAllSeen DEF Reg, p
      <4>3. RegIn(pd', b) = {"r"} /\ \A x \in Conn \ {b} : RegIn(pd', x) = RegIn(p, x)
        <5>1. /\ RegIn(AddEv(p, fd[b], b, "io", {"r"}), b) = {"r"}
              /\ \A x \in Conn \ {b} : RegIn(AddEv(p, fd[b], b, "io", {"r"}), x) = RegIn(p, x)
          BY <1>0, <1>1, <1>2, <2>4, ReadsSeen
        <5> QED
          BY <2>6, <5>1
      <4> QED
        BY <1>1, <2>6, <4>2, <4>3, RegNext DEF Spares
    <3>3. ~Hears(b)' /\ Hushed
      <4>1. cur # None /\ cur.fd = fd[b] /\ cur' = None /\ ready' = ready
        BY <1>0, <1>1, <2>1, Dispatch DEF Handling, IoEvent, InEvent, EndEvent
      <4> QED
        BY <1>0, <1>1, <2>6, <4>1, EventUsed, Listens DEF Hushed
    <3>4. Moves
      BY <1>1, <2>3, <2>6 DEF Moves, InEvents, Mute
    <3>5. st[peer[b]] = "conn_ok" => Tells(peer[b], taskq')
      <4> SUFFICES ASSUME st[f] = "conn_ok" PROVE Tells(f, taskq')
        OBVIOUS
      <4>1. taskq' = Append(taskq, T("backend_conn_ok", f)) /\ taskq \in Seq(Task)
        BY <1>0, <2>6, Types DEF q
      <4>2. Len(taskq') = Len(taskq) + 1 /\ Len(taskq) \in Nat
            /\ taskq'[Len(taskq) + 1] = T("backend_conn_ok", f)
        BY <4>1
      <4>3. TellsAt(Len(taskq) + 1, f, taskq')
        BY <4>2 DEF TellsAt, T
      <4> QED
        BY <4>2, <4>3 DEF Tells
    <3>6. Attaches(b)
      BY <1>1, <2>6, <3>2, <3>3, <3>4, <3>5 DEF Attaches
    <3> QED
      BY <3>1, <3>6 DEF FlowStep, Sane, Tidy
  <2> QED
    BY <2>1, <2>5, <2>6 DEF q, p
<1> QED
  BY <1>4, <1>5


\* f, whose descriptor n is out of the poller, gets a backend.
LEMMA CoupleSeen ==
    ASSUME FInv0, NEW f \in Frontend, NEW n \in Fd, NEW r \in {"saved", "yes"}, NEW p, Sane(p),
           p[n].ev = {}, \A x \in Conn \ {f} : RegIn(p, x) = Reg(x),
           st[f] = "free" \/ (st[f] = "conn_ok" /\ req[f] = "no"), \A x \in Conn \ {f} : fd[x] # n,
           r = "yes" \/ "host_port" \in env, phase = "events", phase' = "events",
           ready' \subseteq ready, cur' = cur \/ cur' = None,
           ToConnectBackend(f, n, r, taskq, p)
    PROVE  FlowStep /\ Tidy'
<1>0. IInv /\ PInv /\ BInv /\ f \in Conn /\ f # None
  BY Types DEF FInv0
<1>1. PICK b \in Backend, m \in FreeFds \ {n} :
        /\ st[b] = "free" /\ peer' = [peer EXCEPT ![f] = b, ![b] = f]
        /\ fd' = [fd EXCEPT ![f] = n, ![b] = m]
        /\ req' = [req EXCEPT ![f] = r] /\ UNCHANGED io
        /\ Connecting(f, b, m, taskq, p) \/ Connected(f, b, m, taskq, p)
  BY DEF ToConnectBackend
<1>2. b \in Conn /\ b \notin Frontend /\ b # None /\ b # f /\ m \in Fd /\ n # m /\ m # None /\ n # None
  BY <1>0, Pairs, MoreTypes DEF FreeFds
<1>3. /\ fd'[f] = n /\ fd'[b] = m /\ \A x \in Conn \ {f, b} : fd'[x] = fd[x]
      /\ fd \in [Conn -> Fd \cup {None}]
  BY <1>0, <1>1, <1>2, MoreTypes
<1>4. PICK k \in {"io", "connect"}, e \in {{"r"}, {"r", "w"}}, s \in {"new_ok", "active_ok"} :
        /\ pd' = AddEv(p, m, b, k, e) /\ st' = [st EXCEPT ![f] = "conn_ok", ![b] = s]
        /\ s = "active_ok" => e = {"r"} /\ "sync_connect" \in env
        /\ \E a : Mute(a) /\ taskq' = taskq \o a
  <2>1. CASE Connecting(f, b, m, taskq, p)
    <3>1. /\ pd' = AddEv(p, m, b, "connect", {"r", "w"})
          /\ st' = [st EXCEPT ![f] = "conn_ok", ![b] = "new_ok"] /\ taskq' = taskq
      BY <2>1 DEF Connecting
    <3>2. Mute(<<>>) /\ taskq' = taskq \o <<>>
      BY <1>0, <3>1, MuteTasks, Shapes
    <3>3. \E a : Mute(a) /\ taskq' = taskq \o a
      BY <3>2
    <3> QED
      BY <3>1, <3>3
  <2>2. CASE Connected(f, b, m, taskq, p)
    <3>1. /\ pd' = AddEv(p, m, b, "io", {"r"}) /\ "sync_connect" \in env
          /\ st' = [st EXCEPT ![f] = "conn_ok", ![b] = "active_ok"]
          /\ taskq' = Append(taskq, T("backend_conn_ok", f))
      BY <2>2 DEF Connected
    <3>2. Mute(Told(f)) /\ taskq' = taskq \o Told(f)
      BY <1>0, <3>1, MuteTasks, Shapes
    <3>3. \E a : Mute(a) /\ taskq' = taskq \o a
      BY <3>2
    <3> QED
      BY <3>1, <3>3
  <2> QED
    BY <1>1, <2>1, <2>2
<1>5. Sane(pd')
  <2>1. e # {} /\ e \in SUBSET {"r", "w"}
    BY <1>4
  <2> QED
    BY <1>2, <1>4, <2>1, SaneCalls
<1>6. pd'[m].ev = e /\ \A x \in Conn : RegIn(pd', x) = RegIn(p, x)
  BY <1>1, <1>3, <1>4, FreeFdSeen
<1>7. pd'[n].ev = {}
  BY <1>2, <1>4 DEF AddEv, Sane
<1>8. Reg(f)' = {} /\ Reg(b)' = e /\ \A x \in Conn \ {f, b} : Reg(x)' = Reg(x)
  BY <1>2, <1>3, <1>6, <1>7, RegNext
<1>9. \A x \in Conn \ {f, b} : Hears(x)' => Hears(x)
  BY <1>0, <1>3, Listens
<1>10. Moves
  BY <1>4 DEF Moves, InEvents, Mute
<1>11. st'[b] = s
  BY <1>0, <1>2, <1>4, Types
<1>12. (\A g \in Frontend \ {f} : req'[g] = req[g]) /\ req'[f] = r
  BY <1>0, <1>1, Types
<1>13. Spares({f, b})
  BY <1>1, <1>8 DEF Spares
<1>14. Couples(f, b)
  <2>1. "r" \in Reg(b)' /\ (st'[b] = "active_ok" => Reg(b)' = {"r"} /\ "sync_connect" \in env)
    BY <1>4, <1>8, <1>11
  <2>2. \E z \in {"new_ok", "active_ok"} : st' = [st EXCEPT ![f] = "conn_ok", ![b] = z]
    BY <1>4
  <2> QED
    BY <1>1, <1>2, <1>3, <1>8, <1>9, <1>10, <1>12, <1>13, <2>1, <2>2 DEF Couples
<1> QED
  BY <1>5, <1>14 DEF FlowStep, Sane, Tidy

LEMMA AcceptFlow ==
    ASSUME FInv0, NEW f \in Frontend, Accept(f)
    PROVE  FlowStep /\ Tidy'
<1>0. IInv /\ PInv /\ UInv /\ BInv /\ FreeHasNoApp /\ Tidy /\ f \in Conn /\ f # None
  BY Types DEF FInv0, BInv
<1>1. st[f] = "free" /\ phase = "events" /\ phase' = "events" /\ ready' = ready /\ cur' = cur
  BY DEF Accept, InEvent, loop
<1>2. PICK n \in FreeFds :
          \/ ToConnectBackend(f, n, "yes", taskq, pd)
          \/ /\ "host_port" \in env
             /\ st' = [st EXCEPT ![f] = "conn_ok"]
             /\ fd' = [fd EXCEPT ![f] = n]
             /\ pd' = AddEv(pd, n, f, "io", {"r"})
             /\ UNCHANGED <<peer, io, req, taskq, frontend_active_n, backend_active_n>>
          \/ /\ \E s \in FailedConnectTasks(f) : s # <<>> /\ taskq' = taskq \o s
             /\ UNCHANGED <<handlers, pd>>
  BY DEF Accept
<1>3. n \in Fd /\ n # None /\ (\A x \in Conn : fd[x] # n) /\ Sane(pd) /\ pd[n].ev = {}
  <2>1. n \in Fd /\ (\A x \in Conn : fd[x] # n) /\ n # None
    BY <1>0, MoreTypes DEF FreeFds
  <2>2. pd \in [Fd -> PdState] /\ Sane(pd)
    BY <1>0, MoreTypes DEF Sane, Tidy
  <2>3. pd[n].eh = None
    BY <1>0, <2>1, <2>2, Types DEF PInv, PollerOwnsLive, Registered, PdState
  <2> QED
    BY <1>0, <2>1, <2>2, <2>3 DEF Tidy, TidyTable
<1>4. CASE ToConnectBackend(f, n, "yes", taskq, pd)
  <2>1. \A x \in Conn \ {f} : RegIn(pd, x) = Reg(x)
    BY DEF Reg
  <2> QED
    BY <1>1, <1>3, <1>4, <2>1, CoupleSeen
<1>5. CASE /\ "host_port" \in env
           /\ st' = [st EXCEPT ![f] = "conn_ok"]
           /\ fd' = [fd EXCEPT ![f] = n]
           /\ pd' = AddEv(pd, n, f, "io", {"r"})
           /\ UNCHANGED <<peer, io, req, taskq, frontend_active_n, backend_active_n>>
  <2>1. Sane(pd')
    <3>1. {"r"} \in SUBSET {"r", "w"} /\ {"r"} # {}
      OBVIOUS
    <3> QED
      BY <1>0, <1>3, <1>5, <3>1, SaneCalls
  <2>2. fd'[f] = n /\ (\A x \in Conn \ {f} : fd'[x] = fd[x]) /\ fd \in [Conn -> Fd \cup {None}]
    BY <1>0, <1>5, MoreTypes
  <2>3. pd'[n].ev = {"r"} /\ \A x \in Conn : RegIn(pd', x) = RegIn(pd, x)
    BY <1>3, <1>5, <2>2, FreeFdSeen
  <2>4. Reg(f)' = {"r"} /\ \A x \in Conn \ {f} : Reg(x)' = Reg(x)
    <3>1. \A x \in Conn : Reg(x) = RegIn(pd, x)
      BY DEF Reg
    <3> QED
      BY <1>3, <2>2, <2>3, <3>1, RegNext
  <2>5. Moves
    BY <1>0, <1>1, <1>5, MuteTasks, Shapes DEF Moves, InEvents, Mute
  <2>6. \A x \in Conn \ {f} : Hears(x)' => Hears(x)
    BY <1>0, <1>1, <2>2, Listens
  <2>7. Spares({f})
    BY <1>5, <2>4 DEF Spares
  <2>8. Enters(f)
    BY <1>1, <1>3, <1>5, <2>2, <2>4, <2>5, <2>6, <2>7 DEF Enters
  <2> QED
    BY <2>1, <2>8 DEF FlowStep, Sane, Tidy
<1>6. CASE /\ \E s \in FailedConnectTasks(f) : s # <<>> /\ taskq' = taskq \o s
           /\ UNCHANGED <<handlers, pd>>
  <2>1. UNCHANGED <<st, peer, fd, io, req, pd>> /\ taskq' = taskq \o SyncFailTasks(f)
    BY <1>6 DEF handlers, FailedConnectTasks
  <2>2. Moves
    BY <1>0, <1>1, <2>1, MuteTasks DEF Moves, InEvents, Mute
  <2>3. Hushed
    BY <1>0, <1>1, <2>1, Listens DEF Hushed
  <2>4. Tidy' /\ Spares({})
    BY <1>0, <2>1 DEF Tidy, Spares, Reg, RegIn
  <2> QED
    BY <1>1, <2>1, <2>2, <2>3, <2>4 DEF Idles, FlowStep, Popping
<1> QED
  BY <1>2, <1>4, <1>5, <1>6

LEMMA RequestFlow ==
    ASSUME FInv0, NEW f \in Frontend, OnReadMatch(f) \/ OnReadForwardThenClose(f)
    PROVE  FlowStep /\ Tidy'
<1>0. IInv /\ PInv /\ UInv /\ BInv /\ GInv /\ Tidy /\ f \in Conn /\ f # None
  BY Types DEF FInv0, BInv
<1>1. Handling(f, "io", "in")
  BY DEF OnReadMatch, OnReadForwardThenClose
<1>2. /\ fd[f] \in Fd /\ fd[f] # None /\ pd[fd[f]].eh = f /\ phase = "events" /\ Live(f)
      /\ st[f] \notin {"free", "new_ok"}
  BY <1>0, <1>1, Dispatch, MoreTypes DEF Handling, IoEvent, InEvent
<1>3. CASE OnReadMatch(f)
  <2> DEFINE p == RemoveEv(pd, fd[f], "r")
  <2>1. req[f] = "no" /\ EndEvent /\ st[f] = "conn_ok"
    <3>1. st[f] # "active_ok"
      BY <1>3, <1>0 DEF OnReadMatch, UInv, ActiveServes
    <3> QED
      BY <1>0, <1>2, <1>3, <3>1, Types DEF OnReadMatch, LiveState
  <2>2. Sane(pd)
    BY <1>0, MoreTypes DEF Sane, Tidy
  <2>3. Sane(p) /\ RegIn(p, f) = {} /\ \A x \in Conn \ {f} : RegIn(p, x) = Reg(x)
    <3>1. Sane(p)
      BY <1>2, <2>2, SaneCalls
    <3>2. RegIn(p, f) = RegIn(pd, f) \ {"r"} /\ \A x \in Conn \ {f} : RegIn(p, x) = RegIn(pd, x)
      BY <1>0, <1>2, <2>2, RemoveEvSeen
    <3>3. RegIn(pd, f) \subseteq {"r"}
      BY <1>0, <1>2, <2>1 DEF PInv, SavedIsAway, RegIn
    <3> QED
      BY <3>1, <3>2, <3>3 DEF Reg
  <2>4. p[fd[f]].ev = {}
    BY <1>2, <2>3 DEF RegIn
  <2> HIDE DEF p
  <2>5. CASE ToConnectBackend(f, fd[f], "saved", taskq, p)
    <3>1. "host_port" \in env
      BY <1>0, <1>2, <2>1 DEF BInv, HostApps
    <3>2. \A x \in Conn \ {f} : fd[x] # fd[f]
      BY <1>0, <1>2 DEF PInv, FdsApart
    <3>3. phase' = "events" /\ ready' = ready /\ cur' = None
      BY <1>2, <2>1 DEF EndEvent
    <3> QED
      BY <1>2, <2>1, <2>3, <2>4, <2>5, <3>1, <3>2, <3>3, CoupleSeen
  <2>6. CASE \E s \in FailedConnectTasks(f) : Close(f, taskq \o s)
    <3>1. PICK s : Mute(s) /\ OnClose(f, taskq \o s, RemoveAll(pd, fd[f]), io)
      BY <1>0, <2>6, MuteTasks DEF FailedConnectTasks, Close
    <3>2. Sane(RemoveAll(pd, fd[f])) /\ Sent(io, RemoveAll(pd, fd[f]), f) /\ io \in [Conn -> IoState]
      BY <1>0, <1>2, CloseSent, MoreTypes
    <3> QED
      BY <1>0, <1>1, <2>1, <3>1, <3>2, EventLeaves
  <2> QED
    BY <1>3, <2>5, <2>6 DEF OnReadMatch, p
<1>4. CASE OnReadForwardThenClose(f)
  <2>1. PICK r \in Forward(f) :
          Crash \/ (OnClose(f, taskq, RemoveAll(r[2], fd[f]), r[1]) /\ EndEvent)
    BY <1>4 DEF OnReadForwardThenClose
  <2>2. CASE Crash
    BY <2>2, IdleSteps
  <2>3. CASE OnClose(f, taskq, RemoveAll(r[2], fd[f]), r[1]) /\ EndEvent
    <3>1. /\ Sane(RemoveAll(r[2], fd[f])) /\ Sent(r[1], RemoveAll(r[2], fd[f]), f)
          /\ r[1] \in [Conn -> IoState]
      BY <1>0, <1>2, ForwardSent
    <3>2. Mute(<<>>) /\ taskq = taskq \o <<>>
      BY <1>0, MuteTasks, Shapes
    <3>3. OnClose(f, taskq \o <<>>, RemoveAll(r[2], fd[f]), r[1])
      BY <2>3, <3>2, Zenon
    <3> QED
      BY <1>0, <1>1, <2>3, <3>1, <3>2, <3>3, EventLeaves
  <2> QED
    BY <2>1, <2>2, <2>3
<1> QED
  BY <1>3, <1>4

\* A delete in a task of h.
LEMMA TaskLeaves ==
    ASSUME FInv0, NEW h \in Conn, Popping, taskq # <<>>, Head(taskq).p = h, EndTask,
           NEW p, NEW s \in [Conn -> IoState], Sane(p), Sent(s, p, h),
           OnClose(h, Tail(taskq), p, s)
    PROVE  FlowStep /\ Tidy'
<1>0. IInv /\ PInv /\ BInv
  BY DEF FInv0
<1>1. Left(h) /\ Tidy' /\ taskq' = Tail(taskq) \o PeerTask(h)
  BY <1>0, OnCloseLeft
<1>2. Moves
  BY <1>0, <1>1, MuteTasks DEF Moves, Popping, EndTask
<1>3. Hushed
  <2>1. fd' = [fd EXCEPT ![h] = None]
    BY <1>1 DEF Left
  <2>2. \A x \in Conn : fd'[x] = fd[x] \/ fd'[x] = None
    BY <1>0, <2>1, MoreTypes
  <2> QED
    BY <1>0, <2>2, Listens, RegNext DEF Hushed, EndTask
<1>4. \A x \in Conn : OwedAt(1, x, taskq) \/ TellsAt(1, x, taskq) => x = h
  BY <1>0, Types DEF OwedAt, TellsAt
<1> QED
  BY <1>1, <1>2, <1>3, <1>4 DEF Leaves, FlowStep, Popping

\* A task that does nothing.
LEMMA DropFlow ==
    ASSUME FInv0, Popping, DropTask,
           \A x \in Conn : /\ OwedAt(1, x, taskq) => ~io[x].paused
                           /\ TellsAt(1, x, taskq) => st[x] = "free" \/ peer[x] = None
    PROVE  FlowStep /\ Tidy'
<1>0. IInv /\ PInv /\ BInv /\ Tidy
  BY DEF FInv0, BInv
<1>1. UNCHANGED <<st, peer, fd, io, req, pd>> /\ taskq' = Tail(taskq) \o <<>> /\ EndTask
  BY <1>0, Shapes DEF DropTask, handlers, Popping
<1>2. Moves
  BY <1>0, <1>1, MuteTasks DEF Moves, Popping, EndTask
<1>3. Hushed
  BY <1>0, <1>1, Listens DEF Hushed, EndTask
<1>4. Tidy' /\ Spares({})
  BY <1>0, <1>1 DEF Tidy, Spares, Reg, RegIn
<1> QED
  BY <1>1, <1>2, <1>3, <1>4 DEF Idles, FlowStep

LEMMA DrainedFlow ==
    ASSUME FInv0, NEW h \in Conn, TaskDrained(h)
    PROVE  FlowStep /\ Tidy'
<1>0. IInv /\ PInv /\ BInv /\ Tidy /\ h # None
  BY Types DEF FInv0, BInv
<1>1. PICK t \in Drained : RunsTask(t, h)
  BY DEF TaskDrained, Drained
<1>2. Popping /\ taskq # <<>> /\ Head(taskq).p = h /\ Live(h) /\ fd[h] # None /\ fd[h] \in Fd
  <2>1. Popping /\ Head(taskq).p = h /\ Live(h)
    BY <1>1 DEF RunsTask, Popping, TaskDrained
  <2> QED
    BY <1>0, <2>1, TailTasks, MoreTypes DEF BInv, LiveHasFd, Popping
<1>3. taskq \in Seq(Task) /\ taskq[1] = Head(taskq) /\ 1 \in 1..Len(taskq)
  <2>1. taskq \in Seq(Task)
    BY <1>0, Types
  <2> QED
    BY <1>2, <2>1
<1>4. CASE ~io[h].paused /\ DropTask
  <2>1. \A x \in Conn : OwedAt(1, x, taskq) => x = h
    BY <1>2, <1>3 DEF OwedAt
  <2>2. \A x \in Conn : ~TellsAt(1, x, taskq)
    BY <1>1, <1>3 DEF RunsTask, TellsAt, Drained
  <2> QED
    BY <1>2, <1>4, <2>1, <2>2, DropFlow
<1>5. CASE /\ io[h].paused /\ CanAdd(pd, fd[h])
           /\ pd' = AddEv(pd, fd[h], h, "io", {"r"})
           /\ io' = [io EXCEPT ![h].paused = FALSE]
           /\ taskq' = Tail(taskq)
           /\ EndTask
           /\ UNCHANGED <<st, peer, fd, req, frontend_active_n, backend_active_n>>
  <2>1. Sane(pd) /\ \A x \in Conn : Reg(x) = RegIn(pd, x)
    BY <1>0, MoreTypes DEF Sane, Tidy, Reg
  <2>2. Reg(h) = {}
    BY <1>0, <1>2, <1>5 DEF CanAdd, Tidy, TidyTable, Reg, RegIn
  <2>3. Sane(pd')
    <3>1. {"r"} \in SUBSET {"r", "w"} /\ {"r"} # {}
      OBVIOUS
    <3> QED
      BY <1>0, <1>2, <1>5, <2>1, <3>1, SaneCalls
  <2>4. Reg(h)' = {"r"} /\ \A x \in Conn \ {h} : Reg(x)' = Reg(x)
    <3>1. RegIn(pd', h) = {"r"} /\ \A x \in Conn \ {h} : RegIn(pd', x) = RegIn(pd, x)
      <4>1. /\ RegIn(AddEv(pd, fd[h], h, "io", {"r"}), h) = {"r"}
            /\ \A x \in Conn \ {h} : RegIn(AddEv(pd, fd[h], h, "io", {"r"}), x) = RegIn(pd, x)
        BY <1>0, <1>2, <2>1, ReadsSeen
      <4> QED
        BY <1>5, <4>1
    <3> QED
      BY <1>5, <2>1, <3>1, RegNext
  <2>5. io'[h] = [io[h] EXCEPT !.paused = FALSE] /\ \A x \in Conn \ {h} : io'[x] = io[x]
    BY <1>0, <1>5, MoreTypes DEF IoState
  <2>6. Moves
    BY <1>0, <1>2, <1>5, MuteTasks, Shapes DEF Moves, Popping, EndTask
  <2>7. Hushed
    BY <1>0, <1>5, Listens DEF Hushed, EndTask
  <2>8. OwedAt(1, h, taskq)
    BY <1>1, <1>3 DEF OwedAt, RunsTask
  <2>9. Resumes(h)
    BY <1>2, <1>5, <2>2, <2>4, <2>5, <2>6, <2>7, <2>8 DEF Resumes, Spares
  <2> QED
    BY <2>3, <2>9 DEF FlowStep, Sane, Tidy
<1>6. CASE Close(h, Tail(taskq)) /\ EndTask
  <2>1. Sane(RemoveAll(pd, fd[h])) /\ Sent(io, RemoveAll(pd, fd[h]), h) /\ io \in [Conn -> IoState]
    BY <1>0, <1>2, CloseSent, MoreTypes
  <2> QED
    BY <1>2, <1>6, <2>1, TaskLeaves DEF Close
<1> QED
  BY <1>4, <1>5, <1>6 DEF TaskDrained

LEMMA CloseTaskFlow ==
    ASSUME FInv0, NEW h \in Conn,
           \/ h \in Frontend /\ TaskClosesFrontend(h)
           \/ h \in Backend /\ TaskFrontendClose(h)
    PROVE  FlowStep /\ Tidy'
<1>0. IInv /\ PInv /\ BInv /\ Tidy /\ h # None /\ taskq \in Seq(Task)
  BY Types DEF FInv0, BInv
<1>1. /\ Popping /\ taskq # <<>> /\ Head(taskq).p = h /\ Live(h) /\ fd[h] # None /\ fd[h] \in Fd
      /\ Head(taskq).type \notin Drained /\ Head(taskq).type # "backend_conn_ok"
  <2>1. /\ Popping /\ Head(taskq).p = h /\ Live(h)
        /\ Head(taskq).type \notin Drained /\ Head(taskq).type # "backend_conn_ok"
    BY DEF TaskClosesFrontend, TaskFrontendClose, RunsTask, Popping, Drained
  <2> QED
    BY <1>0, <2>1, TailTasks, MoreTypes DEF BInv, LiveHasFd, Popping
<1>2. CASE Close(h, Tail(taskq)) /\ EndTask
  <2>1. Sane(RemoveAll(pd, fd[h])) /\ Sent(io, RemoveAll(pd, fd[h]), h) /\ io \in [Conn -> IoState]
    BY <1>0, <1>1, CloseSent, MoreTypes
  <2> QED
    BY <1>1, <1>2, <2>1, TaskLeaves DEF Close
<1>3. CASE DropTask
  <2>1. taskq[1] = Head(taskq)
    BY <1>0, <1>1
  <2>2. \A x \in Conn : ~OwedAt(1, x, taskq) /\ ~TellsAt(1, x, taskq)
    BY <1>1, <2>1 DEF OwedAt, TellsAt
  <2> QED
    BY <1>1, <1>3, <2>2, DropFlow
<1> QED
  BY <1>2, <1>3 DEF TaskClosesFrontend, TaskFrontendClose

LEMMA ConnOkFlow ==
    ASSUME FInv0, NEW f \in Frontend, TaskConnOk(f)
    PROVE  FlowStep /\ Tidy'
<1>0. /\ IInv /\ PInv /\ BInv /\ GInv /\ Tidy /\ f # None /\ f \in Conn /\ taskq \in Seq(Task)
      /\ io \in [Conn -> IoState]
  BY Types, MoreTypes DEF FInv0, BInv
<1>1. /\ Popping /\ taskq # <<>> /\ Head(taskq).p = f /\ Live(f) /\ fd[f] # None /\ fd[f] \in Fd
      /\ Head(taskq).type = "backend_conn_ok"
  <2>1. Popping /\ Head(taskq).p = f /\ Live(f) /\ Head(taskq).type = "backend_conn_ok"
    BY DEF TaskConnOk, RunsTask, Popping
  <2> QED
    BY <1>0, <2>1, TailTasks, MoreTypes DEF BInv, LiveHasFd, Popping
<1>2. taskq[1] = Head(taskq) /\ 1 \in 1..Len(taskq)
  BY <1>0, <1>1
<1>3. CASE peer[f] = None /\ DropTask
  <2>1. \A x \in Conn : ~OwedAt(1, x, taskq) /\ (TellsAt(1, x, taskq) => x = f)
    BY <1>1, <1>2 DEF OwedAt, TellsAt, Drained
  <2> QED
    BY <1>1, <1>3, <2>1, DropFlow
<1>4. CASE peer[f] # None /\ EndTask
  <2>1. PICK r \in IF req[f] = "saved" THEN Forward(f) ELSE {<<io, pd>>} :
           \/ /\ io' = r[1]
              /\ pd' = AddEv(r[2], fd[f], f, "io", {"r"})
              /\ st' = [st EXCEPT ![f] = "active_ok"]
              /\ req' = [req EXCEPT ![f] = "yes"]
              /\ taskq' = Tail(taskq) /\ UNCHANGED <<peer, fd>>
           \/ OnClose(f, Tail(taskq), RemoveAll(r[2], fd[f]), r[1])
           \/ req[f] = "saved" /\ OnClose(f, Tail(taskq), r[2], r[1])
    BY <1>4 DEF TaskConnOk
  <2>2. Sane(pd) /\ \A x \in Conn : Reg(x) = RegIn(pd, x)
    BY <1>0, MoreTypes DEF Sane, Tidy, Reg
  <2>3. /\ Sane(r[2]) /\ r[1] \in [Conn -> IoState]
        /\ Sane(RemoveAll(r[2], fd[f])) /\ Sent(r[1], RemoveAll(r[2], fd[f]), f)
        /\ req[f] = "saved" => Sent(r[1], r[2], f)
        /\ r = <<io, pd>> \/ (req[f] = "saved" /\ Clogged(r, f))
    <3>1. CASE req[f] = "saved"
      <4>1. r \in Forward(f)
        BY <2>1, <3>1
      <4> QED
        BY <1>0, <1>1, <3>1, <4>1, ForwardSent, ForwardSeen
    <3>2. CASE req[f] # "saved"
      <4>1. r = <<io, pd>>
        BY <2>1, <3>2
      <4> QED
        BY <1>0, <1>1, <2>2, <3>2, <4>1, CloseSent
    <3> QED
      BY <3>1, <3>2
  <2>4. CASE \/ OnClose(f, Tail(taskq), RemoveAll(r[2], fd[f]), r[1])
             \/ req[f] = "saved" /\ OnClose(f, Tail(taskq), r[2], r[1])
    BY <1>0, <1>1, <1>4, <2>3, <2>4, TaskLeaves
  <2>5. CASE /\ io' = r[1]
             /\ pd' = AddEv(r[2], fd[f], f, "io", {"r"})
             /\ st' = [st EXCEPT ![f] = "active_ok"]
             /\ req' = [req EXCEPT ![f] = "yes"]
             /\ taskq' = Tail(taskq) /\ UNCHANGED <<peer, fd>>
    <3>1. Sane(pd')
      <4>1. {"r"} \in SUBSET {"r", "w"} /\ {"r"} # {}
        OBVIOUS
      <4> QED
        BY <1>0, <1>1, <2>3, <2>5, <4>1, SaneCalls
    <3>2. /\ Reg(f)' = {"r"}
          /\ \A x \in Conn \ {f} : Reg(x)' = RegIn(r[2], x) /\ After(x) = RegIn(r[2], x)
      <4>1. RegIn(pd', f) = {"r"} /\ \A x \in Conn \ {f} : RegIn(pd', x) = RegIn(r[2], x)
        <5> DEFINE q == r[2]
        <5>1. Sane(q)
          BY <2>3
        <5> HIDE DEF q
        <5>2. /\ RegIn(AddEv(q, fd[f], f, "io", {"r"}), f) = {"r"}
              /\ \A x \in Conn \ {f} : RegIn(AddEv(q, fd[f], f, "io", {"r"}), x) = RegIn(q, x)
          BY <1>0, <1>1, <5>1, ReadsSeen
        <5> QED
          BY <2>5, <5>2 DEF q
      <4> QED
        BY <2>5, <4>1, RegNext
    <3>3. Moves
      BY <1>0, <1>1, <1>4, <2>5, MuteTasks, Shapes DEF Moves, Popping, EndTask
    <3>4. Hushed
      BY <1>0, <1>4, <2>5, Listens DEF Hushed, EndTask
    <3>5. \/ io'[f] = io[f] /\ Spares({f})
          \/ /\ "host_port" \in env /\ io'[f] = [io[f] EXCEPT !.paused = TRUE]
             /\ Feeds(peer[f]) /\ Spares({f, peer[f]})
      <4>1. CASE r = <<io, pd>>
        BY <2>2, <2>5, <3>2, <4>1 DEF Spares
      <4>2. CASE req[f] = "saved" /\ Clogged(r, f)
        <5>1. peer[f] \in Conn \ {f}
          BY <1>0, <1>4, Types, Pairs
        <5>2. "host_port" \in env
          BY <1>0, <1>1, <4>2 DEF BInv, HostApps
        <5>3. Feeds(peer[f])
          BY <2>5, <3>2, <4>2, <5>1 DEF Clogged, Feeds
        <5>4. Spares({f, peer[f]}) /\ io'[f] = [io[f] EXCEPT !.paused = TRUE]
          BY <2>5, <3>2, <4>2 DEF Clogged, Spares
        <5> QED
          BY <5>2, <5>3, <5>4
      <4> QED
        BY <2>3, <4>1, <4>2
    <3>6. TellsAt(1, f, taskq)
      BY <1>1, <1>2 DEF TellsAt
    <3>7. Serves(f)
      BY <1>1, <1>4, <2>5, <3>2, <3>3, <3>4, <3>5, <3>6 DEF Serves
    <3> QED
      BY <3>1, <3>7 DEF FlowStep, Sane, Tidy
  <2> QED
    BY <2>1, <2>4, <2>5
<1> QED
  BY <1>3, <1>4 DEF TaskConnOk

LEMMA NextFlow ==
    ASSUME FInv0, [Next]_vars
    PROVE  FlowStep /\ Tidy'
<1>1. CASE Restart
  <2>1. /\ st' = [h \in Conn |-> "free"] /\ peer' = [h \in Conn |-> None]
        /\ fd' = [h \in Conn |-> None] /\ io' = [h \in Conn |-> FreshIo]
        /\ pd' = [n \in Fd |-> NoPd] /\ taskq' = <<>>
    BY <1>1 DEF Restart
  <2> QED
    BY <2>1 DEF AllAnew, FlowStep, Tidy, TidyTable, NoPd
<1>2. CASE \/ EpollWait \/ NextEvent \/ LoopTop \/ SkipEvent \/ AcceptDone
           \/ TimerDone \/ StaleTask \/ UNCHANGED vars
           \/ \E f \in Frontend : FrontendInactive(f)
  BY <1>2, IdleSteps
<1>3. CASE \E h \in Conn : Events(h) \/ TaskDrained(h)
  BY <1>3, IoEventFlow, DrainedFlow
<1>4. CASE \E f \in Frontend : Accept(f) \/ OnReadMatch(f) \/ OnReadForwardThenClose(f)
  BY <1>4, AcceptFlow, RequestFlow
<1>5. CASE \E f \in Frontend : TaskClosesFrontend(f) \/ TaskConnOk(f)
  BY <1>5, CloseTaskFlow, ConnOkFlow DEF Conn
<1>6. CASE \E b \in Backend : OnConnectOk(b) \/ OnConnectFail(b) \/ ConnectTimeout(b)
  BY <1>6, ConnectEventFlow
<1>7. CASE \E b \in Backend : TaskFrontendClose(b)
  BY <1>7, CloseTaskFlow DEF Conn
<1> QED
  BY <1>1, <1>2, <1>3, <1>4, <1>5, <1>6, <1>7 DEF Next
----------------------------------------------------------------------------
(* Lives, descriptors and the batch of events are kept                       *)

\* A peer is another handler, of the other class; a frontend that has one has an app.
LEMMA PeerThere ==
    ASSUME IInv, BInv, NEW h \in Conn, peer[h] # None
    PROVE  /\ peer[h] \in Conn /\ peer[h] # h /\ peer[peer[h]] = h
           /\ Live(h) /\ Live(peer[h]) /\ fd[h] # None /\ fd[peer[h]] # None
           /\ h \in Frontend <=> peer[h] \in Backend
           /\ h \in Frontend => req[h] # "no"
           /\ peer[h] \in Frontend => req[peer[h]] # "no"
<1>1. peer[h] \in Conn /\ Live(h) /\ Live(peer[h]) /\ peer[peer[h]] = h
      /\ (h \in Frontend <=> peer[h] \in Backend)
  BY Types DEF IInv, LinkSymmetry
<1>2. peer[h] # h
  BY <1>1, Types DEF Conn
<1>3. fd[h] # None /\ fd[peer[h]] # None
  BY <1>1 DEF BInv, LiveHasFd
<1>4. \A f \in Frontend : peer[f] # None => req[f] # "no"
  BY Pairs
<1>5. peer[h] \in Frontend => peer[peer[h]] # None
  BY <1>1, Types
<1> QED
  BY <1>1, <1>2, <1>3, <1>4, <1>5

\* Lives and descriptors go together.
LEMMA LivesKept ==
    ASSUME FInv0, FlowStep
    PROVE  Stages' /\ LiveHasFd'
<1>0. /\ IInv /\ BInv /\ Stages /\ LiveHasFd
      /\ st \in [Conn -> LiveState \cup {"free"}] /\ fd \in [Conn -> Fd \cup {None}]
      /\ Conn = Frontend \cup Backend /\ Frontend \cap Backend = {}
  BY Types, MoreTypes DEF FInv0, BInv, Conn
<1>1. CASE UNCHANGED <<st, fd>>
  BY <1>0, <1>1 DEF Stages, LiveHasFd, Live
<1>2. CASE AllAnew
  BY <1>0, <1>2 DEF AllAnew, Stages, LiveHasFd, Live, LiveState
<1>3. ASSUME NEW h \in Conn, Leaves(h) PROVE Stages' /\ LiveHasFd'
  <2>1. st' = [st EXCEPT ![h] = "free"] /\ fd' = [fd EXCEPT ![h] = None]
    BY <1>3 DEF Leaves, Left
  <2> QED
    BY <1>0, <2>1 DEF Stages, LiveHasFd, Live, LiveState
<1>4. ASSUME NEW b \in Backend, Attaches(b) PROVE Stages' /\ LiveHasFd'
  <2>1. st[b] = "new_ok" /\ st' = [st EXCEPT ![b] = "active_ok"] /\ fd' = fd
    BY <1>4 DEF Attaches
  <2> QED
    BY <1>0, <2>1 DEF Stages, LiveHasFd, Live, LiveState
<1>5. ASSUME NEW f \in Frontend, NEW b \in Backend, Couples(f, b) PROVE Stages' /\ LiveHasFd'
  <2>1. PICK s \in {"new_ok", "active_ok"} :
          /\ st' = [st EXCEPT ![f] = "conn_ok", ![b] = s]
          /\ fd'[f] # None /\ fd'[b] # None /\ \A x \in Conn \ {f, b} : fd'[x] = fd[x]
    BY <1>5 DEF Couples
  <2> QED
    BY <1>0, <2>1 DEF Stages, LiveHasFd, Live, LiveState
<1>6. ASSUME NEW f \in Frontend, Enters(f) PROVE Stages' /\ LiveHasFd'
  <2>1. /\ st' = [st EXCEPT ![f] = "conn_ok"]
        /\ fd'[f] # None /\ \A x \in Conn \ {f} : fd'[x] = fd[x]
    BY <1>6 DEF Enters
  <2> QED
    BY <1>0, <2>1 DEF Stages, LiveHasFd, Live, LiveState
<1>7. ASSUME NEW f \in Frontend, Serves(f) PROVE Stages' /\ LiveHasFd'
  <2>1. st' = [st EXCEPT ![f] = "active_ok"] /\ fd' = fd /\ Live(f)
    BY <1>7 DEF Serves
  <2> QED
    BY <1>0, <2>1 DEF Stages, LiveHasFd, Live, LiveState
<1> QED
  BY <1>1, <1>2, <1>3, <1>4, <1>5, <1>6, <1>7 DEF FlowStep, Idles, Congests, Drains, Resumes

LEMMA FreshKept ==
    ASSUME FInv0, FlowStep
    PROVE  Fresh'
<1>0. /\ IInv /\ BInv /\ UInv /\ Fresh
      /\ st \in [Conn -> LiveState \cup {"free"}]
      /\ Conn = Frontend \cup Backend /\ Frontend \cap Backend = {}
      /\ \A x \in Conn : io[x].polling \/ io[x].paused => io[x] # FreshIo
  BY Types DEF FInv0, BInv, Conn, FreshIo
<1>2. ASSUME NEW h \in Conn, Congests(h) PROVE Fresh'
  <2>1. /\ st' = st /\ req' = req /\ st[h] = "active_ok" /\ peer[h] # None
        /\ Feeds(peer[h]) /\ Spares({h, peer[h]})
    BY <1>2 DEF Congests
  <2>2. st[peer[h]] \notin {"free", "new_ok"} /\ (peer[h] \in Frontend => req[peer[h]] # "no")
        /\ (h \in Frontend => req[h] # "no")
    BY <1>0, <2>1, PeerThere DEF Feeds
  <2> QED
    BY <1>0, <2>1, <2>2 DEF Fresh, Spares
<1>3. ASSUME NEW h \in Conn, Drains(h) \/ Resumes(h) PROVE Fresh'
  <2>1. st' = st /\ req' = req /\ Spares({h}) /\ (io[h].polling \/ io[h].paused)
    BY <1>3 DEF Drains, Resumes
  <2> QED
    BY <1>0, <2>1 DEF Fresh, Spares
<1>4. CASE Idles
  BY <1>0, <1>4 DEF Idles, Fresh, Spares
<1>5. CASE AllAnew
  BY <1>5 DEF AllAnew, Fresh
<1>6. ASSUME NEW h \in Conn, Leaves(h) PROVE Fresh'
  <2>1. /\ st' = [st EXCEPT ![h] = "free"] /\ io'[h] = FreshIo
        /\ \A f \in Frontend \ {h} : req'[f] = req[f]
        /\ Spares({h}) \/ (peer[h] # None /\ Spares({h, peer[h]}) /\ Feeds(peer[h]))
    BY <1>6 DEF Leaves, Left
  <2>2. peer[h] # None /\ Feeds(peer[h]) =>
          st[peer[h]] \notin {"free", "new_ok"} /\ (peer[h] \in Frontend => req[peer[h]] # "no")
    BY <1>0, PeerThere DEF Feeds
  <2>3. \A x \in Conn \ {h} : st'[x] = st[x]
    BY <1>0, <2>1
  <2> QED
    BY <1>0, <2>1, <2>2, <2>3 DEF Fresh, Spares
<1>7. ASSUME NEW b \in Backend, Attaches(b) PROVE Fresh'
  <2>1. st' = [st EXCEPT ![b] = "active_ok"] /\ req' = req /\ io' = io
    BY <1>7 DEF Attaches
  <2> QED
    BY <1>0, <2>1 DEF Fresh
<1>8. ASSUME NEW f \in Frontend, NEW b \in Backend, Couples(f, b) PROVE Fresh'
  <2>1. PICK s \in {"new_ok", "active_ok"} :
          /\ st' = [st EXCEPT ![f] = "conn_ok", ![b] = s] /\ io' = io
          /\ st[b] = "free" /\ (st[f] = "free" \/ req[f] = "no")
          /\ \A g \in Frontend \ {f} : req'[g] = req[g]
    BY <1>8 DEF Couples
  <2> QED
    BY <1>0, <2>1 DEF Fresh
<1>9. ASSUME NEW f \in Frontend, Enters(f) PROVE Fresh'
  <2>1. st' = [st EXCEPT ![f] = "conn_ok"] /\ req' = req /\ io' = io /\ st[f] = "free"
    BY <1>9 DEF Enters
  <2> QED
    BY <1>0, <2>1 DEF Fresh
<1>10. ASSUME NEW f \in Frontend, Serves(f) PROVE Fresh'
  <2>1. /\ st' = [st EXCEPT ![f] = "active_ok"] /\ req' = [req EXCEPT ![f] = "yes"]
        /\ peer[f] # None
        /\ Spares({f}) \/ (Feeds(peer[f]) /\ Spares({f, peer[f]}))
    BY <1>10 DEF Serves
  <2>2. Feeds(peer[f]) => st[peer[f]] \notin {"free", "new_ok"} /\ peer[f] \notin Frontend
    BY <1>0, <2>1, PeerThere DEF Feeds
  <2>3. (\A x \in Conn \ {f} : st'[x] = st[x]) /\ \A g \in Frontend \ {f} : req'[g] = req[g]
    BY <1>0, <2>1, Types
  <2>4. req'[f] = "yes" /\ st'[f] = "active_ok"
    BY <1>0, <2>1, Types
  <2> QED
    BY <1>0, <2>1, <2>2, <2>3, <2>4 DEF Fresh, Spares
<1> QED
  BY <1>2, <1>3, <1>4, <1>5, <1>6, <1>7, <1>8, <1>9, <1>10 DEF FlowStep

LEMMA HostAppsKept ==
    ASSUME FInv0, FlowStep, env' = env
    PROVE  HostApps'
<1>0. /\ HostApps /\ st \in [Conn -> LiveState \cup {"free"}] /\ Frontend \subseteq Conn
      /\ req \in [Frontend -> {"no", "saved", "yes"}] /\ Frontend \cap Backend = {}
      /\ "free" \notin LiveState
  BY Types DEF FInv0, BInv, LiveState
<1>1. CASE UNCHANGED <<st, req>>
  BY <1>0, <1>1 DEF HostApps, Live
<1>2. CASE AllAnew
  BY <1>0, <1>2 DEF AllAnew, HostApps, Live
<1>3. ASSUME NEW h \in Conn, Leaves(h) PROVE HostApps'
  <2>1. st' = [st EXCEPT ![h] = "free"] /\ \A f \in Frontend \ {h} : req'[f] = req[f]
    BY <1>3 DEF Leaves, Left
  <2> QED
    BY <1>0, <2>1 DEF HostApps, Live
<1>4. ASSUME NEW b \in Backend, Attaches(b) PROVE HostApps'
  <2>1. st' = [st EXCEPT ![b] = "active_ok"] /\ req' = req
    BY <1>4 DEF Attaches
  <2> QED
    BY <1>0, <2>1 DEF HostApps, Live
<1>5. ASSUME NEW f \in Frontend, NEW b \in Backend, Couples(f, b) PROVE HostApps'
  <2>1. PICK s \in {"new_ok", "active_ok"} :
          /\ st' = [st EXCEPT ![f] = "conn_ok", ![b] = s]
          /\ \A g \in Frontend \ {f} : req'[g] = req[g]
          /\ req'[f] = "yes" \/ "host_port" \in env
    BY <1>5 DEF Couples
  <2> QED
    BY <1>0, <2>1 DEF HostApps, Live
<1>6. ASSUME NEW f \in Frontend, Enters(f) PROVE HostApps'
  <2>1. st' = [st EXCEPT ![f] = "conn_ok"] /\ req' = req /\ "host_port" \in env
    BY <1>6 DEF Enters
  <2> QED
    BY <1>0, <2>1 DEF HostApps, Live
<1>7. ASSUME NEW f \in Frontend, Serves(f) PROVE HostApps'
  <2>1. st' = [st EXCEPT ![f] = "active_ok"] /\ req' = [req EXCEPT ![f] = "yes"]
    BY <1>7 DEF Serves
  <2> QED
    BY <1>0, <2>1 DEF HostApps, Live
<1> QED
  BY <1>1, <1>2, <1>3, <1>4, <1>5, <1>6, <1>7 DEF FlowStep, Idles, Congests, Drains, Resumes

\* The batch changes when it is read, and then the poller lists each descriptor once.
LEMMA BatchKept ==
    ASSUME IInv, BatchApart, [Next]_vars
    PROVE  BatchApart'
<1>0. cur # None => cur \in Event
  BY IInvParts DEF LoopTypes
<1>1. CASE EpollWait
  <2>1. phase = "tasks" /\ phase' = "events" /\ cur' = cur
        /\ \A e1, e2 \in ready' : e1.fd = e2.fd => e1 = e2
    BY <1>1 DEF EpollWait
  <2> QED
    BY <2>1 DEF BatchApart
<1>2. CASE NextEvent
  <2>1. PICK e \in ready : cur' = e /\ ready' = ready \ {e} /\ phase = "events" /\ phase' = "events"
    BY <1>2 DEF NextEvent
  <2> QED
    BY <2>1 DEF BatchApart
<1>3. CASE LoopTop
  BY <1>3 DEF LoopTop, BatchApart
<1>4. CASE Restart
  BY <1>4 DEF Restart, BatchApart
<1>5. CASE /\ ready' = ready /\ (phase' = phase \/ phase' # "tasks")
           /\ \/ cur' = None \/ cur' = cur
              \/ cur # None /\ cur' = [cur EXCEPT !.ev = {"in"}] /\ phase # "tasks"
  <2>1. cur # None /\ cur' = [cur EXCEPT !.ev = {"in"}] => cur'.fd = cur.fd
    BY <1>0 DEF Event
  <2> QED
    BY <1>5, <2>1 DEF BatchApart
<1>6. CASE SkipEvent \/ AcceptDone \/ TimerDone \/ StaleTask \/ UNCHANGED vars
  BY <1>5, <1>6 DEF SkipEvent, AcceptDone, TimerDone, StaleTask, DropTask, Crash, EndEvent, EndTask, vars
<1>7. ASSUME NEW h \in Conn, Events(h) PROVE BatchApart'
  <2>1. CASE OnWrite(h)
    BY <1>5, <1>7, <2>1 DEF OnWrite, Crash, Handling, IoEvent, InEvent
  <2>2. CASE ~OnWrite(h)
    BY <1>5, <1>7, <2>2 DEF Events, OnError, OnReadNothing, OnReadClose, OnReadForward, EndEvent
  <2> QED
    BY <2>1, <2>2
<1>8. ASSUME NEW h \in Conn, TaskDrained(h) PROVE BatchApart'
  BY <1>5, <1>8 DEF TaskDrained, DropTask, EndTask
<1>9. ASSUME NEW f \in Frontend,
             Accept(f) \/ OnReadMatch(f) \/ OnReadForwardThenClose(f) \/ FrontendInactive(f)
      PROVE  BatchApart'
  BY <1>5, <1>9 DEF Accept, loop, OnReadMatch, OnReadForwardThenClose, Crash, FrontendInactive, EndEvent
<1>10. ASSUME NEW f \in Frontend, TaskClosesFrontend(f) \/ TaskConnOk(f) PROVE BatchApart'
  BY <1>5, <1>10 DEF TaskClosesFrontend, TaskConnOk, DropTask, EndTask
<1>11. ASSUME NEW b \in Backend,
              OnConnectOk(b) \/ OnConnectFail(b) \/ ConnectTimeout(b) \/ TaskFrontendClose(b)
       PROVE  BatchApart'
  BY <1>5, <1>11 DEF OnConnectOk, OnConnectFail, ConnectTimeout, TaskFrontendClose, DropTask, EndTask, EndEvent
<1> QED
  BY <1>1, <1>2, <1>3, <1>4, <1>6, <1>7, <1>8, <1>9, <1>10, <1>11 DEF Next

LEMMA NextBInv ==
    ASSUME FInv0, FlowStep, Tidy', [Next]_vars
    PROVE  BInv'
<1>1. IInv /\ BatchApart
  BY DEF FInv0, BInv
<1> QED
  BY <1>1, EnvFixed, LivesKept, FreshKept, HostAppsKept, BatchKept DEF BInv
----------------------------------------------------------------------------
(* Who has data, and who is paused, is registered as it should              *)

\* GInv for one handler.
Steady(h) ==
    /\ io[h].polling <=> Data(h)
    /\ Data(h) => CanBeSlow(h)
    /\ st[h] # "new_ok" /\ "w" \in Reg(h) => Data(h)
    /\ io[h].paused => (IF h \in Frontend THEN "slow_server" ELSE "slow_client") \in env
    /\ st[h] = "active_ok" /\ ~io[h].paused => "r" \in Reg(h)
    /\ io[h].paused => /\ "r" \in Reg(h) => h \in Frontend /\ "host_port" \in env
                       /\ "r" \notin Reg(h) => ~Hears(h)

LEMMA SteadyAll == GInv <=> \A h \in Conn : Steady(h)
BY DEF GInv, PollingData, SlowOnly, WriteData, PausedFor, ActivePolled, PausedDeaf, Steady

LEMMA SteadyNext == ASSUME \A h \in Conn : Steady(h)' PROVE GInv'
BY DEF GInv, PollingData, SlowOnly, WriteData, PausedFor, ActivePolled, PausedDeaf, Steady

\* A frontend that is being told of its backend has not started.
LEMMA ToldIsNew ==
    ASSUME IInv, TInv, NEW f \in Frontend, TellsAt(1, f, taskq)
    PROVE  st[f] # "active_ok"
<1> SUFFICES ASSUME st[f] = "active_ok" PROVE FALSE
  OBVIOUS
<1>1. taskq \in Seq(Task) /\ taskq # <<>>
  BY Types DEF TellsAt
<1>2. ~EndsFirst(f, taskq)
  BY <1>1, Popped
<1> QED
  BY <1>2 DEF TInv, ActiveIsOld

LEMMA SteadySame ==
    ASSUME NEW x \in Conn, Steady(x), env' = env, st'[x] = st[x], io'[x] = io[x], Reg(x)' = Reg(x),
           Hears(x)' => Hears(x) \/ "r" \in Reg(x)
    PROVE  Steady(x)'
BY DEF Steady, Data, CanBeSlow

LEMMA SteadyFed ==
    ASSUME IInv, NEW x \in Conn, Steady(x), env' = env, st'[x] = st[x], Feeds(x),
           Hears(x)' => Hears(x)
    PROVE  Steady(x)'
<1>1. /\ io'[x].buf = "data" /\ io'[x].polling /\ io'[x].paused = io[x].paused
      /\ Reg(x)' = After(x) /\ CanBeSlow(x)
  BY MoreTypes, RegNext DEF Feeds, IoState
<1>2. "r" \in Reg(x)' <=> "r" \in Reg(x)
  BY <1>1 DEF Feeds
<1> QED
  BY <1>1, <1>2 DEF Steady, Data, CanBeSlow

LEMMA SteadyFresh ==
    ASSUME NEW x \in Conn, io'[x] = FreshIo,
           st'[x] # "new_ok" => "w" \notin Reg(x)',
           st'[x] = "active_ok" => "r" \in Reg(x)'
    PROVE  Steady(x)'
<1>1. io'[x].buf = "none" /\ ~io'[x].polling /\ ~io'[x].paused
  BY DEF FreshIo
<1> QED
  BY <1>1 DEF Steady, Data

\* x is paused: its peer is slow, and it is not heard unless it was so before.
LEMMA SteadyPaused ==
    ASSUME IInv, NEW x \in Conn, Steady(x), env' = env,
           io'[x] = [io[x] EXCEPT !.paused = TRUE], "w" \in Reg(x)' => "w" \in Reg(x), st[x] # "new_ok",
           (IF x \in Frontend THEN "slow_server" ELSE "slow_client") \in env,
           "r" \in Reg(x)' => x \in Frontend /\ "host_port" \in env,
           "r" \in Reg(x)' \/ ~Hears(x)'
    PROVE  Steady(x)'
<1>1. io'[x].buf = io[x].buf /\ (io'[x].polling <=> io[x].polling) /\ io'[x].paused
  BY MoreTypes DEF IoState
<1> QED
  BY <1>1 DEF Steady, Data, CanBeSlow

LEMMA NextGInv ==
    ASSUME FInv0, TInv, FlowStep, env' = env
    PROVE  GInv'
<1> SUFFICES ASSUME NEW x \in Conn PROVE Steady(x)'
  BY SteadyNext
<1>0. /\ IInv /\ BInv /\ UInv /\ Fresh /\ PInv /\ Stages
      /\ st \in [Conn -> LiveState \cup {"free"}] /\ io \in [Conn -> IoState]
      /\ Conn = Frontend \cup Backend /\ Frontend \cap Backend = {}
      /\ Steady(x)
  BY Types, MoreTypes, SteadyAll DEF FInv0, BInv, Conn
<1>1. ASSUME NEW S, Spares(S), Hears(x)' => Hears(x), st'[x] = st[x], x \notin S PROVE Steady(x)'
  BY <1>0, <1>1, SteadySame DEF Spares
<1>2. CASE Idles
  <2>1. /\ st'[x] = st[x] /\ io'[x] = io[x] /\ Reg(x)' = Reg(x)
        /\ Hears(x)' => Hears(x) \/ "r" \in Reg(x)
    BY <1>2 DEF Idles, Spares, Hushed
  <2> QED
    BY <1>0, <2>1, SteadySame
<1>3. CASE AllAnew
  <2>1. io'[x] = FreshIo /\ st'[x] = "free" /\ Reg(x)' = {}
    BY <1>3, RegNext DEF AllAnew
  <2> QED
    BY <2>1, SteadyFresh
<1>4. ASSUME NEW h \in Conn, Leaves(h) PROVE Steady(x)'
  <2>1. /\ st' = [st EXCEPT ![h] = "free"] /\ fd' = [fd EXCEPT ![h] = None] /\ io'[h] = FreshIo
        /\ Hushed
        /\ Spares({h}) \/ (peer[h] # None /\ Spares({h, peer[h]}) /\ Feeds(peer[h]))
    BY <1>4 DEF Leaves, Left
  <2>2. CASE x = h
    <3>1. st'[h] = "free" /\ Reg(h)' = {}
      BY <1>0, <2>1, RegNext, MoreTypes
    <3> QED
      BY <2>1, <2>2, <3>1, SteadyFresh
  <2>3. CASE x # h
    <3>1. st'[x] = st[x] /\ (Hears(x)' => Hears(x))
      BY <1>0, <2>1, <2>3 DEF Hushed
    <3>2. CASE Spares({h})
      BY <1>1, <2>3, <3>1, <3>2
    <3>3. CASE Spares({h, peer[h]}) /\ Feeds(peer[h])
      <4>1. CASE x = peer[h]
        BY <1>0, <3>1, <3>3, <4>1, SteadyFed
      <4> QED
        BY <1>1, <2>3, <3>1, <3>3, <4>1
    <3> QED
      BY <2>1, <3>2, <3>3
  <2> QED
    BY <2>2, <2>3
<1>5. ASSUME NEW h \in Conn, Congests(h) PROVE Steady(x)'
  <2>1. /\ st' = st /\ st[h] = "active_ok" /\ peer[h] # None /\ Hushed /\ ~Hears(h)'
        /\ io'[h] = [io[h] EXCEPT !.paused = TRUE]
        /\ Reg(h)' = IF io[h].paused THEN Reg(h) ELSE Reg(h) \ {"r"}
        /\ Feeds(peer[h]) /\ Spares({h, peer[h]})
    BY <1>5 DEF Congests
  <2>2. Hears(x)' => Hears(x)
    BY <2>1 DEF Hushed
  <2>3. CASE x = h
    <3>1. (IF h \in Frontend THEN "slow_server" ELSE "slow_client") \in env
      BY <1>0, <2>1, PeerThere DEF Feeds, CanBeSlow
    <3>2. ("r" \in Reg(h)' => "r" \in Reg(h) /\ io[h].paused) /\ ("w" \in Reg(h)' => "w" \in Reg(h))
      BY <2>1
    <3>3. "r" \in Reg(h)' => h \in Frontend /\ "host_port" \in env
      BY <1>0, <2>3, <3>2 DEF Steady
    <3> QED
      BY <1>0, <2>1, <2>3, <3>1, <3>2, <3>3, SteadyPaused
  <2>4. CASE x = peer[h]
    BY <1>0, <2>1, <2>2, <2>4, SteadyFed
  <2> QED
    BY <1>1, <2>1, <2>2, <2>3, <2>4
<1>6. ASSUME NEW h \in Conn, Drains(h) PROVE Steady(x)'
  <2>1. /\ st' = st /\ Hushed /\ Spares({h}) /\ Reg(h)' = Reg(h) \ {"w"}
        /\ io'[h] = [io[h] EXCEPT !.buf = "empty", !.polling = FALSE]
    BY <1>6 DEF Drains
  <2>2. CASE x = h
    <3>1. io'[h].buf = "empty" /\ ~io'[h].polling /\ io'[h].paused = io[h].paused
      BY <1>0, <2>1 DEF IoState
    <3>2. /\ "r" \in Reg(h)' <=> "r" \in Reg(h)
          /\ "w" \notin Reg(h)' /\ st'[h] = st[h] /\ (Hears(h)' => Hears(h))
      BY <2>1 DEF Hushed
    <3> QED
      BY <1>0, <2>2, <3>1, <3>2 DEF Steady, Data
  <2> QED
    BY <1>1, <2>1, <2>2 DEF Hushed
<1>7. ASSUME NEW h \in Conn, Resumes(h) PROVE Steady(x)'
  <2>1. /\ st' = st /\ Hushed /\ Spares({h}) /\ Reg(h)' = {"r"} /\ Reg(h) = {}
        /\ io'[h] = [io[h] EXCEPT !.paused = FALSE]
    BY <1>7 DEF Resumes
  <2>2. CASE x = h
    <3>1. io'[h].buf = io[h].buf /\ (io'[h].polling <=> io[h].polling) /\ ~io'[h].paused
      BY <1>0, <2>1 DEF IoState
    <3> QED
      BY <1>0, <2>1, <2>2, <3>1 DEF Steady, Data, CanBeSlow
  <2> QED
    BY <1>1, <2>1, <2>2 DEF Hushed
<1>8. ASSUME NEW b \in Backend, Attaches(b) PROVE Steady(x)'
  <2>1. /\ st[b] = "new_ok" /\ st' = [st EXCEPT ![b] = "active_ok"] /\ io' = io
        /\ Reg(b)' = {"r"} /\ Spares({b}) /\ Hushed
    BY <1>8 DEF Attaches
  <2>2. CASE x = b
    BY <1>0, <2>1, <2>2, SteadyFresh DEF Fresh
  <2>3. CASE x # b
    <3>1. st'[x] = st[x] /\ (Hears(x)' => Hears(x)) /\ x \notin {b}
      BY <1>0, <2>1, <2>3 DEF Hushed
    <3> QED
      BY <1>1, <2>1, <3>1
  <2> QED
    BY <2>2, <2>3
<1>9. ASSUME NEW f \in Frontend, NEW b \in Backend, Couples(f, b) PROVE Steady(x)'
  <2>1. PICK s \in {"new_ok", "active_ok"} : st' = [st EXCEPT ![f] = "conn_ok", ![b] = s]
    BY <1>9 DEF Couples
  <2>2. /\ st[b] = "free" /\ (st[f] = "free" \/ req[f] = "no") /\ io' = io
        /\ Reg(f)' = {} /\ (st'[b] = "active_ok" => Reg(b)' = {"r"})
        /\ Spares({f, b}) /\ (\A y \in Conn \ {f, b} : Hears(y)' => Hears(y))
    BY <1>9 DEF Couples
  <2>3. CASE x = f
    <3>1. st'[f] = "conn_ok" /\ io'[f] = FreshIo
      BY <1>0, <2>1, <2>2, <2>3 DEF Fresh
    <3> QED
      BY <2>2, <2>3, <3>1, SteadyFresh
  <2>4. CASE x = b
    <3>1. st'[b] = s /\ io'[b] = FreshIo
      BY <1>0, <2>1, <2>2, <2>4 DEF Fresh
    <3> QED
      BY <2>2, <2>4, <3>1, SteadyFresh
  <2>5. CASE x \notin {f, b}
    <3>1. st'[x] = st[x] /\ (Hears(x)' => Hears(x))
      BY <1>0, <2>1, <2>2, <2>5
    <3> QED
      BY <1>1, <2>2, <2>5, <3>1
  <2> QED
    BY <2>3, <2>4, <2>5
<1>10. ASSUME NEW f \in Frontend, Enters(f) PROVE Steady(x)'
  <2>1. /\ st[f] = "free" /\ st' = [st EXCEPT ![f] = "conn_ok"] /\ io' = io
        /\ Reg(f)' = {"r"} /\ Spares({f}) /\ (\A y \in Conn \ {f} : Hears(y)' => Hears(y))
    BY <1>10 DEF Enters
  <2>2. CASE x = f
    BY <1>0, <2>1, <2>2, SteadyFresh DEF Fresh
  <2>3. CASE x # f
    <3>1. st'[x] = st[x] /\ (Hears(x)' => Hears(x)) /\ x \notin {f}
      BY <1>0, <2>1, <2>3
    <3> QED
      BY <1>1, <2>1, <3>1
  <2> QED
    BY <2>2, <2>3
<1>11. ASSUME NEW f \in Frontend, Serves(f) PROVE Steady(x)'
  <2>1. /\ Live(f) /\ st' = [st EXCEPT ![f] = "active_ok"] /\ peer[f] # None
        /\ Reg(f)' = {"r"} /\ Hushed /\ TellsAt(1, f, taskq)
        /\ \/ io'[f] = io[f] /\ Spares({f})
           \/ /\ "host_port" \in env /\ io'[f] = [io[f] EXCEPT !.paused = TRUE]
              /\ Feeds(peer[f]) /\ Spares({f, peer[f]})
    BY <1>11 DEF Serves
  <2>2. ~io[f].paused /\ st[f] # "active_ok" /\ st[f] # "new_ok"
    BY <1>0, <2>1, ToldIsNew DEF UInv, PausedActive, Stages
  <2>3. CASE x = f
    <3>1. st'[f] = "active_ok"
      BY <1>0, <2>1, <2>3
    <3>2. CASE io'[f] = io[f]
      BY <1>0, <2>1, <2>2, <2>3, <3>1, <3>2 DEF Steady, Data, CanBeSlow
    <3>3. CASE /\ "host_port" \in env /\ io'[f] = [io[f] EXCEPT !.paused = TRUE]
               /\ Feeds(peer[f])
      <4>1. "slow_server" \in env
        BY <1>0, <2>1, <2>3, <3>3, PeerThere DEF Feeds, CanBeSlow
      <4> QED
        BY <1>0, <2>1, <2>2, <2>3, <3>3, <4>1, SteadyPaused
    <3> QED
      BY <2>1, <3>2, <3>3
  <2>4. CASE x # f
    <3>1. st'[x] = st[x] /\ (Hears(x)' => Hears(x)) /\ x \notin {f}
      BY <1>0, <2>1, <2>4 DEF Hushed
    <3>2. CASE Spares({f})
      BY <1>1, <3>1, <3>2
    <3>3. CASE Feeds(peer[f]) /\ Spares({f, peer[f]})
      <4>1. CASE x = peer[f]
        BY <1>0, <3>1, <3>3, <4>1, SteadyFed
      <4> QED
        BY <1>1, <3>1, <3>3, <4>1
    <3> QED
      BY <2>1, <3>2, <3>3
  <2> QED
    BY <2>3, <2>4
<1> QED
  BY <1>2, <1>3, <1>4, <1>5, <1>6, <1>7, <1>8, <1>9, <1>10, <1>11 DEF FlowStep
----------------------------------------------------------------------------
(* Who cannot be written to has its peer paused                             *)

\* A notice finds its handler out of the poller or paused for something newer.
Awaits(h) ==
    /\ Plain /\ Owed(h, taskq) =>
         /\ st[h] = "active_ok" => ~Hears(h) \/ (io[h].paused /\ "r" \in Reg(h))
         /\ phase = "events" /\ ("host_port" \notin env \/ ("sync_connect" \in env /\ h \in Backend))
              => st[h] = "active_ok" /\ io[h].paused /\ Reg(h) = {}
    /\ "host_port" \notin env /\ Owed(h, taskq) /\ Live(h) /\ io[h].paused => Reg(h) = {}

\* g is the peer of h.  Of two that are paused one is out of the poller, and who is
\* out and told to go on has a peer that sent everything.
Tamed(h, g) ==
    /\ Plain => /\ Data(h) => io[g].paused
                /\ Owed(h, taskq) /\ io[h].paused => "r" \in Reg(h) \/ ~Data(g)
    /\ "host_port" \notin env /\ io[h].paused /\ Reg(h) # {} => io[g].paused /\ Reg(g) = {}

Peers(h, g) == h \in Conn /\ g \in Conn /\ peer[h] = g

OInv == /\ OwedFirst /\ OwedLater
        /\ \A h \in Conn : Awaits(h) /\ \A g \in Conn : Peers(h, g) => Tamed(h, g)

LEMMA OInvNext ==
    ASSUME OwedFirst', OwedLater',
           \A h \in Conn : Awaits(h)' /\ \A g \in Conn : peer'[h] = g => Tamed(h, g)'
    PROVE  OInv'
BY DEF OInv, Peers

\* What the queue of a step keeps.
QueueOwes ==
    /\ \A h \in Conn : Owed(h, taskq') => Owed(h, taskq)
    /\ phase' = "events" => phase = "events" \/ \A h \in Conn : ~Owed(h, taskq)

LEMMA AwaitsSame ==
    ASSUME NEW x \in Conn, Awaits(x), env' = env, QueueOwes, st'[x] = st[x], io'[x] = io[x],
           Reg(x)' = Reg(x), (Hears(x)' => Hears(x)) \/ ~Owed(x, taskq)
    PROVE  Awaits(x)'
BY DEF Awaits, Plain, Live, QueueOwes

LEMMA AwaitsFed ==
    ASSUME IInv, NEW x \in Conn, Awaits(x), env' = env, QueueOwes, st'[x] = st[x], Feeds(x),
           Hears(x)' => Hears(x)
    PROVE  Awaits(x)'
<1>1. io'[x].paused = io[x].paused /\ Reg(x)' = After(x)
  BY MoreTypes, RegNext DEF Feeds, IoState
<1>2. ("r" \in Reg(x)' <=> "r" \in Reg(x)) /\ (Reg(x) = {} => Reg(x)' = {})
  BY <1>1 DEF Feeds
<1> QED
  BY <1>1, <1>2 DEF Awaits, Plain, Live, QueueOwes

LEMMA TamedSame ==
    ASSUME NEW x \in Conn, NEW y \in Conn, Tamed(x, y), env' = env, QueueOwes,
           io'[x] = io[x], io'[y] = io[y], Reg(x)' = Reg(x), Reg(y)' = Reg(y)
    PROVE  Tamed(x, y)'
BY DEF Tamed, Plain, Data, QueueOwes

\* Who has sent nothing and is not paused is no trouble.
LEMMA TamedFresh ==
    ASSUME NEW x \in Conn, NEW y \in Conn, io'[x] = FreshIo
    PROVE  Tamed(x, y)'
<1>1. io'[x].buf = "none" /\ ~io'[x].paused
  BY DEF FreshIo
<1> QED
  BY <1>1 DEF Tamed, Data

\* A pair apart from h is apart from h's peer.
LEMMA PairsApart ==
    ASSUME IInv, NEW h \in Conn, NEW x \in Conn, NEW y \in Conn, peer[x] = y, x # h, y # h
    PROVE  x # peer[h] /\ y # peer[h]
BY Types DEF IInv, LinkSymmetry

LEMMA QueueKept ==
    ASSUME IInv, TInv, OInv, Moves, env' = env
    PROVE  OwedFirst' /\ OwedLater' /\ QueueOwes
<1>1. OwedFirst /\ OwedLater
  BY DEF OInv
<1>2. /\ OwedFirst' /\ OwedLater'
      /\ \A h \in Conn : Owed(h, taskq') => Owed(h, taskq)
      /\ phase' = "events" => phase = "events" \/ \A h \in Conn : ~Owed(h, taskq)
  BY <1>1, MovesOwe
<1> QED
  BY <1>2 DEF QueueOwes

LEMMA OwesIdles ==
    ASSUME IInv, TInv, OInv, Idles, env' = env
    PROVE  OInv'
<1>1. OwedFirst' /\ OwedLater' /\ QueueOwes
  BY QueueKept DEF Idles
<1>2. phase = "tasks" /\ todo = 0 => \A x \in Conn : ~Owed(x, taskq)
  <2>1. taskq \in Seq(Task) /\ Len(taskq) \in Nat
    BY Types
  <2> QED
    BY <2>1 DEF OInv, OwedLater, Owed
<1>3. \A x \in Conn : st'[x] = st[x] /\ io'[x] = io[x] /\ Reg(x)' = Reg(x) /\ peer'[x] = peer[x]
                      /\ ((Hears(x)' => Hears(x)) \/ ~Owed(x, taskq))
  BY <1>2 DEF Idles, Spares, Hushed
<1>4. \A x \in Conn : Awaits(x)'
  BY <1>1, <1>3, AwaitsSame DEF OInv
<1>5. ASSUME NEW x \in Conn, NEW y \in Conn, peer'[x] = y PROVE Tamed(x, y)'
  <2>1. Tamed(x, y)
    BY <1>3, <1>5 DEF OInv, Peers
  <2> QED
    BY <1>1, <1>3, <2>1, TamedSame
<1> QED
  BY <1>1, <1>4, <1>5, OInvNext

LEMMA OwesAllAnew ==
    ASSUME AllAnew, IInv
    PROVE  OInv'
<1>1. \A h \in Conn : st'[h] = "free" /\ ~io'[h].paused /\ peer'[h] = None
  BY DEF AllAnew, FreshIo
<1>2. \A h : ~Owed(h, taskq') /\ \A i \in 1..Len(taskq') : FALSE
  BY DEF AllAnew, Owed, OwedAt
<1>3. OwedFirst' /\ OwedLater'
  BY <1>2 DEF OwedFirst, OwedLater
<1>4. \A h \in Conn : Awaits(h)'
  BY <1>2 DEF Awaits
<1>5. \A h, g \in Conn : peer'[h] # g
  BY <1>1, Types
<1> QED
  BY <1>3, <1>4, <1>5, OInvNext

LEMMA OwesLeaves ==
    ASSUME IInv, TInv, BInv, OInv, NEW h \in Conn, Leaves(h), env' = env
    PROVE  OInv'
<1>1. OwedFirst' /\ OwedLater' /\ QueueOwes
  BY QueueKept DEF Leaves
<1>2. /\ peer' = Unlinked(h) /\ st' = [st EXCEPT ![h] = "free"] /\ io'[h] = FreshIo
      /\ Spares({h}) \/ (peer[h] # None /\ Spares({h, peer[h]}) /\ Feeds(peer[h]))
      /\ Hushed
      /\ phase = "events" => Reg(h) # {} \/ st[h] = "new_ok"
  BY DEF Leaves, Left
<1>3. /\ st'[h] = "free" /\ ~io'[h].paused /\ peer'[h] = None
      /\ \A x \in Conn \ {h} : st'[x] = st[x] /\ peer'[x] = IF x = peer[h] THEN None ELSE peer[x]
  BY <1>2, Types DEF Unlinked, FreshIo
<1>4. \A x \in Conn : Hears(x)' => Hears(x)
  BY DEF Leaves, Hushed
<1>5. Awaits(h)'
  <2>1. ~(Plain /\ Owed(h, taskq) /\ phase = "events"
          /\ ("host_port" \notin env \/ ("sync_connect" \in env /\ h \in Backend)))
    BY <1>2 DEF OInv, Awaits
  <2> QED
    BY <1>1, <1>3, <2>1 DEF Awaits, Plain, QueueOwes, Live, LiveState
<1>6. ASSUME NEW x \in Conn \ {h} PROVE Awaits(x)'
  <2>1. CASE io'[x] = io[x] /\ Reg(x)' = Reg(x)
    BY <1>1, <1>3, <1>4, <2>1, AwaitsSame DEF OInv
  <2>2. CASE x = peer[h] /\ Feeds(peer[h])
    BY <1>1, <1>3, <1>4, <2>2, AwaitsFed DEF OInv
  <2> QED
    BY <1>2, <2>1, <2>2 DEF Spares
<1>7. ASSUME NEW x \in Conn, NEW y \in Conn, peer'[x] = y PROVE Tamed(x, y)'
  <2>1. None \notin Conn
    BY Types
  <2>2. x # h /\ peer[x] = y /\ x # peer[h]
    BY <1>3, <1>7, <2>1
  <2>3. y # h /\ y # peer[h]
    BY <2>2, Types DEF IInv, LinkSymmetry
  <2>4. io'[x] = io[x] /\ io'[y] = io[y] /\ Reg(x)' = Reg(x) /\ Reg(y)' = Reg(y)
    BY <1>2, <2>2, <2>3 DEF Spares
  <2> QED
    BY <1>1, <2>2, <2>4, TamedSame DEF OInv, Peers
<1> QED
  BY <1>1, <1>5, <1>6, <1>7, OInvNext

LEMMA OwesCongests ==
    ASSUME FInv0, TInv, OInv, NEW h \in Conn, Congests(h), env' = env
    PROVE  OInv'
<1>a. IInv /\ BInv /\ peer[h] # None
  BY DEF FInv0, Congests
<1>b. PICK g \in Conn : g = peer[h]
  BY <1>a, Types
<1>0. /\ IInv /\ BInv /\ g \in Conn /\ g # h /\ peer[g] = h /\ peer[h] = g
      /\ io \in [Conn -> IoState] /\ Steady(h) /\ Steady(g)
  BY <1>a, <1>b, PeerThere, MoreTypes, SteadyAll DEF FInv0
<1>1. OwedFirst' /\ OwedLater' /\ QueueOwes
  BY <1>0, QueueKept DEF Congests, Moves
<1>2. /\ st' = st /\ peer' = peer /\ taskq' = taskq /\ phase = "events" /\ st[h] = "active_ok"
      /\ Reg(h) # {} /\ Hears(h) /\ ~Hears(h)' /\ Feeds(g) /\ Spares({h, g}) /\ Hushed
      /\ Reg(h)' = IF io[h].paused THEN Reg(h) ELSE Reg(h) \ {"r"}
      /\ io'[h] = [io[h] EXCEPT !.paused = TRUE]
  BY <1>b DEF Congests
<1>3. io'[h].paused /\ io'[h].buf = io[h].buf /\ (Data(h)' <=> Data(h))
  BY <1>0, <1>2 DEF IoState, Data
<1>4. /\ Data(g)' /\ io'[g].paused = io[g].paused
      /\ Reg(g)' = IF Data(g) \/ Reg(g) = {} THEN Reg(g) ELSE Reg(g) \cup {"w"}
  <2>1. Reg(g)' = After(g)
    BY RegNext
  <2> QED
    BY <1>0, <1>2, <2>1 DEF Feeds, Data, IoState
<1>5. Peers(h, g) /\ Peers(g, h) /\ Awaits(h) /\ Awaits(g) /\ Tamed(h, g) /\ Tamed(g, h)
  BY <1>0 DEF OInv, Peers
<1>6. Awaits(h)'
  BY <1>1, <1>2, <1>5 DEF Awaits, Plain, QueueOwes
<1>7. Awaits(g)'
  BY <1>0, <1>1, <1>2, <1>5, AwaitsFed DEF Hushed
<1>8. Tamed(h, g)'
  <2>1. Plain /\ Owed(h, taskq) => io[h].paused /\ "r" \in Reg(h)
    BY <1>2, <1>5 DEF Awaits
  <2>2. ASSUME "host_port" \notin env, Reg(h)' # {} PROVE io[g].paused /\ Reg(g) = {}
    <3>1. CASE io[h].paused
      BY <1>2, <1>5, <2>2, <3>1 DEF Tamed
    <3>2. CASE ~io[h].paused
      <4>1. Reg(h) \subseteq {"r", "w"}
        BY <1>0, MoreTypes DEF Reg, RegIn, PdState
      <4>2. Data(h) /\ Plain
        BY <1>0, <1>2, <2>2, <3>2, <4>1 DEF Steady, Plain
      <4> QED
        BY <1>5, <2>2, <3>2, <4>2 DEF Tamed
    <3> QED
      BY <3>1, <3>2
  <2> QED
    BY <1>1, <1>2, <1>3, <1>4, <1>5, <2>1, <2>2 DEF Tamed, Plain, QueueOwes
<1>9. Tamed(g, h)'
  BY <1>1, <1>2, <1>3, <1>4, <1>5 DEF Tamed, Plain, QueueOwes
<1>10. ASSUME NEW x \in Conn \ {h, g} PROVE Awaits(x)'
  BY <1>1, <1>2, AwaitsSame DEF OInv, Spares, Hushed
<1>11. ASSUME NEW x \in Conn, NEW y \in Conn, peer'[x] = y PROVE Tamed(x, y)'
  <2>1. CASE x = h
    BY <1>0, <1>2, <1>8, <1>11, <2>1
  <2>2. CASE y = h
    <3>1. x = g
      BY <1>0, <1>2, <1>11, <2>2, Types DEF IInv, LinkSymmetry
    <3> QED
      BY <1>9, <2>2, <3>1
  <2>3. CASE x # h /\ y # h
    <3>1. x \notin {h, g} /\ y \notin {h, g} /\ Tamed(x, y)
      BY <1>0, <1>2, <1>11, <2>3, PairsApart DEF OInv, Peers
    <3> QED
      BY <1>1, <1>2, <3>1, TamedSame DEF Spares
  <2> QED
    BY <2>1, <2>2, <2>3
<1> QED
  BY <1>1, <1>6, <1>7, <1>10, <1>11, OInvNext

\* The queue after h has told its peer that it drained.
LEMMA DrainedQueue ==
    ASSUME IInv, OwedFirst, NEW h \in Conn, InEvents(DrainedTask(h)), env' = env,
           \A f \in Frontend : Plain /\ f = peer[h] => ~Tells(f, taskq)
    PROVE  /\ OwedFirst' /\ OwedLater'
           /\ \A x \in Conn : /\ Owed(x, taskq') => Owed(x, taskq) \/ x = peer[h]
                              /\ Owed(x, taskq) => Owed(x, taskq')
                              /\ Tells(x, taskq) => Tells(x, taskq')
                              /\ x = peer[h] => Owed(x, taskq')
<1>0. taskq \in Seq(Task) /\ Len(taskq) \in Nat /\ OwedLater'
  BY Types DEF InEvents, OwedLater
<1>1. \A x, q : \A i : (OwedAt(i, x, q) => i \in 1..Len(q)) /\ (TellsAt(i, x, q) => i \in 1..Len(q))
  BY DEF OwedAt, TellsAt
<1>2. \A x, q : (Owed(x, q) <=> \E i : OwedAt(i, x, q)) /\ (Tells(x, q) <=> \E i : TellsAt(i, x, q))
  BY <1>1 DEF Owed, Tells
<1>3. CASE peer[h] = None
  <2>1. taskq' = taskq
    BY <1>3, Shapes DEF InEvents, DrainedTask
  <2>2. OwedFirst'
    BY <2>1 DEF OwedFirst, Plain
  <2> QED
    BY <1>0, <1>3, <2>1, <2>2, Types
<1>4. CASE peer[h] # None
  <2>1. PICK t \in Task : /\ DrainedTask(h) = <<t>> /\ t.type \in Drained /\ t.p = peer[h]
    <3>1. CASE h \in Frontend
      <4>1. peer[h] \in Backend
        BY <1>4, <3>1, Pairs
      <4>2. T("frontend_send_buffer_drained", peer[h]) \in Task
        BY <4>1 DEF T, Task
      <4> QED
        BY <1>4, <3>1, <4>2 DEF DrainedTask, T, Drained
    <3>2. CASE h \in Backend
      <4>1. peer[h] \in Frontend /\ h \notin Frontend
        BY <1>4, <3>2, Pairs
      <4>2. T("backend_send_buffer_drained", peer[h]) \in Task
        BY <4>1 DEF T, Task
      <4> QED
        BY <1>4, <4>1, <4>2 DEF DrainedTask, T, Drained
    <3> QED
      BY <3>1, <3>2 DEF Conn
  <2> DEFINE n == Len(taskq) + 1
  <2>2. taskq' = taskq \o <<t>>
    BY <2>1 DEF InEvents
  <2>3. Len(taskq') = n /\ taskq'[n] = t /\ \A i \in 1..Len(taskq) : taskq'[i] = taskq[i]
    BY <1>0, <2>2
  <2>4. n \in Nat /\ \A i \in 1..n : i \in 1..Len(taskq) \/ i = n
    BY <1>0
  <2>5. \A x, i : /\ OwedAt(i, x, taskq') <=> OwedAt(i, x, taskq) \/ (i = n /\ x = peer[h])
                  /\ TellsAt(i, x, taskq') <=> TellsAt(i, x, taskq)
    <3>1. t.type # "backend_conn_ok"
      BY <2>1 DEF Drained
    <3>2. 1..Len(taskq) \subseteq 1..n /\ n \in 1..n /\ n \notin 1..Len(taskq)
      BY <1>0
    <3> QED
      BY <2>1, <2>3, <2>4, <3>1, <3>2 DEF OwedAt, TellsAt
  <2>6. OwedFirst'
    <3> SUFFICES ASSUME Plain, NEW f \in Frontend, NEW i \in Nat, NEW j \in Nat,
                        OwedAt(j, f, taskq'), TellsAt(i, f, taskq')
                 PROVE  j < i
      BY <1>0, <2>3, <2>4 DEF OwedFirst, Plain
    <3>1. TellsAt(i, f, taskq) /\ Tells(f, taskq)
      BY <1>2, <2>5
    <3>2. f # peer[h]
      BY <3>1
    <3> QED
      BY <1>1, <2>5, <3>1, <3>2 DEF OwedFirst
  <2> QED
    BY <1>0, <1>2, <2>5, <2>6
<1> QED
  BY <1>3, <1>4

\* Who is paused is active.
LEMMA PausedIsActive ==
    ASSUME IInv, PInv, UInv, BInv, NEW h \in Conn, io[h].paused
    PROVE  st[h] = "active_ok"
<1>1. CASE h \in Frontend
  BY <1>1 DEF UInv, PausedActive
<1>2. CASE h \in Backend
  <2>1. st[h] \in {"new_ok", "conn_ok", "active_ok", "free"}
    BY Types DEF LiveState
  <2> QED
    BY <1>2, <2>1 DEF PInv, PausedServes, BInv, Stages
<1> QED
  BY <1>1, <1>2 DEF Conn

LEMMA RegTypes == ASSUME IInv, NEW x \in Conn PROVE Reg(x) \subseteq {"r", "w"}
BY MoreTypes DEF Reg, RegIn, PdState

\* Who is told of a drain is paused, and active already.
LEMMA DrainedPeer ==
    ASSUME FInv0, TInv, OInv, NEW h \in Conn, Drains(h)
    PROVE  /\ Plain /\ peer[h] # None => io[peer[h]].paused /\ st[peer[h]] = "active_ok"
           /\ \A f \in Frontend : Plain /\ f = peer[h] => ~Tells(f, taskq)
<1>0. /\ IInv /\ PInv /\ UInv /\ BInv /\ Steady(h)
      /\ io[h].polling /\ phase = "events"
  BY SteadyAll DEF FInv0, Drains, InEvents
<1>1. ASSUME Plain, peer[h] # None
      PROVE  io[peer[h]].paused /\ st[peer[h]] = "active_ok"
  <2>1. peer[h] \in Conn /\ Data(h)
    BY <1>0, <1>1, Types DEF Steady
  <2>2. io[peer[h]].paused
    BY <1>1, <2>1 DEF OInv, Peers, Tamed
  <2> QED
    BY <1>0, <2>1, <2>2, PausedIsActive
<1>2. \A f \in Frontend : Plain /\ f = peer[h] => ~Tells(f, taskq)
  BY <1>0, <1>1, Types DEF TInv, ActiveIsOld
<1> QED
  BY <1>1, <1>2

LEMMA OwesDrains ==
    ASSUME FInv0, TInv, OInv, NEW h \in Conn, Drains(h), env' = env
    PROVE  OInv'
<1>0. /\ IInv /\ PInv /\ UInv /\ BInv /\ io \in [Conn -> IoState]
      /\ \A x \in Conn : Steady(x)
  BY MoreTypes, SteadyAll DEF FInv0
<1>1. /\ UNCHANGED <<st, peer>> /\ io[h].polling /\ Reg(h) # {} /\ Spares({h}) /\ Hushed
      /\ io'[h] = [io[h] EXCEPT !.buf = "empty", !.polling = FALSE]
      /\ Reg(h)' = Reg(h) \ {"w"} /\ InEvents(DrainedTask(h)) /\ phase = "events" /\ phase' = "events"
  BY DEF Drains, InEvents
<1>2. Data(h) /\ ~Data(h)' /\ io'[h].paused = io[h].paused
  BY <1>0, <1>1 DEF Steady, Data, IoState
<1>3. ASSUME Plain, peer[h] # None
      PROVE  io[peer[h]].paused /\ st[peer[h]] = "active_ok"
  BY <1>3, DrainedPeer
<1>4. \A f \in Frontend : Plain /\ f = peer[h] => ~Tells(f, taskq)
  BY DrainedPeer
<1>5. /\ OwedFirst' /\ OwedLater'
      /\ \A x \in Conn : Owed(x, taskq') => Owed(x, taskq) \/ x = peer[h]
  BY <1>0, <1>1, <1>4, DrainedQueue DEF OInv
<1>6. peer[h] # h
  BY <1>0, PeerThere, Types
<1>7. Awaits(h)'
  <2>1. Awaits(h) /\ (Owed(h, taskq') => Owed(h, taskq))
    BY <1>5, <1>6 DEF OInv
  <2> QED
    BY <1>1, <1>2, <2>1 DEF Awaits, Plain, Live, Hushed
<1>8. ASSUME NEW x \in Conn \ {h} PROVE Awaits(x)'
  <2>0. /\ st'[x] = st[x] /\ io'[x] = io[x] /\ Reg(x)' = Reg(x) /\ (Hears(x)' => Hears(x))
        /\ Awaits(x) /\ Steady(x)
    BY <1>0, <1>1 DEF Spares, Hushed, OInv
  <2>1. CASE x # peer[h]
    BY <1>1, <1>5, <2>0, <2>1 DEF Awaits, Plain, Live
  <2>2. CASE x = peer[h]
    <3>0. peer[h] # None /\ Peers(h, x) /\ Peers(x, h) /\ (x \in Backend <=> h \in Frontend)
      BY <1>0, <2>2, PeerThere, Types DEF Peers
    <3>1. Plain => io[x].paused /\ st[x] = "active_ok"
      BY <1>3, <2>2, <3>0
    <3>2. ASSUME Plain, "host_port" \notin env PROVE Reg(x) = {}
      <4>1. Tamed(x, h)
        BY <3>0 DEF OInv, Peers
      <4> QED
        BY <1>1, <3>1, <3>2, <4>1 DEF Tamed
    <3>3. ASSUME Plain, "host_port" \in env, "sync_connect" \in env, x \in Backend PROVE Reg(x) = {}
      <4>1. x \notin Frontend /\ Reg(x) \subseteq {"r", "w"}
        BY <1>0, <3>3, Pairs, RegTypes
      <4>2. "slow_client" \in env /\ "slow_server" \notin env
        BY <1>0, <1>2, <3>0, <3>3 DEF Steady, CanBeSlow, Plain
      <4>3. ~Data(x)
        BY <2>0, <4>1, <4>2 DEF Steady, CanBeSlow
      <4> QED
        BY <2>0, <3>1, <3>3, <4>1, <4>3 DEF Steady
    <3>4. io[x].paused => ~Hears(x) \/ "r" \in Reg(x)
      BY <2>0 DEF Steady
    <3>5. "host_port" \notin env => Plain
      BY DEF Plain
    <3> QED
      BY <2>0, <3>1, <3>2, <3>3, <3>4, <3>5 DEF Awaits, Plain, Live
  <2> QED
    BY <2>1, <2>2
<1>9. ASSUME NEW x \in Conn, NEW y \in Conn, peer'[x] = y PROVE Tamed(x, y)'
  <2>0. Tamed(x, y) /\ peer[x] = y /\ x # y
    BY <1>0, <1>1, <1>9, PeerThere, Types DEF OInv, Peers
  <2>1. CASE x = h
    <3>1. /\ io'[y] = io[y] /\ Reg(y)' = Reg(y) /\ (Owed(x, taskq') => Owed(x, taskq))
          /\ Data(y)' = Data(y)
      BY <1>1, <1>5, <1>6, <2>0, <2>1 DEF Spares, Data
    <3> QED
      BY <1>1, <1>2, <2>0, <2>1, <3>1 DEF Tamed, Plain
  <2>2. CASE y = h
    <3>1. io'[x] = io[x] /\ Reg(x)' = Reg(x) /\ Data(x)' = Data(x)
      BY <1>1, <2>0, <2>2 DEF Spares, Data
    <3> QED
      BY <1>1, <1>2, <2>0, <2>2, <3>1 DEF Tamed, Plain
  <2>3. CASE x # h /\ y # h
    <3>1. x # peer[h]
      BY <1>0, <2>0, <2>3, PairsApart
    <3>2. /\ io'[x] = io[x] /\ Reg(x)' = Reg(x) /\ io'[y] = io[y] /\ Reg(y)' = Reg(y)
          /\ (Owed(x, taskq') => Owed(x, taskq))
      BY <1>1, <1>5, <2>3, <3>1 DEF Spares
    <3> QED
      BY <2>0, <3>2 DEF Tamed, Plain, Data
  <2> QED
    BY <2>1, <2>2, <2>3
<1> QED
  BY <1>5, <1>7, <1>8, <1>9, OInvNext

LEMMA OwesAttaches ==
    ASSUME FInv0, TInv, OInv, NEW b \in Backend, Attaches(b), env' = env
    PROVE  OInv'
<1>0. IInv /\ BInv /\ b \in Conn /\ st \in [Conn -> LiveState \cup {"free"}]
  BY Types DEF FInv0
<1>1. OwedFirst' /\ OwedLater' /\ QueueOwes
  BY <1>0, QueueKept DEF Attaches
<1>2. /\ st[b] = "new_ok" /\ st' = [st EXCEPT ![b] = "active_ok"] /\ UNCHANGED <<peer, io>>
      /\ ~Hears(b)' /\ Spares({b}) /\ Hushed /\ phase = "events" /\ io[b] = FreshIo
      /\ Reg(b)' = {"r"}
  BY <1>0 DEF Attaches, BInv, Fresh
<1>3. Awaits(b)'
  BY <1>0, <1>1, <1>2 DEF OInv, Awaits, QueueOwes, Plain, FreshIo
<1>4. ASSUME NEW x \in Conn \ {b} PROVE Awaits(x)'
  <2>1. st'[x] = st[x] /\ io'[x] = io[x] /\ Reg(x)' = Reg(x) /\ (Hears(x)' => Hears(x)) /\ Awaits(x)
    BY <1>0, <1>2 DEF Spares, Hushed, OInv
  <2> QED
    BY <1>1, <2>1, AwaitsSame
<1>5. ASSUME NEW x \in Conn, NEW y \in Conn, peer'[x] = y PROVE Tamed(x, y)'
  <2>0. Tamed(x, y) /\ peer[x] = y /\ x # y
    BY <1>0, <1>2, <1>5, PeerThere, Types DEF OInv, Peers
  <2>1. CASE x = b
    BY <1>2, <2>1, TamedFresh
  <2>2. CASE y = b
    <3>1. io'[x] = io[x] /\ Reg(x)' = Reg(x) /\ io'[b] = FreshIo
      BY <1>2, <2>0, <2>2 DEF Spares
    <3> QED
      BY <1>1, <1>2, <2>0, <2>2, <3>1 DEF Tamed, Plain, Data, FreshIo, QueueOwes
  <2>3. CASE x # b /\ y # b
    <3>1. io'[x] = io[x] /\ Reg(x)' = Reg(x) /\ io'[y] = io[y] /\ Reg(y)' = Reg(y)
      BY <1>2, <2>3 DEF Spares
    <3> QED
      BY <1>1, <2>0, <3>1, TamedSame
  <2> QED
    BY <2>1, <2>2, <2>3
<1> QED
  BY <1>1, <1>3, <1>4, <1>5, OInvNext

LEMMA OwesCouples ==
    ASSUME FInv0, TInv, OInv, NEW f \in Frontend, NEW b \in Backend, Couples(f, b), env' = env
    PROVE  OInv'
<1>0. /\ IInv /\ BInv /\ b \in Conn /\ f \in Conn /\ st \in [Conn -> LiveState \cup {"free"}]
      /\ b \notin Frontend /\ f \notin Backend /\ f # None /\ b # None
  BY Types, Pairs DEF FInv0
<1>1. OwedFirst' /\ OwedLater' /\ QueueOwes
  BY <1>0, QueueKept DEF Couples
<1>2. PICK s \in {"new_ok", "active_ok"} : st' = [st EXCEPT ![f] = "conn_ok", ![b] = s]
  BY DEF Couples
<1>3. /\ st[b] = "free" /\ st[f] \in {"free", "conn_ok"} /\ (st[f] = "free" \/ req[f] = "no")
      /\ peer' = [peer EXCEPT ![f] = b, ![b] = f] /\ io' = io
      /\ st'[b] = "active_ok" => "sync_connect" \in env
      /\ Spares({f, b}) /\ (\A x \in Conn \ {f, b} : Hears(x)' => Hears(x)) /\ phase = "events"
  BY DEF Couples
<1>4. io[f] = FreshIo /\ io[b] = FreshIo /\ st'[f] = "conn_ok" /\ st'[b] = s
  BY <1>0, <1>2, <1>3 DEF BInv, Fresh
<1>5. peer[f] = None /\ peer[b] = None
  <2>1. ~Live(b) /\ (st[f] = "free" => ~Live(f))
    BY <1>3 DEF Live, LiveState
  <2>2. peer[b] = None /\ (~Live(f) => peer[f] = None)
    BY <1>0, <2>1 DEF IInv, LinkSymmetry
  <2> QED
    BY <1>0, <1>3, <2>1, <2>2 DEF IInv, NoAppNoBackend
<1>6. Awaits(f)'
  <2>1. ~io'[f].paused /\ st[f] # "active_ok"
    BY <1>3, <1>4 DEF FreshIo
  <2>2. Awaits(f) /\ (Owed(f, taskq') => Owed(f, taskq))
    BY <1>0, <1>1 DEF OInv, QueueOwes
  <2> QED
    BY <1>0, <1>3, <1>4, <2>1, <2>2 DEF Awaits, Plain
<1>7. Awaits(b)'
  <2>1. ~io'[b].paused /\ st[b] # "active_ok"
    BY <1>3, <1>4 DEF FreshIo
  <2>2. Awaits(b) /\ (Owed(b, taskq') => Owed(b, taskq))
    BY <1>0, <1>1 DEF OInv, QueueOwes
  <2> QED
    BY <1>0, <1>3, <1>4, <2>1, <2>2 DEF Awaits, Plain
<1>8. ASSUME NEW x \in Conn \ {f, b} PROVE Awaits(x)'
  <2>1. st'[x] = st[x] /\ io'[x] = io[x] /\ Reg(x)' = Reg(x) /\ (Hears(x)' => Hears(x)) /\ Awaits(x)
    BY <1>0, <1>2, <1>3 DEF Spares, OInv
  <2> QED
    BY <1>1, <2>1, AwaitsSame
<1>9. ASSUME NEW x \in Conn, NEW y \in Conn, peer'[x] = y PROVE Tamed(x, y)'
  <2>1. CASE x \in {f, b}
    <3>1. io'[x] = FreshIo
      BY <1>3, <1>4, <2>1
    <3> QED
      BY <3>1, TamedFresh
  <2>2. CASE x \notin {f, b}
    <3>1. peer[x] = y
      BY <1>0, <1>3, <1>9, <2>2, Types
    <3>2. y \notin {f, b} /\ Tamed(x, y)
      BY <1>0, <1>5, <3>1, Types DEF IInv, LinkSymmetry, OInv, Peers
    <3>3. io'[x] = io[x] /\ Reg(x)' = Reg(x) /\ io'[y] = io[y] /\ Reg(y)' = Reg(y)
      BY <1>3, <2>2, <3>2 DEF Spares
    <3> QED
      BY <1>1, <3>2, <3>3, TamedSame
  <2> QED
    BY <2>1, <2>2
<1> QED
  BY <1>1, <1>6, <1>7, <1>8, <1>9, OInvNext

LEMMA OwesEnters ==
    ASSUME FInv0, TInv, OInv, NEW f \in Frontend, Enters(f), env' = env
    PROVE  OInv'
<1>0. /\ IInv /\ BInv /\ f \in Conn /\ st \in [Conn -> LiveState \cup {"free"}]
      /\ f \notin Backend
  BY Types, Pairs DEF FInv0
<1>1. OwedFirst' /\ OwedLater' /\ QueueOwes
  BY <1>0, QueueKept DEF Enters
<1>2. /\ st[f] = "free" /\ "host_port" \in env /\ st' = [st EXCEPT ![f] = "conn_ok"]
      /\ UNCHANGED <<peer, io>>
      /\ Spares({f}) /\ (\A x \in Conn \ {f} : Hears(x)' => Hears(x)) /\ phase = "events"
  BY DEF Enters
<1>3. st'[f] = "conn_ok" /\ peer[f] = None
  <2>1. ~Live(f)
    BY <1>2 DEF Live, LiveState
  <2> QED
    BY <1>0, <1>2, <2>1 DEF IInv, LinkSymmetry
<1>4. Awaits(f)'
  BY <1>0, <1>2, <1>3 DEF Awaits
<1>5. ASSUME NEW x \in Conn \ {f} PROVE Awaits(x)'
  <2>1. st'[x] = st[x] /\ io'[x] = io[x] /\ Reg(x)' = Reg(x) /\ (Hears(x)' => Hears(x)) /\ Awaits(x)
    BY <1>0, <1>2 DEF Spares, OInv
  <2> QED
    BY <1>1, <2>1, AwaitsSame
<1>6. ASSUME NEW x \in Conn, NEW y \in Conn, peer'[x] = y PROVE Tamed(x, y)'
  <2>1. peer[x] = y /\ x # f /\ y # f /\ Tamed(x, y)
    BY <1>0, <1>2, <1>3, <1>6, Types DEF IInv, LinkSymmetry, OInv, Peers
  <2>2. io'[x] = io[x] /\ Reg(x)' = Reg(x) /\ io'[y] = io[y] /\ Reg(y)' = Reg(y)
    BY <1>2, <2>1 DEF Spares
  <2> QED
    BY <1>1, <2>1, <2>2, TamedSame
<1> QED
  BY <1>1, <1>4, <1>5, <1>6, OInvNext

LEMMA OwesResumes ==
    ASSUME FInv0, TInv, OInv, NEW h \in Conn, Resumes(h), env' = env
    PROVE  OInv'
<1>0. /\ IInv /\ PInv /\ UInv /\ BInv /\ io \in [Conn -> IoState]
      /\ \A x \in Conn : Steady(x)
  BY MoreTypes, SteadyAll DEF FInv0
<1>1. OwedFirst' /\ OwedLater' /\ QueueOwes
  BY <1>0, QueueKept DEF Resumes
<1>2. /\ UNCHANGED <<st, peer>> /\ io[h].paused /\ Reg(h) = {} /\ Reg(h)' = {"r"}
      /\ io'[h] = [io[h] EXCEPT !.paused = FALSE] /\ Spares({h}) /\ Hushed
      /\ Popping /\ OwedAt(1, h, taskq)
  BY DEF Resumes
<1>3. ~io'[h].paused /\ Data(h)' = Data(h) /\ phase = "tasks" /\ Owed(h, taskq)
  BY <1>0, <1>2 DEF IoState, Data, Popping, Owed, OwedAt
<1>4. phase' # "events"
  BY <1>2, <1>3 DEF Resumes, Moves, LoopGoes, InEvents, Popping
<1>5. Awaits(h)'
  <2>1. ~Hears(h)'
    BY <1>0, <1>2 DEF Steady, Hushed
  <2> QED
    BY <1>1, <1>3, <1>4, <2>1 DEF Awaits
<1>6. ASSUME NEW x \in Conn \ {h} PROVE Awaits(x)'
  <2>1. st'[x] = st[x] /\ io'[x] = io[x] /\ Reg(x)' = Reg(x) /\ (Hears(x)' => Hears(x)) /\ Awaits(x)
    BY <1>2 DEF Spares, Hushed, OInv
  <2> QED
    BY <1>1, <2>1, AwaitsSame
<1>7. ASSUME NEW x \in Conn, NEW y \in Conn, peer'[x] = y PROVE Tamed(x, y)'
  <2>0. /\ peer[x] = y /\ x # y /\ peer[y] = x /\ Tamed(x, y) /\ Tamed(y, x)
    BY <1>0, <1>2, <1>7, PeerThere, Types DEF OInv, Peers
  <2>1. CASE x = h
    <3>1. io'[y] = io[y]
      BY <1>2, <2>0, <2>1 DEF Spares
    <3> QED
      BY <1>1, <1>3, <2>0, <2>1, <3>1 DEF Tamed, Plain
  <2>2. CASE y = h
    <3>1. io'[x] = io[x] /\ Reg(x)' = Reg(x) /\ (Data(x)' <=> Data(x))
      BY <1>2, <2>0, <2>2 DEF Spares, Data
    <3>2. Plain => ~Data(x)
      BY <1>2, <1>3, <2>0, <2>2 DEF Tamed
    <3>3. "host_port" \notin env /\ io[x].paused => Reg(x) = {}
      <4> SUFFICES ASSUME "host_port" \notin env, io[x].paused PROVE Reg(x) = {}
        OBVIOUS
      <4>1. "r" \notin Reg(x) /\ ~Data(x)
        BY <1>0, <3>2 DEF Steady, Plain
      <4>2. st[x] # "new_ok"
        BY <1>0, PausedIsActive
      <4>3. "w" \notin Reg(x) /\ Reg(x) \subseteq {"r", "w"}
        BY <1>0, <4>1, <4>2, RegTypes DEF Steady
      <4> QED
        BY <4>1, <4>3
    <3> QED
      BY <1>1, <1>3, <2>0, <2>2, <3>1, <3>2, <3>3 DEF Tamed, Plain, QueueOwes
  <2>3. CASE x # h /\ y # h
    <3>1. io'[x] = io[x] /\ Reg(x)' = Reg(x) /\ io'[y] = io[y] /\ Reg(y)' = Reg(y)
      BY <1>2, <2>3 DEF Spares
    <3> QED
      BY <1>1, <2>0, <3>1, TamedSame
  <2> QED
    BY <2>1, <2>2, <2>3
<1> QED
  BY <1>1, <1>5, <1>6, <1>7, OInvNext

\* A frontend that is being told of its backend has been told of no drain.
LEMMA ToldNotOwed ==
    ASSUME OwedFirst, Plain, NEW f \in Frontend, TellsAt(1, f, taskq)
    PROVE  ~Owed(f, taskq)
<1> SUFFICES ASSUME NEW j \in 1..Len(taskq), OwedAt(j, f, taskq) PROVE FALSE
  BY DEF Owed
<1>1. j < 1
  BY DEF OwedFirst, TellsAt
<1> QED
  BY <1>1

LEMMA OwesServes ==
    ASSUME FInv0, TInv, OInv, NEW f \in Frontend, Serves(f), env' = env
    PROVE  OInv'
<1>a. IInv /\ BInv /\ UInv /\ peer[f] # None /\ f \in Conn
  BY Types DEF FInv0, Serves
<1>b. PICK b \in Conn : b = peer[f]
  BY <1>a, Types
<1>0. /\ IInv /\ BInv /\ b \in Conn /\ b # f /\ peer[b] = f /\ peer[f] = b
      /\ io \in [Conn -> IoState] /\ st \in [Conn -> LiveState \cup {"free"}]
  BY <1>a, <1>b, PeerThere, MoreTypes, Types
<1>1. OwedFirst' /\ OwedLater' /\ QueueOwes
  BY <1>0, QueueKept DEF Serves
<1>2. /\ st' = [st EXCEPT ![f] = "active_ok"] /\ peer' = peer /\ Reg(f)' = {"r"}
      /\ \/ io'[f] = io[f] /\ Spares({f})
         \/ /\ "host_port" \in env /\ io'[f] = [io[f] EXCEPT !.paused = TRUE]
            /\ Feeds(b) /\ Spares({f, b})
      /\ Hushed /\ TellsAt(1, f, taskq)
  BY <1>b DEF Serves
<1>3. Plain => ~Owed(f, taskq)
  BY <1>2, ToldNotOwed DEF OInv
<1>4. ~io[f].paused
  BY <1>2, <1>a, ToldIsNew DEF UInv, PausedActive
<1>5. Data(f)' = Data(f) /\ (io'[f].paused => "host_port" \in env)
      /\ \A x \in Conn \ {f} : st'[x] = st[x]
  <2>1. io[f] \in IoState
    BY <1>0, <1>a
  <2>2. io'[f].buf = io[f].buf /\ (io'[f].paused => "host_port" \in env)
    BY <1>2, <1>4, <2>1 DEF IoState
  <2>3. \A x \in Conn \ {f} : st'[x] = st[x]
    BY <1>0, <1>2
  <2> QED
    BY <2>2, <2>3 DEF Data
<1>6. Awaits(f)'
  <2>1. "host_port" \notin env => Plain
    BY DEF Plain
  <2> QED
    BY <1>1, <1>3, <1>a, <2>1 DEF Awaits, QueueOwes, Plain
<1>7. ASSUME NEW x \in Conn \ {f} PROVE Awaits(x)'
  <2>0. st'[x] = st[x] /\ (Hears(x)' => Hears(x)) /\ Awaits(x)
    BY <1>2, <1>5 DEF Hushed, OInv
  <2>1. CASE io'[x] = io[x] /\ Reg(x)' = Reg(x)
    BY <1>1, <2>0, <2>1, AwaitsSame
  <2>2. CASE x = b /\ Feeds(b)
    BY <1>0, <1>1, <2>0, <2>2, AwaitsFed
  <2> QED
    BY <1>2, <2>1, <2>2 DEF Spares
<1>8. /\ io'[b].paused = io[b].paused /\ ("r" \in Reg(b) => "r" \in Reg(b)')
      /\ \/ io'[b] = io[b] /\ Reg(b)' = Reg(b)
         \/ "host_port" \in env /\ io'[f].paused
  <2>1. CASE Spares({f})
    BY <1>0, <2>1 DEF Spares
  <2>2. CASE /\ "host_port" \in env /\ io'[f] = [io[f] EXCEPT !.paused = TRUE]
             /\ Feeds(b)
    <3>1. Reg(b)' = After(b)
      BY RegNext
    <3> QED
      BY <1>0, <1>a, <2>2, <3>1 DEF Feeds, IoState
  <2> QED
    BY <1>2, <2>1, <2>2
<1>10. Tamed(f, b) /\ Tamed(b, f)
  BY <1>0, <1>a DEF OInv, Peers
<1>11. Tamed(f, b)'
  BY <1>1, <1>3, <1>5, <1>8, <1>10, <1>a DEF Tamed, Plain, QueueOwes
<1>12. Tamed(b, f)'
  <2>1. CASE io'[b] = io[b] /\ Reg(b)' = Reg(b)
    <3>1. Data(b)' = Data(b) /\ (io[f].paused => io'[f].paused)
      BY <1>4, <2>1 DEF Data
    <3> QED
      BY <1>0, <1>1, <1>4, <1>5, <1>10, <2>1, <3>1 DEF Tamed, Plain, QueueOwes
  <2>2. CASE "host_port" \in env /\ io'[f].paused
    BY <1>0, <1>1, <1>5, <1>8, <1>10, <2>2 DEF Tamed, Plain, QueueOwes
  <2> QED
    BY <1>8, <2>1, <2>2
<1>13. ASSUME NEW x \in Conn, NEW y \in Conn, peer'[x] = y PROVE Tamed(x, y)'
  <2>0. peer[x] = y /\ Tamed(x, y)
    BY <1>2, <1>13 DEF OInv, Peers
  <2>1. CASE x = f
    BY <1>0, <1>11, <2>0, <2>1
  <2>2. CASE y = f
    <3>1. x = b
      BY <1>0, <2>0, <2>2, Types DEF IInv, LinkSymmetry
    <3> QED
      BY <1>12, <2>2, <3>1
  <2>3. CASE x # f /\ y # f
    <3>1. x \notin {f, b} /\ y \notin {f, b}
      BY <1>0, <1>a, <2>0, <2>3, PairsApart
    <3>2. io'[x] = io[x] /\ Reg(x)' = Reg(x) /\ io'[y] = io[y] /\ Reg(y)' = Reg(y)
      BY <1>2, <3>1 DEF Spares
    <3> QED
      BY <1>1, <2>0, <3>2, TamedSame
  <2> QED
    BY <2>1, <2>2, <2>3
<1> QED
  BY <1>1, <1>6, <1>7, <1>13, OInvNext

LEMMA NextOInv ==
    ASSUME FInv0, TInv, OInv, FlowStep, env' = env
    PROVE  OInv'
<1>0. IInv /\ BInv
  BY DEF FInv0
<1>1. CASE Idles \/ AllAnew
  BY <1>0, <1>1, OwesIdles, OwesAllAnew
<1>2. CASE \E h \in Conn : Leaves(h) \/ Congests(h)
  BY <1>0, <1>2, OwesLeaves, OwesCongests
<1>3. CASE \E h \in Conn : Drains(h) \/ Resumes(h)
  BY <1>3, OwesDrains, OwesResumes
<1>4. CASE \E b \in Backend : Attaches(b)
  BY <1>4, OwesAttaches
<1>5. CASE \E f \in Frontend : Enters(f) \/ Serves(f)
  BY <1>5, OwesEnters, OwesServes
<1>6. CASE \E f \in Frontend, b \in Backend : Couples(f, b)
  BY <1>6, OwesCouples
<1> QED
  BY <1>1, <1>2, <1>3, <1>4, <1>5, <1>6 DEF FlowStep
----------------------------------------------------------------------------
(* Who is paused will be told to go on                                      *)

\* With one side slow, h is paused while its peer g waits to be writable, or is owed
\* the notice that g drained.
Resumed(h, g) == OneSlow /\ io[h].paused => (Data(g) /\ "w" \in Reg(g)) \/ Owed(h, taskq)

\* Until f has been told that b is connected, b has nothing to read.
Quiet(f, b) == /\ "sync_connect" \notin env /\ f \in Frontend
               /\ st[f] = "conn_ok" /\ st[b] = "active_ok"
               => Tells(f, taskq) /\ ~Hears(b)

NInv == \A h \in Conn : \A g \in Conn : Peers(h, g) => Resumed(h, g) /\ Quiet(h, g)

LEMMA NInvNext ==
    ASSUME \A h \in Conn : \A g \in Conn : peer'[h] = g => Resumed(h, g)' /\ Quiet(h, g)'
    PROVE  NInv'
BY DEF NInv, Peers

LEMMA OneSlowPlain ==
    /\ OneSlow => Plain
    /\ OneSlow => ~("slow_client" \in env /\ "slow_server" \in env)
    /\ OneSlow => ~("slow_client" \in env /\ "sync_connect" \in env)
BY DEF OneSlow, Plain

\* What the queue of a step still holds.
QueueHolds ==
    \A h \in Conn : /\ Owed(h, taskq) => Owed(h, taskq') \/ (Popping /\ OwedAt(1, h, taskq))
                    /\ Tells(h, taskq) => Tells(h, taskq') \/ (Popping /\ TellsAt(1, h, taskq))

LEMMA QueueHeld ==
    ASSUME IInv, TInv, OInv, Moves, env' = env
    PROVE  QueueHolds
<1>1. OwedFirst /\ OwedLater
  BY DEF OInv
<1>2. \A h \in Conn : /\ Owed(h, taskq) => Owed(h, taskq') \/ (Popping /\ OwedAt(1, h, taskq))
                      /\ Tells(h, taskq) => Tells(h, taskq') \/ (Popping /\ TellsAt(1, h, taskq))
  BY <1>1, MovesOwe
<1> QED
  BY <1>2 DEF QueueHolds

LEMMA ResumedSame ==
    ASSUME NEW x \in Conn, NEW y \in Conn, Resumed(x, y), env' = env,
           io'[x].paused => io[x].paused, io'[y].buf = io[y].buf, Reg(y)' = Reg(y),
           io[x].paused /\ Owed(x, taskq) => Owed(x, taskq')
    PROVE  Resumed(x, y)'
BY DEF Resumed, OneSlow, Data

LEMMA QuietSame ==
    ASSUME NEW x \in Conn, NEW y \in Conn, Quiet(x, y), env' = env,
           st'[x] = st[x], st'[y] = st[y],
           x \in Frontend /\ Tells(x, taskq) => Tells(x, taskq') /\ (Hears(y)' => Hears(y))
    PROVE  Quiet(x, y)'
BY DEF Quiet

\* Who is not paused waits for nobody.
LEMMA ResumedFresh ==
    ASSUME NEW x \in Conn, NEW y \in Conn, ~io'[x].paused
    PROVE  Resumed(x, y)'
BY DEF Resumed

LEMMA HoldsIdles ==
    ASSUME IInv, TInv, OInv, NInv, Idles, env' = env
    PROVE  NInv'
<1>1. QueueHolds
  BY QueueHeld DEF Idles
<1>2. \A x \in Conn : st'[x] = st[x] /\ io'[x] = io[x] /\ Reg(x)' = Reg(x) /\ peer'[x] = peer[x]
  BY DEF Idles, Spares
<1>3. \A f \in Frontend : phase = "tasks" /\ todo = 0 => ~Tells(f, taskq)
  <2>1. taskq \in Seq(Task) /\ Len(taskq) \in Nat
    BY Types
  <2> QED
    BY <2>1 DEF TInv, NoticesApart, Tells
<1>4. \A x \in Conn : io[x].paused /\ Owed(x, taskq) => Owed(x, taskq')
  BY <1>1 DEF QueueHolds, Idles
<1>5. \A x \in Conn : st[x] = "conn_ok" /\ peer[x] # None /\ Tells(x, taskq) => Tells(x, taskq')
  BY <1>1 DEF QueueHolds, Idles
<1>6. ASSUME NEW x \in Conn, NEW y \in Conn, peer'[x] = y PROVE Resumed(x, y)' /\ Quiet(x, y)'
  <2>1. Resumed(x, y) /\ Quiet(x, y) /\ peer[x] # None
    BY <1>2, <1>6, Types DEF NInv, Peers
  <2>2. Resumed(x, y)'
    BY <1>2, <1>4, <2>1, ResumedSame
  <2>3. x \in Frontend /\ Tells(x, taskq) => (Hears(y)' => Hears(y))
    BY <1>3 DEF Idles, Hushed
  <2>4. Quiet(x, y)'
    <3>1. CASE st[x] = "conn_ok"
      BY <1>2, <1>5, <2>1, <2>3, <3>1, QuietSame
    <3>2. CASE st[x] # "conn_ok"
      BY <1>2, <3>2 DEF Quiet
    <3> QED
      BY <3>1, <3>2
  <2> QED
    BY <2>2, <2>4
<1> QED
  BY <1>6, NInvNext

LEMMA HoldsAllAnew ==
    ASSUME AllAnew, IInv
    PROVE  NInv'
<1>1. \A h, g \in Conn : peer'[h] # g
  BY Types DEF AllAnew
<1> QED
  BY <1>1, NInvNext

LEMMA HoldsLeaves ==
    ASSUME IInv, TInv, BInv, OInv, NInv, NEW h \in Conn, Leaves(h), env' = env
    PROVE  NInv'
<1>1. QueueHolds
  BY QueueHeld DEF Leaves
<1>2. /\ peer' = Unlinked(h) /\ st' = [st EXCEPT ![h] = "free"]
      /\ Spares({h}) \/ (peer[h] # None /\ Spares({h, peer[h]}))
      /\ Hushed
      /\ Popping => \A x \in Conn : OwedAt(1, x, taskq) \/ TellsAt(1, x, taskq) => x = h
  BY DEF Leaves, Left
<1>3. \A x \in Conn \ {h} : st'[x] = st[x] /\ peer'[x] = IF x = peer[h] THEN None ELSE peer[x]
  BY <1>2, Types DEF Unlinked
<1>4. ASSUME NEW x \in Conn, NEW y \in Conn, peer'[x] = y PROVE Resumed(x, y)' /\ Quiet(x, y)'
  <2>1. None \notin Conn /\ peer'[h] = None
    BY <1>2, Types DEF Unlinked
  <2>2. x # h /\ peer[x] = y /\ x # peer[h]
    BY <1>3, <1>4, <2>1
  <2>3. y # h /\ y # peer[h]
    BY <2>2, Types DEF IInv, LinkSymmetry
  <2>4. io'[x] = io[x] /\ io'[y] = io[y] /\ Reg(x)' = Reg(x) /\ Reg(y)' = Reg(y)
    BY <1>2, <2>2, <2>3 DEF Spares
  <2>5. /\ Owed(x, taskq) => Owed(x, taskq')
        /\ Tells(x, taskq) => Tells(x, taskq')
        /\ Hears(y)' => Hears(y)
    BY <1>1, <1>2, <2>2 DEF QueueHolds, Leaves, Hushed
  <2>6. Resumed(x, y) /\ Quiet(x, y)
    BY <2>2 DEF NInv, Peers
  <2> QED
    BY <1>3, <2>2, <2>3, <2>4, <2>5, <2>6, ResumedSame, QuietSame
<1> QED
  BY <1>4, NInvNext

LEMMA HoldsCongests ==
    ASSUME FInv0, TInv, OInv, NInv, NEW h \in Conn, Congests(h), env' = env
    PROVE  NInv'
<1>a. IInv /\ BInv /\ peer[h] # None
  BY DEF FInv0, Congests
<1>b. PICK g \in Conn : g = peer[h]
  BY <1>a, Types
<1>0. /\ IInv /\ BInv /\ g \in Conn /\ g # h /\ peer[g] = h /\ peer[h] = g
      /\ g \in Frontend \/ g \in Backend
      /\ io \in [Conn -> IoState] /\ st \in [Conn -> LiveState \cup {"free"}] /\ Steady(g)
  BY <1>a, <1>b, PeerThere, MoreTypes, SteadyAll, Types DEF FInv0, Conn
<1>1. /\ st' = st /\ peer' = peer /\ taskq' = taskq /\ st[h] = "active_ok"
      /\ Hears(h) /\ Feeds(g) /\ Spares({h, g}) /\ Hushed
  BY <1>b DEF Congests
<1>2. /\ Data(g)' /\ (io'[g].paused <=> io[g].paused) /\ CanBeSlow(g)
      /\ st[g] \notin {"free", "new_ok"}
      /\ Reg(g)' = IF Data(g) \/ Reg(g) = {} THEN Reg(g) ELSE Reg(g) \cup {"w"}
  <2>1. Reg(g)' = After(g)
    BY RegNext
  <2>2. io'[g].buf = "data" /\ (io'[g].paused <=> io[g].paused)
    BY <1>0, <1>1 DEF Feeds, IoState
  <2>3. /\ CanBeSlow(g) /\ st[g] \notin {"free", "new_ok"}
        /\ After(g) = IF Data(g) \/ Reg(g) = {} THEN Reg(g) ELSE Reg(g) \cup {"w"}
    BY <1>1 DEF Feeds
  <2> QED
    BY <2>1, <2>2, <2>3 DEF Data
<1>3. Peers(h, g) /\ Peers(g, h) /\ Resumed(h, g) /\ Quiet(g, h) /\ Tamed(g, h)
  BY <1>0 DEF OInv, NInv, Peers
<1>4. OneSlow => ~io[g].paused
  BY <1>0, <1>2, OneSlowPlain DEF Steady, CanBeSlow
<1>5. Resumed(h, g)'
  <2> SUFFICES ASSUME OneSlow PROVE "w" \in Reg(g)' \/ Owed(h, taskq)
    BY <1>1, <1>2 DEF Resumed, OneSlow
  <2>1. CASE Data(g)
    <3>1. io[h].paused
      BY <1>3, <2>1, OneSlowPlain DEF Tamed
    <3> QED
      BY <1>2, <1>3, <2>1, <3>1 DEF Resumed
  <2>2. CASE ~Data(g) /\ Reg(g) # {}
    BY <1>2, <2>2
  <2>3. CASE Reg(g) = {}
    <3>1. st[g] # "active_ok"
      BY <1>0, <1>4, <2>3 DEF Steady
    <3>2. g \in Frontend /\ st[g] = "conn_ok"
      BY <1>0, <1>2, <3>1 DEF BInv, Stages, LiveState
    <3>3. "sync_connect" \notin env
      BY <1>2, <3>2, OneSlowPlain DEF CanBeSlow
    <3> QED
      BY <1>1, <1>3, <3>2, <3>3 DEF Quiet
  <2> QED
    BY <2>1, <2>2, <2>3
<1>6. Resumed(g, h)'
  BY <1>2, <1>4 DEF Resumed, OneSlow
<1>7. ASSUME NEW x \in Conn, NEW y \in Conn, peer'[x] = y PROVE Resumed(x, y)' /\ Quiet(x, y)'
  <2>0. peer[x] = y /\ Resumed(x, y) /\ Quiet(x, y)
    BY <1>1, <1>7 DEF NInv, Peers
  <2>1. Quiet(x, y)'
    BY <1>1, <2>0, QuietSame DEF Hushed
  <2>2. CASE x = h
    BY <1>0, <1>5, <2>0, <2>1, <2>2
  <2>3. CASE y = h
    <3>1. x = g
      BY <1>0, <2>0, <2>3, Types DEF IInv, LinkSymmetry
    <3> QED
      BY <1>6, <2>1, <2>3, <3>1
  <2>4. CASE x # h /\ y # h
    <3>1. x \notin {h, g} /\ y \notin {h, g}
      BY <1>0, <2>0, <2>4, PairsApart
    <3>2. io'[x] = io[x] /\ io'[y] = io[y] /\ Reg(y)' = Reg(y)
      BY <1>1, <3>1 DEF Spares
    <3> QED
      BY <1>1, <2>0, <2>1, <3>2, ResumedSame
  <2> QED
    BY <2>2, <2>3, <2>4
<1> QED
  BY <1>7, NInvNext

LEMMA HoldsDrains ==
    ASSUME FInv0, TInv, OInv, NInv, NEW h \in Conn, Drains(h), env' = env
    PROVE  NInv'
<1>0. IInv /\ BInv /\ io \in [Conn -> IoState]
  BY MoreTypes DEF FInv0
<1>1. /\ UNCHANGED <<st, peer>> /\ Spares({h}) /\ Hushed /\ InEvents(DrainedTask(h))
      /\ io'[h] = [io[h] EXCEPT !.buf = "empty", !.polling = FALSE]
  BY DEF Drains
<1>2. io'[h].paused <=> io[h].paused
  BY <1>0, <1>1 DEF IoState
<1>3. /\ \A x \in Conn : /\ Owed(x, taskq) => Owed(x, taskq')
                         /\ Tells(x, taskq) => Tells(x, taskq')
                         /\ x = peer[h] => Owed(x, taskq')
  BY <1>0, <1>1, DrainedPeer, DrainedQueue DEF OInv
<1>4. ASSUME NEW x \in Conn, NEW y \in Conn, peer'[x] = y PROVE Resumed(x, y)' /\ Quiet(x, y)'
  <2>0. peer[x] = y /\ Resumed(x, y) /\ Quiet(x, y) /\ x # y /\ peer[y] = x
    BY <1>0, <1>1, <1>4, PeerThere, Types DEF NInv, Peers
  <2>1. Quiet(x, y)'
    BY <1>1, <1>3, <2>0, QuietSame DEF Hushed
  <2>2. CASE y = h
    BY <1>3, <2>0, <2>1, <2>2 DEF Resumed
  <2>3. CASE y # h
    <3>1. io'[y] = io[y] /\ Reg(y)' = Reg(y) /\ (io'[x].paused => io[x].paused)
      BY <1>1, <1>2, <2>3 DEF Spares
    <3> QED
      BY <1>3, <2>0, <2>1, <3>1, ResumedSame
  <2> QED
    BY <2>2, <2>3
<1> QED
  BY <1>4, NInvNext

LEMMA HoldsAttaches ==
    ASSUME FInv0, TInv, OInv, NInv, NEW b \in Backend, Attaches(b), env' = env
    PROVE  NInv'
<1>0. /\ IInv /\ BInv /\ b \in Conn /\ b \notin Frontend /\ st \in [Conn -> LiveState \cup {"free"}]
  BY Types, Pairs DEF FInv0
<1>1. QueueHolds
  BY <1>0, QueueHeld DEF Attaches
<1>2. /\ st[b] = "new_ok" /\ st' = [st EXCEPT ![b] = "active_ok"] /\ UNCHANGED <<peer, io>>
      /\ ~Hears(b)' /\ Spares({b}) /\ Hushed /\ ~Popping /\ io[b] = FreshIo
      /\ st[peer[b]] = "conn_ok" => Tells(peer[b], taskq')
  BY <1>0 DEF Attaches, BInv, Fresh, Popping
<1>3. \A x \in Conn : (Owed(x, taskq) => Owed(x, taskq')) /\ (Tells(x, taskq) => Tells(x, taskq'))
  BY <1>1, <1>2 DEF QueueHolds
<1>4. io[b].buf # "data" /\ ~io[b].paused
  BY <1>2 DEF FreshIo
<1>5. ASSUME NEW x \in Conn, NEW y \in Conn, peer'[x] = y PROVE Resumed(x, y)' /\ Quiet(x, y)'
  <2>0. peer[x] = y /\ Resumed(x, y) /\ Quiet(x, y) /\ x # y /\ peer[y] = x
    BY <1>0, <1>2, <1>5, PeerThere, Types DEF NInv, Peers
  <2>1. CASE x = b
    <3>1. Resumed(x, y)'
      BY <1>2, <1>4, <2>1, ResumedFresh
    <3>2. Quiet(x, y)'
      BY <1>0, <2>1 DEF Quiet
    <3> QED
      BY <3>1, <3>2
  <2>2. CASE y = b
    <3>1. Resumed(x, y)'
      BY <1>2, <1>3, <1>4, <2>0, <2>2 DEF Resumed, OneSlow, Data
    <3>2. st'[x] = st[x] /\ (st[x] = "conn_ok" => Tells(x, taskq'))
      BY <1>0, <1>2, <2>0, <2>2
    <3>3. Quiet(x, y)'
      BY <1>2, <2>2, <3>2 DEF Quiet
    <3> QED
      BY <3>1, <3>3
  <2>3. CASE x # b /\ y # b
    <3>1. io'[x] = io[x] /\ io'[y] = io[y] /\ Reg(y)' = Reg(y) /\ st'[x] = st[x] /\ st'[y] = st[y]
      BY <1>0, <1>2, <2>3 DEF Spares
    <3> QED
      BY <1>2, <1>3, <2>0, <3>1, ResumedSame, QuietSame DEF Hushed
  <2> QED
    BY <2>1, <2>2, <2>3
<1> QED
  BY <1>5, NInvNext

LEMMA HoldsCouples ==
    ASSUME FInv0, TInv, OInv, NInv, NEW f \in Frontend, NEW b \in Backend, Couples(f, b), env' = env
    PROVE  NInv'
<1>0. /\ IInv /\ BInv /\ b \in Conn /\ f \in Conn /\ st \in [Conn -> LiveState \cup {"free"}]
      /\ b \notin Frontend /\ f \notin Backend /\ f # None /\ b # None
  BY Types, Pairs DEF FInv0
<1>1. QueueHolds
  BY <1>0, QueueHeld DEF Couples
<1>2. PICK s \in {"new_ok", "active_ok"} : st' = [st EXCEPT ![f] = "conn_ok", ![b] = s]
  BY DEF Couples
<1>3. /\ st[b] = "free" /\ st[f] \in {"free", "conn_ok"} /\ (st[f] = "free" \/ req[f] = "no")
      /\ peer' = [peer EXCEPT ![f] = b, ![b] = f] /\ io' = io
      /\ st'[b] = "active_ok" => "sync_connect" \in env
      /\ Spares({f, b}) /\ (\A x \in Conn \ {f, b} : Hears(x)' => Hears(x)) /\ ~Popping
  BY DEF Couples, Popping
<1>4. ~io[f].paused /\ ~io[b].paused
  <2>1. io[f] = FreshIo /\ io[b] = FreshIo
    BY <1>0, <1>3 DEF BInv, Fresh
  <2> QED
    BY <2>1 DEF FreshIo
<1>5. peer[f] = None /\ peer[b] = None
  <2>1. ~Live(b) /\ (st[f] = "free" => ~Live(f))
    BY <1>3 DEF Live, LiveState
  <2>2. peer[b] = None /\ (~Live(f) => peer[f] = None)
    BY <1>0, <2>1 DEF IInv, LinkSymmetry
  <2> QED
    BY <1>0, <1>3, <2>1, <2>2 DEF IInv, NoAppNoBackend
<1>6. \A x \in Conn : (Owed(x, taskq) => Owed(x, taskq')) /\ (Tells(x, taskq) => Tells(x, taskq'))
  BY <1>1, <1>3 DEF QueueHolds
<1>7. ASSUME NEW x \in Conn, NEW y \in Conn, peer'[x] = y PROVE Resumed(x, y)' /\ Quiet(x, y)'
  <2>1. CASE x = f
    <3>1. y = b /\ Resumed(x, y)'
      BY <1>0, <1>3, <1>4, <1>7, <2>1, ResumedFresh, Types
    <3>2. Quiet(x, y)'
      BY <1>3, <3>1 DEF Quiet
    <3> QED
      BY <3>1, <3>2
  <2>2. CASE x = b
    <3>1. Resumed(x, y)'
      BY <1>3, <1>4, <2>2, ResumedFresh
    <3>2. Quiet(x, y)'
      BY <1>0, <2>2 DEF Quiet
    <3> QED
      BY <3>1, <3>2
  <2>3. CASE x \notin {f, b}
    <3>1. peer[x] = y
      BY <1>0, <1>3, <1>7, <2>3, Types
    <3>2. y \notin {f, b} /\ Resumed(x, y) /\ Quiet(x, y)
      BY <1>0, <1>5, <2>3, <3>1, Types DEF IInv, LinkSymmetry, NInv, Peers
    <3>3. io'[x] = io[x] /\ io'[y] = io[y] /\ Reg(y)' = Reg(y) /\ st'[x] = st[x] /\ st'[y] = st[y]
      BY <1>0, <1>2, <1>3, <2>3, <3>2 DEF Spares
    <3> QED
      BY <1>3, <1>6, <3>2, <3>3, ResumedSame, QuietSame
  <2> QED
    BY <2>1, <2>2, <2>3
<1> QED
  BY <1>7, NInvNext

LEMMA HoldsEnters ==
    ASSUME FInv0, TInv, OInv, NInv, NEW f \in Frontend, Enters(f), env' = env
    PROVE  NInv'
<1>0. IInv /\ f \in Conn /\ st \in [Conn -> LiveState \cup {"free"}]
  BY Types DEF FInv0
<1>1. QueueHolds
  BY <1>0, QueueHeld DEF Enters
<1>2. /\ st[f] = "free" /\ st' = [st EXCEPT ![f] = "conn_ok"] /\ UNCHANGED <<peer, io>>
      /\ Spares({f}) /\ (\A x \in Conn \ {f} : Hears(x)' => Hears(x)) /\ ~Popping
  BY DEF Enters, Popping
<1>3. peer[f] = None
  <2>1. ~Live(f)
    BY <1>2 DEF Live, LiveState
  <2> QED
    BY <1>0, <2>1 DEF IInv, LinkSymmetry
<1>4. \A x \in Conn : (Owed(x, taskq) => Owed(x, taskq')) /\ (Tells(x, taskq) => Tells(x, taskq'))
  BY <1>1, <1>2 DEF QueueHolds
<1>5. ASSUME NEW x \in Conn, NEW y \in Conn, peer'[x] = y PROVE Resumed(x, y)' /\ Quiet(x, y)'
  <2>1. peer[x] = y /\ x # f /\ y # f /\ Resumed(x, y) /\ Quiet(x, y)
    BY <1>0, <1>2, <1>3, <1>5, Types DEF IInv, LinkSymmetry, NInv, Peers
  <2>2. io'[x] = io[x] /\ io'[y] = io[y] /\ Reg(y)' = Reg(y) /\ st'[x] = st[x] /\ st'[y] = st[y]
    BY <1>0, <1>2, <2>1 DEF Spares
  <2> QED
    BY <1>2, <1>4, <2>1, <2>2, ResumedSame, QuietSame
<1> QED
  BY <1>5, NInvNext

LEMMA HoldsResumes ==
    ASSUME FInv0, TInv, OInv, NInv, NEW h \in Conn, Resumes(h), env' = env
    PROVE  NInv'
<1>0. IInv /\ PInv /\ UInv /\ BInv /\ io \in [Conn -> IoState]
  BY MoreTypes DEF FInv0
<1>1. QueueHolds
  BY <1>0, QueueHeld DEF Resumes
<1>2. /\ UNCHANGED <<st, peer>> /\ Reg(h) = {} /\ io'[h] = [io[h] EXCEPT !.paused = FALSE]
      /\ Spares({h}) /\ Hushed /\ OwedAt(1, h, taskq)
  BY DEF Resumes
<1>3. ~io'[h].paused
  BY <1>0, <1>2 DEF IoState
<1>4. \A x \in Conn : /\ ~TellsAt(1, x, taskq)
                      /\ OwedAt(1, x, taskq) => x = h
  BY <1>2 DEF OwedAt, TellsAt, Drained
<1>5. \A x \in Conn : /\ x # h /\ Owed(x, taskq) => Owed(x, taskq')
                      /\ Tells(x, taskq) => Tells(x, taskq')
  BY <1>1, <1>4 DEF QueueHolds
<1>6. ASSUME NEW x \in Conn, NEW y \in Conn, peer'[x] = y PROVE Resumed(x, y)' /\ Quiet(x, y)'
  <2>0. peer[x] = y /\ Resumed(x, y) /\ Quiet(x, y) /\ x # y
    BY <1>0, <1>2, <1>6, PeerThere, Types DEF NInv, Peers
  <2>1. Quiet(x, y)'
    BY <1>2, <1>5, <2>0, QuietSame DEF Hushed
  <2>2. CASE x = h
    BY <1>3, <2>1, <2>2, ResumedFresh
  <2>3. CASE y = h
    <3>1. io'[x] = io[x]
      BY <1>2, <2>0, <2>3 DEF Spares
    <3> QED
      BY <1>2, <1>5, <2>0, <2>1, <2>3, <3>1 DEF Resumed, OneSlow
  <2>4. CASE x # h /\ y # h
    <3>1. io'[x] = io[x] /\ io'[y] = io[y] /\ Reg(y)' = Reg(y)
      BY <1>2, <2>4 DEF Spares
    <3> QED
      BY <1>5, <2>0, <2>1, <2>4, <3>1, ResumedSame
  <2> QED
    BY <2>2, <2>3, <2>4
<1> QED
  BY <1>6, NInvNext

\* A frontend that waits for its backend is not registered.
LEMMA WaitsUnregistered ==
    ASSUME FInv0, NEW f \in Frontend, st[f] = "conn_ok", req[f] # "no", fd[f] # None
    PROVE  Reg(f) = {}
<1>1. /\ IInv /\ PInv /\ UInv /\ Tidy /\ f \in Conn /\ fd[f] \in Fd /\ pd \in [Fd -> PdState]
  BY MoreTypes, Types DEF FInv0, BInv
<1>2. pd[fd[f]].eh # f
  BY <1>1 DEF UInv, WaitsUnpolled, Unpolled
<1>3. pd[fd[f]].eh = None
  <2> SUFFICES ASSUME pd[fd[f]].eh # None PROVE FALSE
    OBVIOUS
  <2>1. fd[pd[fd[f]].eh] = fd[f] /\ pd[fd[f]].eh \in Conn
    BY <1>1 DEF PInv, PollerOwnsLive, Registered, PdState
  <2> QED
    BY <1>1, <1>2, <2>1 DEF PInv, FdsApart
<1> QED
  BY <1>1, <1>3 DEF Tidy, TidyTable, Reg, RegIn

LEMMA HoldsServes ==
    ASSUME FInv0, TInv, OInv, NInv, NEW f \in Frontend, Serves(f), env' = env
    PROVE  NInv'
<1>a. IInv /\ BInv /\ UInv /\ peer[f] # None /\ f \in Conn /\ f \notin Backend
  BY Types, Pairs DEF FInv0, Serves
<1>b. PICK b \in Conn : b = peer[f]
  BY <1>a, Types
<1>0. /\ IInv /\ BInv /\ b \in Conn /\ b # f /\ peer[b] = f /\ peer[f] = b /\ b \in Backend
      /\ b \notin Frontend /\ fd[f] # None /\ req[f] # "no" /\ Live(f) /\ Steady(b)
      /\ io \in [Conn -> IoState] /\ st \in [Conn -> LiveState \cup {"free"}]
  BY <1>a, <1>b, PeerThere, MoreTypes, Types, Pairs, SteadyAll DEF FInv0
<1>1. QueueHolds
  BY <1>0, QueueHeld DEF Serves
<1>2. /\ st' = [st EXCEPT ![f] = "active_ok"] /\ peer' = peer
      /\ \/ io'[f] = io[f] /\ Spares({f})
         \/ /\ io'[f] = [io[f] EXCEPT !.paused = TRUE]
            /\ Feeds(b) /\ Spares({f, b})
      /\ Hushed /\ TellsAt(1, f, taskq)
  BY <1>b DEF Serves
<1>3. st[f] = "conn_ok" /\ ~io[f].paused
  BY <1>0, <1>2, <1>a, ToldIsNew DEF UInv, PausedActive, BInv, Stages, Live, LiveState
<1>4. Reg(f) = {}
  BY <1>0, <1>3, WaitsUnregistered
<1>5. \A x \in Conn : /\ Owed(x, taskq) => Owed(x, taskq')
                      /\ x # f /\ Tells(x, taskq) => Tells(x, taskq')
  <2>1. \A x \in Conn : ~OwedAt(1, x, taskq) /\ (TellsAt(1, x, taskq) => x = f)
    BY <1>2 DEF OwedAt, TellsAt, Drained
  <2> QED
    BY <1>1, <2>1 DEF QueueHolds
<1>6. Peers(f, b) /\ Peers(b, f) /\ Resumed(b, f) /\ Tamed(b, f)
  BY <1>0, <1>a DEF OInv, NInv, Peers
<1>7. Resumed(f, b)'
  <2>1. CASE io'[f] = io[f]
    BY <1>3, <1>a, <2>1, <1>0, ResumedFresh
  <2>2. CASE Feeds(b)
    <3>1. Reg(b)' = After(b)
      BY RegNext
    <3>2. /\ CanBeSlow(b) /\ st[b] \notin {"free", "new_ok"} /\ io'[b].buf = "data"
          /\ Reg(b)' = IF Data(b) \/ Reg(b) = {} THEN Reg(b) ELSE Reg(b) \cup {"w"}
      BY <1>0, <2>2, <3>1 DEF Feeds, IoState
    <3> SUFFICES ASSUME OneSlow PROVE "w" \in Reg(b)'
      BY <3>2 DEF Resumed, OneSlow, Data
    <3>3. ~Data(b)
      BY <1>3, <1>6, OneSlowPlain DEF Tamed
    <3>4. Reg(b) # {}
      <4>1. st[b] = "active_ok"
        BY <1>0, <3>2 DEF BInv, Stages, LiveState
      <4>2. ~io[b].paused
        BY <1>0, <3>2, OneSlowPlain DEF Steady, CanBeSlow
      <4> QED
        BY <1>0, <4>1, <4>2 DEF Steady
    <3> QED
      BY <3>2, <3>3, <3>4
  <2> QED
    BY <1>2, <2>1, <2>2
<1>8. Resumed(b, f)'
  <2>1. io'[b].paused <=> io[b].paused
    <3>1. CASE io'[b] = io[b]
      BY <3>1
    <3>2. CASE Feeds(b)
      BY <1>0, <3>2 DEF Feeds, IoState
    <3> QED
      BY <1>0, <1>2, <3>1, <3>2 DEF Spares
  <2> QED
    BY <1>0, <1>4, <1>5, <1>6, <2>1 DEF Resumed, OneSlow
<1>9. Quiet(f, b)' /\ Quiet(b, f)'
  <2>1. st'[f] = "active_ok"
    BY <1>0, <1>2, <1>a
  <2> QED
    BY <1>0, <2>1 DEF Quiet
<1>10. ASSUME NEW x \in Conn, NEW y \in Conn, peer'[x] = y PROVE Resumed(x, y)' /\ Quiet(x, y)'
  <2>0. peer[x] = y /\ Resumed(x, y) /\ Quiet(x, y)
    BY <1>2, <1>10 DEF NInv, Peers
  <2>1. CASE x = f
    BY <1>0, <1>7, <1>9, <2>0, <2>1
  <2>2. CASE y = f
    <3>1. x = b
      BY <1>0, <2>0, <2>2, Types DEF IInv, LinkSymmetry
    <3> QED
      BY <1>8, <1>9, <2>2, <3>1
  <2>3. CASE x # f /\ y # f
    <3>1. x \notin {f, b} /\ y \notin {f, b}
      BY <1>0, <1>a, <2>0, <2>3, PairsApart
    <3>2. io'[x] = io[x] /\ io'[y] = io[y] /\ Reg(y)' = Reg(y) /\ st'[x] = st[x] /\ st'[y] = st[y]
      BY <1>0, <1>2, <3>1 DEF Spares
    <3> QED
      BY <1>2, <1>5, <2>0, <3>1, <3>2, ResumedSame, QuietSame DEF Hushed
  <2> QED
    BY <2>1, <2>2, <2>3
<1> QED
  BY <1>10, NInvNext

LEMMA NextNInv ==
    ASSUME FInv0, TInv, OInv, NInv, FlowStep, env' = env
    PROVE  NInv'
<1>0. IInv /\ BInv
  BY DEF FInv0
<1>1. CASE Idles \/ AllAnew
  BY <1>0, <1>1, HoldsIdles, HoldsAllAnew
<1>2. CASE \E h \in Conn : Leaves(h) \/ Congests(h)
  BY <1>0, <1>2, HoldsLeaves, HoldsCongests
<1>3. CASE \E h \in Conn : Drains(h) \/ Resumes(h)
  BY <1>3, HoldsDrains, HoldsResumes
<1>4. CASE \E b \in Backend : Attaches(b)
  BY <1>4, HoldsAttaches
<1>5. CASE \E f \in Frontend : Enters(f) \/ Serves(f)
  BY <1>5, HoldsEnters, HoldsServes
<1>6. CASE \E f \in Frontend, b \in Backend : Couples(f, b)
  BY <1>6, HoldsCouples
<1> QED
  BY <1>1, <1>2, <1>3, <1>4, <1>5, <1>6 DEF FlowStep

----------------------------------------------------------------------------
(* Theorems on congestion                                                   *)

\* The inductive invariant of congestion, on top of SInv and RInv.
MInv == BInv /\ GInv /\ OInv /\ NInv

LEMMA NextMInv ==
    ASSUME SInv, RInv, MInv, [Next]_vars
    PROVE  MInv'
<1>1. FInv0 /\ TInv /\ OInv /\ NInv
  BY DEF SInv, RInv, MInv, FInv0
<1>2. FlowStep /\ Tidy' /\ env' = env
  BY <1>1, NextFlow, EnvFixed
<1>3. BInv' /\ GInv' /\ OInv' /\ NInv'
  BY <1>1, <1>2, NextBInv, NextGInv, NextOInv, NextNInv
<1> QED
  BY <1>3 DEF MInv

LEMMA MInvStarts == Init => MInv
<1> SUFFICES ASSUME Init PROVE MInv
  OBVIOUS
<1>1. /\ \A h \in Conn : /\ st[h] = "free" /\ peer[h] = None /\ fd[h] = None /\ io[h] = FreshIo
                         /\ Reg(h) = {} /\ ~Hears(h)
      /\ \A n \in Fd : pd[n] = NoPd
      /\ taskq = <<>> /\ ready = {} /\ cur = None
  BY DEF Init, Reg, RegIn, Hears
<1>2. \A f \in Frontend : f \in Conn
  BY DEF Conn
<1>3. \A b \in Backend : b \in Conn
  BY DEF Conn
<1>4. BInv
  <2>1. Stages /\ LiveHasFd /\ HostApps
    BY <1>1, <1>2, <1>3 DEF Stages, LiveHasFd, HostApps, Live, LiveState
  <2>2. Fresh /\ BatchApart
    BY <1>1 DEF Fresh, BatchApart
  <2>3. Tidy
    BY <1>1 DEF Tidy, TidyTable, NoPd
  <2> QED
    BY <2>1, <2>2, <2>3 DEF BInv
<1>5. \A h \in Conn : ~io[h].paused /\ ~io[h].polling /\ io[h].buf # "data"
  BY <1>1 DEF FreshIo
<1>6. GInv
  BY <1>1, <1>5, SteadyAll DEF Steady, Data
<1>7. \A i, h : ~OwedAt(i, h, taskq)
  BY <1>1 DEF OwedAt
<1>8. OInv
  <2>1. OwedFirst /\ OwedLater
    BY <1>7 DEF OwedFirst, OwedLater
  <2>2. \A h \in Conn : Awaits(h)
    BY <1>7 DEF Awaits, Owed
  <2>3. \A h \in Conn : \A g \in Conn : ~Peers(h, g)
    BY <1>1, ConstantsAssumption DEF Peers
  <2> QED
    BY <2>1, <2>2, <2>3 DEF OInv
<1>9. NInv
  BY <1>1, ConstantsAssumption DEF NInv, Peers
<1> QED
  BY <1>4, <1>6, <1>8, <1>9 DEF MInv

LEMMA MInvariance == Spec => [](SInv /\ RInv /\ MInv)
<1>1. SInv /\ RInv /\ MInv /\ [Next]_vars => MInv'
  BY NextMInv
<1> QED
  BY <1>1, MInvStarts, RInvariance, PTL DEF Spec

\* Flow control holds: while a handler has data that its socket does not take, its peer is
\* paused and is not registered for reading (pause_recv of both classes), the frontend of a
\* request that was saved aside, whatever is closed, reused or told late meanwhile.
THEOREM SlowSideIsNotFed == Spec => []Backpressure
<1>1. ASSUME IInv, MInv PROVE Backpressure
  <2>0. BInv /\ GInv /\ OInv
    BY <1>1 DEF MInv
  <2> SUFFICES ASSUME Plain, NEW h \in Conn, io[h].buf = "data", peer[h] # None,
                      NEW g \in Conn, g = peer[h]
               PROVE  /\ io[g].paused
                      /\ "r" \in pd[fd[g]].ev => g \in Frontend /\ "host_port" \in env
    BY <1>1, Types DEF Backpressure, Plain
  <2>1. io[g].paused
    BY <2>0 DEF OInv, Peers, Tamed, Data
  <2>2. Reg(g) = pd[fd[g]].ev
    BY <1>1, <2>0, PeerThere DEF Reg, RegIn
  <2> QED
    BY <2>0, <2>1, <2>2 DEF GInv, PausedDeaf
<1> QED
  BY <1>1, MInvariance, PTL DEF SInv

\* With congestion on one side no handler stays paused for good: its peer is polled for
\* writing and will report that it drained, or the task that does is queued and on_..._
\* send_buffer_drained resumes it.
THEOREM PausedIsResumed == Spec => []PausedCanResume
<1>1. ASSUME IInv, MInv PROVE PausedCanResume
  <2>0. BInv /\ NInv
    BY <1>1 DEF MInv
  <2> SUFFICES ASSUME OneSlow, NEW h \in Conn, io[h].paused, peer[h] # None,
                      NEW g \in Conn, g = peer[h]
               PROVE  \/ io[g].buf = "data" /\ "w" \in pd[fd[g]].ev
                      \/ \E i \in 1..Len(taskq) : taskq[i].p = h /\ taskq[i].type \in Drained
    BY <1>1, Types DEF PausedCanResume, OneSlow, Drained
  <2>1. (Data(g) /\ "w" \in Reg(g)) \/ Owed(h, taskq)
    BY <2>0 DEF NInv, Peers, Resumed
  <2>2. Reg(g) = pd[fd[g]].ev
    BY <1>1, <2>0, PeerThere DEF Reg, RegIn
  <2> QED
    BY <2>1, <2>2 DEF Data, Owed, OwedAt
<1> QED
  BY <1>1, MInvariance, PTL DEF SInv

\* A handler that is told that its peer drained reads on and is not closed, as long as
\* epoll_ctl can add and ports have one app: its descriptor is never registered when
\* on_frontend_send_buffer_drained or on_backend_send_buffer_drained adds it.
THEOREM ResumedGoesOn == Spec => ResumeContinues
<1>1. ASSUME IInv, MInv, {"epoll_full", "host_port"} \cap env = {},
             NEW h \in Conn, TaskDrained(h)
      PROVE  st'[h] = st[h]
  <2>0. Tidy /\ OInv
    BY <1>1 DEF MInv, BInv
  <2>1. Popping /\ Head(taskq).p = h /\ Head(taskq).type \in Drained /\ Live(h)
    BY <1>1 DEF TaskDrained, RunsTask, Popping, Drained
  <2>2. Owed(h, taskq)
    <3>1. taskq \in Seq(Task) /\ taskq # <<>>
      BY <1>1, <2>1, TailTasks DEF Popping
    <3>2. Head(taskq) = taskq[1] /\ 1 \in 1..Len(taskq)
      BY <3>1
    <3> QED
      BY <2>1, <3>2 DEF Owed, OwedAt
  <2>3. io[h].paused => Reg(h) = {}
    BY <1>1, <2>0, <2>1, <2>2 DEF OInv, Awaits
  <2>4. fd[h] \in Fd
    BY <1>1, <2>1, MoreTypes DEF MInv, BInv, LiveHasFd
  <2>5. io[h].paused => ~MayFailAdd(pd, fd[h])
    <3>1. fd[h] # None /\ Reg(h) = pd[fd[h]].ev
      BY <2>4, ConstantsAssumption DEF Reg, RegIn
    <3> QED
      BY <1>1, <2>0, <2>3, <2>4, <3>1 DEF Tidy, TidyTable, MayFailAdd
  <2> QED
    BY <1>1, <2>5 DEF TaskDrained, DropTask, handlers
<1>2. IInv /\ MInv => ({"epoll_full", "host_port"} \cap env = {} =>
          \A h \in Conn : TaskDrained(h) => st'[h] = st[h])
  BY <1>1
<1> QED
  BY <1>2, MInvariance, PTL DEF SInv, ResumeContinues
=============================================================================
