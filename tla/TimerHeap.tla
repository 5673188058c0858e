----------------------------- MODULE TimerHeap -----------------------------
(***************************************************************************)
(* The timers of a worker (timer_qheap.cpp): a heap with four children per *)
(* node, in a vector, and one timerfd armed for its first item.  A timer   *)
(* that is cancelled stays in the heap with no handler and expire_at 1.    *)
(* Times are relative to the clock: Tick brings every one of them nearer.  *)
(***************************************************************************)
EXTENDS Integers, Sequences

CONSTANTS Handler,      \* each has at most one timer
          Periodic,     \* those scheduled with an interval; on_timeout returns true
          None,         \* nullptr
          Delay,        \* delays of schedule, and the interval of the periodic ones
          MaxItems,     \* bound: items in the heap
          MaxLate,      \* bound: an item overdue by more counts as overdue by MaxLate
          Events        \* what may happen in this instance

\* cancel: handlers cancel their timers (a connect that succeeds before its timeout).
\* nested: an on_timeout schedules a timer (a health check connects).
EventCases == {"cancel", "nested"}

ASSUME TimerHeapAssumption ==
    /\ None \notin Handler /\ Periodic \subseteq Handler
    /\ Delay \subseteq Nat \ {0} /\ MaxItems \in Nat /\ MaxLate \in Nat
    /\ Events \subseteq EventCases

VARIABLES heap,         \* qheap: a sequence of timer_items
          settime,      \* timerfd_settime
          armed,        \* the timerfd: time until it is readable, 0 when it is
          expiring,     \* handle_expired is running
          intact        \* history: no cancel since the heap was last empty

vars == <<heap, settime, armed, expiring, intact>>

Off       == -1                 \* the timerfd is not armed
Gone      == -(MaxLate + 1)     \* a time before every one that an item can have
Cancelled == -(MaxLate + 2)     \* expire_at = 1

Item(h, at) == [eh |-> h, at |-> at]

Live     == {i \in DOMAIN heap : heap[i].eh # None}
Waits(h) == \E i \in Live : heap[i].eh = h

----------------------------------------------------------------------------
(* The heap, on sequences                                                  *)

Parent(i)      == (i + 2) \div 4
Children(h, i) == {c \in (4 * i - 2)..(4 * i + 1) : c <= Len(h)}

\* (mutant) the first child is not compared with the others
FirstChild(h, i) == CHOOSE c \in Children(h, i) : \A d \in Children(h, i) : c <= d

\* the first of the children that expire first
MinChild(h, i) ==
    CHOOSE c \in Children(h, i) :
        \A d \in Children(h, i) : h[c].at < h[d].at \/ (h[c].at = h[d].at /\ c <= d)

\* nodes from i up to the root
Above(i) ==
    LET up[k \in 1..i] == IF k = 1 THEN {1} ELSE {k} \cup up[Parent(k)]
    IN up[i]

\* shift_up of the last item: it stops under the first ancestor that is not later
ShiftUp(h) ==
    LET item == h[Len(h)]
        stop[k \in 1..Len(h)] ==
            IF k = 1 \/ item.at >= h[Parent(k)].at THEN k ELSE stop[Parent(k)]
        to   == stop[Len(h)]
        path == Above(Len(h)) \ Above(to)
    IN [k \in DOMAIN h |-> IF k = to THEN item ELSE IF k \in path THEN h[Parent(k)] ELSE h[k]]

\* shift_down of the first item: it stops above children that are not earlier
ShiftDown(h) ==
    LET item == h[1]
        Stops(k) == Children(h, k) = {} \/ h[MinChild(h, k)].at >= item.at
        stop[d \in 0..Len(h)] ==            \* where it is after d levels
            IF d = 0 THEN 1
            ELSE IF Stops(stop[d - 1]) THEN stop[d - 1] ELSE MinChild(h, stop[d - 1])
        to   == stop[Len(h)]
        path == Above(to) \ {to}
    IN [k \in DOMAIN h |-> IF k = to THEN item
                           ELSE IF k \in path THEN h[MinChild(h, k)] ELSE h[k]]

Insert(h, item) == ShiftUp(Append(h, item))

\* (mutant) pop_min does not take the last item from the end
PoppedKeepsLast(h) == ShiftDown([h EXCEPT ![1] = h[Len(h)]])

\* what pop_min leaves
Popped(h) == IF Len(h) = 1 THEN <<>>
             ELSE ShiftDown(SubSeq([h EXCEPT ![1] = h[Len(h)]], 1, Len(h) - 1))

----------------------------------------------------------------------------
(* The timerfd                                                             *)

\* (mutant) the delay is used as it is
AdjustTimerfdRaw(delay) == armed' = delay

\* adjust_timerfd: a delay below 1 is the shortest one; a cancelled item's is so
\* far in the past that timerfd_settime refuses it.
AdjustTimerfd(delay) ==
    armed' = IF delay = Cancelled THEN armed ELSE IF delay < 1 THEN 0 ELSE delay

\* (mutant) the timerfd is armed for the new item if it is alone
ScheduleFirstOnly(h, delay) ==
    /\ heap' = Insert(heap, Item(h, delay))
    /\ IF Len(heap') = 1
       THEN AdjustTimerfd(heap'[1].at) /\ settime' = heap'[1].at
       ELSE UNCHANGED <<armed, settime>>

Schedule(h, delay) ==
    /\ heap' = Insert(heap, Item(h, delay))
    /\ IF heap'[1].at # settime
       THEN AdjustTimerfd(heap'[1].at) /\ settime' = heap'[1].at
       ELSE UNCHANGED <<armed, settime>>

----------------------------------------------------------------------------

Init == heap = <<>> /\ settime = Gone /\ armed = Off /\ expiring = FALSE
        /\ intact = TRUE

Tick ==
    /\ ~expiring
    /\ heap'    = [i \in DOMAIN heap |->
                      IF heap[i].at > -MaxLate THEN [heap[i] EXCEPT !.at = @ - 1] ELSE heap[i]]
    /\ settime' = IF settime > Gone THEN settime - 1 ELSE settime
    /\ armed'   = IF armed > 0 THEN armed - 1 ELSE armed
    /\ UNCHANGED <<expiring, intact>>

\* A handler of an I/O event schedules its timer
Start(h) ==
    /\ ~expiring /\ ~Waits(h) /\ Len(heap) < MaxItems
    /\ \E delay \in Delay : Schedule(h, delay)
    /\ UNCHANGED <<expiring, intact>>

\* cancel: the item is left where it is
Cancel(h) ==
    /\ "cancel" \in Events
    /\ ~expiring /\ h \notin Periodic
    /\ \E i \in Live : heap[i].eh = h /\ heap' = [heap EXCEPT ![i] = Item(None, Cancelled)]
    /\ intact' = FALSE
    /\ UNCHANGED <<settime, armed, expiring>>

\* on_read: the timerfd was readable, handle_expired begins
OnRead ==
    /\ ~expiring /\ armed = 0
    /\ armed' = Off /\ expiring' = TRUE
    /\ UNCHANGED <<heap, settime, intact>>

Due == expiring /\ heap # <<>> /\ heap[1].at <= 0

DropCancelled ==
    /\ Due /\ heap[1].eh = None
    /\ heap' = Popped(heap)
    /\ intact' = (intact \/ heap' = <<>>)
    /\ UNCHANGED <<settime, armed, expiring>>

\* on_timeout of the first item, which may schedule one timer more; a periodic item
\* is inserted again
Expire ==
    /\ Due /\ heap[1].eh # None
    /\ LET eh      == heap[1].eh
           Back(h) == IF eh \in Periodic THEN {Insert(h, Item(eh, d)) : d \in Delay} ELSE {h}
       IN \/ heap' \in Back(Popped(heap)) /\ UNCHANGED <<settime, armed>>
          \/ \E new \in Handler, delay \in Delay :
               LET nested == Insert(Popped(heap), Item(new, delay)) IN
               /\ "nested" \in Events
               /\ new # eh /\ ~Waits(new) /\ Len(heap) < MaxItems
               /\ IF nested[1].at # settime
                  THEN AdjustTimerfd(nested[1].at) /\ settime' = nested[1].at
                  ELSE UNCHANGED <<armed, settime>>
               /\ heap' \in Back(nested)
    /\ intact' = (intact \/ heap' = <<>>)
    /\ UNCHANGED expiring

\* (mutant) the timerfd is left as it is
EndExpiredSilent ==
    /\ expiring /\ ~Due
    /\ expiring' = FALSE
    /\ UNCHANGED <<heap, settime, armed, intact>>

\* nothing more is due: the timerfd is armed for what is left; timerfd_settime is not
\* brought up to date
EndExpired ==
    /\ expiring /\ ~Due
    /\ IF heap = <<>> THEN UNCHANGED armed ELSE AdjustTimerfd(heap[1].at)
    /\ expiring' = FALSE
    /\ UNCHANGED <<heap, settime, intact>>

HandleExpired == OnRead \/ DropCancelled \/ Expire \/ EndExpired

Next ==
    \/ Tick \/ HandleExpired
    \/ \E h \in Handler : Start(h) \/ Cancel(h)

Spec == Init /\ [][Next]_vars

----------------------------------------------------------------------------
(* Properties                                                              *)

\* Every variable has its type.
TypeOK ==
    LET times == UNION {-(MaxLate + 2)..d : d \in Delay \cup {0}} IN
    /\ DOMAIN heap = 1..Len(heap) /\ Len(heap) <= MaxItems
    /\ \A i \in DOMAIN heap : heap[i] \in [eh : Handler \cup {None}, at : times]
    /\ settime \in times /\ armed \in {Off} \cup (times \cap Nat) /\ expiring \in BOOLEAN
    /\ intact \in BOOLEAN

\* A handler never has two items, whatever is shifted, cancelled or inserted again.
OneItemEach == \A i, j \in Live : heap[i].eh = heap[j].eh => i = j

\* "Quad heap implements" (timer_qheap.h:12): no live timer is earlier than the item
\* that pop_min takes for the minimum, unless a timer was cancelled: its item keeps
\* its place with another key, and items stop above or below it that should pass it.
MinIsFirst == intact => \A i \in Live : heap[1].at <= heap[i].at

\* The worker wakes up in time for every live timer: the timerfd is armed for the
\* earliest of them or before, although timerfd_settime is stale after on_read.
ArmedInTime ==
    intact /\ ~expiring =>
        \A i \in Live : armed # Off /\ (armed <= heap[i].at \/ armed = 0)

\* However the heap is shuffled by cancellations, the worker is never left without an
\* armed timerfd while a timer waits.
NeverDead == ~expiring /\ Live # {} => armed # Off

============================================================================
