-------------------------- MODULE TimerHeap_proofs --------------------------
(***************************************************************************)
(* What TimerHeap keeps, for every number of handlers, of items and every  *)
(* set of delays.  First, for sequences of any length: where shift_up and  *)
(* shift_down stop, that what they leave holds the items it was given,     *)
(* each once, and that they restore the order of the heap when one item of *)
(* it is out of place (InsertIs, PoppedIs).  Then the invariant HInv: the  *)
(* heap is in order as long as nothing was cancelled, and timerfd_settime, *)
(* which handle_expired leaves stale, is never taken for the time of an    *)
(* item for which the timerfd is not armed.                                *)
(***************************************************************************)
EXTENDS TimerHeap, SequenceTheorems, FiniteSetTheorems, WellFoundedInduction, TLAPS

----------------------------------------------------------------------------
(* Positions of the heap                                                   *)

\* The least of a set of numbers.
LEMMA LeastOf ==
    ASSUME NEW B \in SUBSET Nat, B # {}
    PROVE  \E m \in B : \A k \in B : m <= k
<1>1. PICK m \in B : \A k \in B : <<k, m>> \notin OpToRel(<, Nat)
    BY NatLessThanWellFounded, WFMin, Zenon
<1>2. ASSUME NEW k \in B PROVE m <= k
  <2>1. m \in Nat /\ k \in Nat
      OBVIOUS
  <2>2. ~(k < m)
      BY <1>1, <2>1 DEF OpToRel
  <2>. QED
      BY <2>1, <2>2
<1>. QED
    BY <1>2

\* Two functions on S with the same values.
LEMMA SameFunction ==
    ASSUME NEW S, NEW f, NEW g, f = [x \in S |-> f[x]], g = [x \in S |-> g[x]],
           \A x \in S : f[x] = g[x]
    PROVE  f = g
OBVIOUS

\* A parent comes before its children.
LEMMA ParentBefore ==
    /\ \A i \in Nat : i >= 2 => Parent(i) \in Nat /\ Parent(i) >= 1 /\ Parent(i) <= i - 1
    /\ \A i, c \in Nat : i >= 1 /\ c \in (4 * i - 2)..(4 * i + 1) => c >= 2 /\ Parent(c) = i
    /\ \A c \in Nat : c >= 2 => c \in (4 * Parent(c) - 2)..(4 * Parent(c) + 1)
BY DEF Parent

\* g holds the nodes from each of the first n up to the root.
Ups(g, n) == g = [k \in 1..n |-> IF k = 1 THEN {1} ELSE {k} \cup g[Parent(k)]]

\* Recursion up the parents is well founded: there is such a g.
LEMMA UpsExists == ASSUME NEW n \in Nat PROVE \E g : Ups(g, n)
<1>1. PICK B : B = {k \in Nat : ~\E g : Ups(g, k)}
    OBVIOUS
<1>2. SUFFICES ASSUME B # {} PROVE FALSE
    BY <1>1
<1>3. PICK m \in B : \A k \in B : m <= k
    BY <1>1, <1>2, LeastOf
<1>4. m \in Nat /\ ~\E g : Ups(g, m)
    BY <1>1
<1>5. m # 0
  <2>1. PICK h : h = [k \in 1..0 |-> {}]
      OBVIOUS
  <2>2. PICK d : d = [k \in 1..0 |-> IF k = 1 THEN {1} ELSE {k} \cup h[Parent(k)]]
      OBVIOUS
  <2>3. d = h
      BY <2>1, <2>2, SameFunction
  <2>4. Ups(h, 0)
      BY <2>2, <2>3 DEF Ups
  <2>. QED
      BY <1>4, <2>4
<1>6. PICK g : Ups(g, m - 1)
  <2>1. m - 1 \in Nat /\ ~(m <= m - 1)
      BY <1>4, <1>5
  <2>. QED
      BY <1>1, <1>3, <2>1
<1>7. PICK h : h = [k \in 1..m |-> IF k < m THEN g[k] ELSE IF k = 1 THEN {1} ELSE {k} \cup g[Parent(k)]]
    OBVIOUS
<1>8. ASSUME NEW k \in 1..m
      PROVE  h[k] = IF k = 1 THEN {1} ELSE {k} \cup h[Parent(k)]
  <2>1. k # 1 => Parent(k) \in 1..m - 1 /\ Parent(k) \in 1..m /\ Parent(k) < m
    <3>1. k # 1 => k \in Nat /\ k >= 2
        OBVIOUS
    <3>2. k # 1 => Parent(k) \in Nat /\ Parent(k) >= 1 /\ Parent(k) <= k - 1
        BY <3>1, ParentBefore
    <3>. QED
        BY <1>4, <3>2
  <2>2. k < m => g[k] = IF k = 1 THEN {1} ELSE {k} \cup g[Parent(k)]
    <3>1. k < m => k \in 1..m - 1
        BY <1>4
    <3>. QED
        BY <1>6, <3>1 DEF Ups
  <2>3. k # 1 => h[Parent(k)] = g[Parent(k)]
      BY <1>7, <2>1
  <2>. QED
      BY <1>7, <2>2, <2>3
<1>9. Ups(h, m)
  <2>1. PICK d : d = [k \in 1..m |-> IF k = 1 THEN {1} ELSE {k} \cup h[Parent(k)]]
      OBVIOUS
  <2>2. \A k \in 1..m : d[k] = h[k]
      BY <1>8, <2>1
  <2>3. d = h
    <3>1. d = [k \in 1..m |-> d[k]]
        BY <2>1
    <3>2. h = [k \in 1..m |-> h[k]]
        BY <1>7
    <3>. QED
        BY <2>2, <3>1, <3>2, SameFunction
  <2>. QED
      BY <2>1, <2>3 DEF Ups
<1>. QED
    BY <1>4, <1>9

\* Any two of them agree.
LEMMA UpsOnce ==
    ASSUME NEW m \in Nat, NEW n \in Nat, NEW g, NEW h, Ups(g, m), Ups(h, n),
           NEW k \in 1..m, k \in 1..n
    PROVE  g[k] = h[k]
<1>1. PICK B : B = {j \in Nat : j \in 1..m /\ j \in 1..n /\ g[j] # h[j]}
    OBVIOUS
<1>2. SUFFICES ASSUME B # {} PROVE FALSE
    BY <1>1
<1>3. PICK l \in B : \A j \in B : l <= j
    BY <1>1, <1>2, LeastOf
<1>4. l \in Nat /\ l \in 1..m /\ l \in 1..n /\ g[l] # h[l]
    BY <1>1
<1>5. /\ g[l] = IF l = 1 THEN {1} ELSE {l} \cup g[Parent(l)]
      /\ h[l] = IF l = 1 THEN {1} ELSE {l} \cup h[Parent(l)]
    BY <1>4 DEF Ups
<1>6. l >= 2
    BY <1>4, <1>5
<1>7. Parent(l) \in Nat /\ Parent(l) >= 1 /\ Parent(l) <= l - 1
    BY <1>4, <1>6, ParentBefore
<1>8. Parent(l) \in 1..m /\ Parent(l) \in 1..n /\ ~(l <= Parent(l))
    BY <1>4, <1>7
<1>9. g[Parent(l)] = h[Parent(l)]
    BY <1>1, <1>3, <1>7, <1>8
<1>. QED
    BY <1>4, <1>5, <1>6, <1>9

\* Above unfolds as it is written.
LEMMA AboveIs ==
    /\ Above(1) = {1}
    /\ \A i \in Nat : i >= 2 => Above(i) = {i} \cup Above(Parent(i))
<1>1. ASSUME NEW i \in Nat, i >= 1
      PROVE  \E g : Ups(g, i) /\ Above(i) = g[i]
  <2>1. PICK g : g = CHOOSE f : Ups(f, i)
      OBVIOUS
  <2>2. Ups(g, i)
      BY <2>1, UpsExists
  <2>3. Above(i) = g[i]
      BY <2>1 DEF Above, Ups
  <2>. QED
      BY <2>2, <2>3
<1>2. Above(1) = {1}
  <2>1. PICK g : Ups(g, 1) /\ Above(1) = g[1]
      BY <1>1
  <2>. QED
      BY <2>1 DEF Ups
<1>3. ASSUME NEW i \in Nat, i >= 2
      PROVE  Above(i) = {i} \cup Above(Parent(i))
  <2>1. PICK p : p = Parent(i)
      OBVIOUS
  <2>2. p \in Nat /\ p >= 1 /\ p <= i - 1
      BY <1>3, <2>1, ParentBefore
  <2>3. PICK g : Ups(g, i) /\ Above(i) = g[i]
      BY <1>1, <1>3
  <2>4. PICK h : Ups(h, p) /\ Above(p) = h[p]
      BY <1>1, <2>2
  <2>5. g[p] = h[p]
    <3>1. p \in 1..i /\ p \in 1..p
        BY <2>2
    <3>. QED
        BY <2>2, <2>3, <2>4, <3>1, UpsOnce
  <2>6. g[i] = {i} \cup g[p]
    <3>1. i \in 1..i /\ i # 1
        BY <1>3
    <3>. QED
        BY <2>1, <2>3, <3>1 DEF Ups
  <2>. QED
      BY <2>1, <2>3, <2>4, <2>5, <2>6
<1>. QED
    BY <1>2, <1>3

\* The nodes above n are a chain from n to the root.
Chain(n) ==
    /\ Above(n) \subseteq 1..n /\ n \in Above(n) /\ 1 \in Above(n)
    /\ \A k \in Above(n) : Above(k) \subseteq Above(n)
    /\ \A k \in Above(n) : k >= 2 => Parent(k) \in Above(n)
    /\ \A j, k \in Above(n) : j >= 2 /\ k >= 2 /\ Parent(j) = Parent(k) => j = k
    /\ \A k \in Above(n) : k # n => \E j \in Above(n) : j >= 2 /\ Parent(j) = k

\* The three steps of: every node has a chain of ancestors.
LEMMA ChainOne == Chain(1)
<1>1. Above(1) = {1}
    BY AboveIs
<1>. QED
    BY <1>1 DEF Chain

LEMMA ChainMore ==
    ASSUME NEW n \in Nat, n >= 2, Chain(Parent(n))
    PROVE  Chain(n)
<1>1. PICK p, A, U : p = Parent(n) /\ A = Above(p) /\ U = Above(n)
    OBVIOUS
<1>2. p \in Nat /\ p >= 1 /\ p <= n - 1
    BY <1>1, ParentBefore
<1>3. U = {n} \cup A
    BY <1>1, AboveIs
<1>4. /\ A \subseteq 1..p /\ p \in A /\ 1 \in A
      /\ \A k \in A : Above(k) \subseteq A
      /\ \A k \in A : k >= 2 => Parent(k) \in A
      /\ \A j, k \in A : j >= 2 /\ k >= 2 /\ Parent(j) = Parent(k) => j = k
      /\ \A k \in A : k # p => \E j \in A : j >= 2 /\ Parent(j) = k
    BY <1>1 DEF Chain
<1>5. U \subseteq 1..n /\ n \in U /\ 1 \in U
  <2>1. A \subseteq 1..n
      BY <1>2, <1>4
  <2>. QED
      BY <1>3, <1>4, <2>1
<1>6. \A k \in U : Above(k) \subseteq U
    BY <1>1, <1>3, <1>4
<1>7. \A k \in U : k >= 2 => Parent(k) \in U
    BY <1>1, <1>3, <1>4
<1>8. ASSUME NEW j \in A, j >= 2 PROVE Parent(j) # Parent(n)
  <2>1. j \in Nat /\ j <= p
      BY <1>2, <1>4
  <2>2. Parent(j) \in Nat /\ Parent(j) <= j - 1
      BY <1>8, <2>1, ParentBefore
  <2>. QED
      BY <1>1, <1>2, <2>1, <2>2
<1>9. \A j, k \in U : j >= 2 /\ k >= 2 /\ Parent(j) = Parent(k) => j = k
    BY <1>3, <1>4, <1>8
<1>10. \A k \in U : k # n => \E j \in U : j >= 2 /\ Parent(j) = k
    BY <1>1, <1>3, <1>4
<1>. QED
    BY <1>1, <1>5, <1>6, <1>7, <1>9, <1>10 DEF Chain

LEMMA ChainAll == ASSUME NEW n \in Nat, n >= 1 PROVE Chain(n)
<1>1. PICK B : B = {j \in Nat : j >= 1 /\ ~Chain(j)}
    OBVIOUS
<1>2. SUFFICES ASSUME B # {} PROVE FALSE
    BY <1>1
<1>3. PICK l \in B : \A j \in B : l <= j
    BY <1>1, <1>2, LeastOf
<1>4. l \in Nat /\ l >= 2 /\ ~Chain(l)
  <2>1. l \in Nat /\ l >= 1 /\ ~Chain(l)
      BY <1>1
  <2>. QED
      BY <2>1, ChainOne
<1>5. Parent(l) \in Nat /\ Parent(l) >= 1 /\ ~(l <= Parent(l))
    BY <1>4, ParentBefore
<1>6. Chain(Parent(l))
    BY <1>1, <1>3, <1>5
<1>. QED
    BY <1>4, <1>6, ChainMore

----------------------------------------------------------------------------
(* shift_up                                                                *)

Items == [eh : Handler \cup {None}, at : Int]

\* No item is earlier than its parent.
InOrder(h) == \A i \in 2..Len(h) : h[Parent(i)].at <= h[i].at

\* The nodes from n up to the one under t.
PathTo(n, t) == Above(n) \ Above(t)

PathFacts(n, t) ==
    /\ t \in 1..n /\ t \notin PathTo(n, t) /\ PathTo(n, t) \subseteq 2..n
    /\ \A k \in PathTo(n, t) : Parent(k) \in PathTo(n, t) \cup {t}
    /\ \A j, k \in PathTo(n, t) : Parent(j) = Parent(k) => j = k
    /\ t # n => n \in PathTo(n, t) /\ \E j \in PathTo(n, t) : Parent(j) = t
    /\ t >= 2 => Parent(t) \notin PathTo(n, t)

\* The nodes passed on the way from n to an ancestor t are a part of the chain of n.
LEMMA PathIs ==
    ASSUME NEW n \in Nat, n >= 1, NEW t \in Above(n)
    PROVE  PathFacts(n, t)
<1>1. PICK P, U, T : P = PathTo(n, t) /\ U = Above(n) /\ T = Above(t)
    OBVIOUS
<1>2. P = U \ T
    BY <1>1 DEF PathTo
<1>3. /\ U \subseteq 1..n /\ n \in U /\ 1 \in U /\ T \subseteq U /\ t \in U
      /\ \A k \in U : k >= 2 => Parent(k) \in U
      /\ \A j, k \in U : j >= 2 /\ k >= 2 /\ Parent(j) = Parent(k) => j = k
    BY <1>1, ChainAll DEF Chain
<1>4. t \in Nat /\ t >= 1 /\ t <= n
    BY <1>3
<1>5. /\ T \subseteq 1..t /\ t \in T /\ 1 \in T
      /\ \A k \in T : k >= 2 => Parent(k) \in T
      /\ \A k \in T : k # t => \E j \in T : j >= 2 /\ Parent(j) = k
    BY <1>1, <1>4, ChainAll DEF Chain
<1>6. t \in 1..n /\ t \notin P
    BY <1>2, <1>4, <1>5
<1>7. P \subseteq 2..n
  <2>1. \A k \in P : k \in 1..n /\ k # 1
      BY <1>2, <1>3, <1>5
  <2>. QED
      BY <2>1
<1>8. \A k \in P : k \in U /\ k \notin T /\ k >= 2
    BY <1>2, <1>7
<1>9. ASSUME NEW k \in P PROVE Parent(k) \in P \cup {t}
  <2>1. Parent(k) \in U
      BY <1>3, <1>8
  <2>2. SUFFICES ASSUME Parent(k) \in T, Parent(k) # t PROVE FALSE
      BY <1>2, <2>1
  <2>3. PICK j \in T : j >= 2 /\ Parent(j) = Parent(k)
      BY <1>5, <2>2
  <2>4. j = k
      BY <1>3, <1>8, <2>3
  <2>. QED
      BY <1>8, <2>3, <2>4
<1>10. \A j, k \in P : Parent(j) = Parent(k) => j = k
    BY <1>3, <1>8
<1>11. ASSUME t # n PROVE n \in P /\ \E j \in P : Parent(j) = t
  <2>1. n \notin T
      BY <1>4, <1>5, <1>11
  <2>2. n \in P
      BY <1>2, <1>3, <2>1
  <2>3. PICK j \in U : j >= 2 /\ Parent(j) = t
      BY <1>1, <1>3, <1>11, ChainAll DEF Chain
  <2>4. j \notin T
    <3>1. SUFFICES ASSUME j \in T PROVE FALSE
        OBVIOUS
    <3>2. j \in Nat /\ j <= t
        BY <1>3, <1>5, <3>1
    <3>3. Parent(j) \in Nat /\ Parent(j) <= j - 1
        BY <2>3, <3>2, ParentBefore
    <3>. QED
        BY <1>4, <2>3, <3>2, <3>3
  <2>. QED
      BY <1>2, <2>2, <2>3, <2>4
<1>12. t >= 2 => Parent(t) \notin P
    BY <1>2, <1>5
<1>. QED
    BY <1>1, <1>6, <1>7, <1>9, <1>10, <1>11, <1>12 DEF PathFacts

\* f[k] is where an item like the last one of h stops when it climbs from k.
Rests(h, k) == k = 1 \/ h[Len(h)].at >= h[Parent(k)].at
Climbs(f, h, n) == f = [k \in 1..n |-> IF Rests(h, k) THEN k ELSE f[Parent(k)]]

\* There is such an f.
LEMMA ClimbsExists ==
    ASSUME NEW h, NEW n \in Nat
    PROVE  \E f : Climbs(f, h, n)
<1>1. PICK B : B = {k \in Nat : ~\E f : Climbs(f, h, k)}
    OBVIOUS
<1>2. SUFFICES ASSUME B # {} PROVE FALSE
    BY <1>1
<1>3. PICK m \in B : \A k \in B : m <= k
    BY <1>1, <1>2, LeastOf
<1>4. m \in Nat /\ ~\E f : Climbs(f, h, m)
    BY <1>1
<1>5. m # 0
  <2>1. PICK f : f = [k \in 1..0 |-> {}]
      OBVIOUS
  <2>2. PICK d : d = [k \in 1..0 |-> IF Rests(h, k) THEN k ELSE f[Parent(k)]]
      OBVIOUS
  <2>3. d = f
      BY <2>1, <2>2, SameFunction
  <2>4. Climbs(f, h, 0)
      BY <2>2, <2>3 DEF Climbs
  <2>. QED
      BY <1>4, <2>4
<1>6. PICK g : Climbs(g, h, m - 1)
  <2>1. m - 1 \in Nat /\ ~(m <= m - 1)
      BY <1>4, <1>5
  <2>. QED
      BY <1>1, <1>3, <2>1
<1>7. PICK f : f = [k \in 1..m |-> IF k < m THEN g[k] ELSE IF Rests(h, k) THEN k ELSE g[Parent(k)]]
    OBVIOUS
<1>8. ASSUME NEW k \in 1..m
      PROVE  f[k] = IF Rests(h, k) THEN k ELSE f[Parent(k)]
  <2>1. ~Rests(h, k) => Parent(k) \in 1..m - 1 /\ Parent(k) \in 1..m /\ Parent(k) < m
    <3>1. ~Rests(h, k) => k \in Nat /\ k >= 2
        BY DEF Rests
    <3>2. ~Rests(h, k) => Parent(k) \in Nat /\ Parent(k) >= 1 /\ Parent(k) <= k - 1
        BY <3>1, ParentBefore
    <3>. QED
        BY <1>4, <3>2
  <2>2. k < m => g[k] = IF Rests(h, k) THEN k ELSE g[Parent(k)]
    <3>1. k < m => k \in 1..m - 1
        BY <1>4
    <3>. QED
        BY <1>6, <3>1 DEF Climbs
  <2>3. ~Rests(h, k) => f[Parent(k)] = g[Parent(k)]
      BY <1>7, <2>1
  <2>. QED
      BY <1>7, <2>2, <2>3
<1>9. Climbs(f, h, m)
  <2>1. PICK d : d = [k \in 1..m |-> IF Rests(h, k) THEN k ELSE f[Parent(k)]]
      OBVIOUS
  <2>2. \A k \in 1..m : d[k] = f[k]
      BY <1>8, <2>1
  <2>3. d = f
    <3>1. d = [k \in 1..m |-> d[k]]
        BY <2>1
    <3>2. f = [k \in 1..m |-> f[k]]
        BY <1>7
    <3>. QED
        BY <2>2, <3>1, <3>2, SameFunction
  <2>. QED
      BY <2>1, <2>3 DEF Climbs
<1>. QED
    BY <1>4, <1>9

\* The item that climbs from n stops at t.
ClimbsTo(h, n, t) ==
    /\ t \in Above(n) /\ Rests(h, t)
    /\ \A k \in PathTo(n, t) : h[Len(h)].at < h[Parent(k)].at

\* It stops at an ancestor of i, under a parent that is not later.
LEMMA StopsAbove ==
    ASSUME NEW h, NEW n \in Nat, NEW f, Climbs(f, h, n),
           \A i \in 1..n : h[i].at \in Int, h[Len(h)].at \in Int, NEW i \in 1..n
    PROVE  ClimbsTo(h, i, f[i])
<1>1. PICK B : B = {k \in Nat : k \in 1..n /\ ~ClimbsTo(h, k, f[k])}
    OBVIOUS
<1>2. SUFFICES ASSUME B # {} PROVE FALSE
    BY <1>1
<1>3. PICK k \in B : \A j \in B : k <= j
    BY <1>1, <1>2, LeastOf
<1>4. k \in Nat /\ k \in 1..n /\ ~ClimbsTo(h, k, f[k]) /\ k >= 1
    BY <1>1
<1>5. f[k] = IF Rests(h, k) THEN k ELSE f[Parent(k)]
    BY <1>4 DEF Climbs
<1>6. ~Rests(h, k)
  <2>1. k \in Above(k) /\ PathTo(k, k) = {}
      BY <1>4, ChainAll DEF Chain, PathTo
  <2>. QED
      BY <1>4, <1>5, <2>1 DEF ClimbsTo
<1>7. PICK p : p = Parent(k)
    OBVIOUS
<1>8. k >= 2 /\ p \in Nat /\ p >= 1 /\ p <= k - 1 /\ p \in 1..n /\ ~(k <= p)
  <2>1. k >= 2
      BY <1>4, <1>6 DEF Rests
  <2>2. p \in Nat /\ p >= 1 /\ p <= k - 1
      BY <1>4, <1>7, <2>1, ParentBefore
  <2>. QED
      BY <1>4, <2>1, <2>2
<1>9. ClimbsTo(h, p, f[p])
    BY <1>1, <1>3, <1>8
<1>10. Above(k) = {k} \cup Above(p)
    BY <1>4, <1>7, <1>8, AboveIs
<1>11. f[k] = f[p]
    BY <1>5, <1>6, <1>7
<1>12. h[Len(h)].at < h[p].at
  <2>1. h[p].at \in Int
      BY <1>8
  <2>. QED
      BY <1>6, <1>7, <2>1 DEF Rests
<1>13. ClimbsTo(h, k, f[k])
    BY <1>7, <1>9, <1>10, <1>11, <1>12 DEF ClimbsTo, PathTo
<1>. QED
    BY <1>4, <1>13

\* What is in r was in h, and the other way round.
Shuffled(r, h, n) ==
    \E p \in [1..n -> 1..n] :
        /\ \A j, k \in 1..n : p[j] = p[k] => j = k
        /\ \A j \in 1..n : \E k \in 1..n : p[k] = j
        /\ \A k \in 1..n : r[k] = h[p[k]]

\* A function of 1..n to itself that takes no value twice takes them all.
LEMMA OneToOne ==
    ASSUME NEW n \in Nat, NEW p \in [1..n -> 1..n], \A j, k \in 1..n : p[j] = p[k] => j = k
    PROVE  \A j \in 1..n : \E k \in 1..n : p[k] = j
<1>1. p \in Injection(1..n, 1..n)
    BY DEF Injection, IsInjective
<1>2. IsFiniteSet(1..n)
    BY FS_Interval
<1>3. p \in Surjection(1..n, 1..n)
    BY <1>1, <1>2, FS_Injection
<1>. QED
    BY <1>3 DEF Surjection

\* The items that the climbing one passes move down.
Climbed(h, t) ==
    [k \in DOMAIN h |-> IF k = t THEN h[Len(h)]
                        ELSE IF k \in PathTo(Len(h), t) THEN h[Parent(k)] ELSE h[k]]

\* shift_up is the climb of the last item to the place where it stops.
LEMMA ShiftUpIs ==
    ASSUME NEW h \in Seq(Items), Len(h) >= 1
    PROVE  \E t : ClimbsTo(h, Len(h), t) /\ ShiftUp(h) = Climbed(h, t)
<1>1. PICK n : n = Len(h)
    OBVIOUS
<1>2. n \in Nat /\ n >= 1 /\ \A i \in 1..n : h[i] \in Items
    BY <1>1, LenProperties, ElementOfSeq
<1>3. \A i \in 1..n : h[i].at \in Int
    BY <1>2 DEF Items
<1>4. PICK f : f = CHOOSE g : Climbs(g, h, n)
    OBVIOUS
<1>5. Climbs(f, h, n)
    BY <1>2, <1>4, ClimbsExists
<1>6. PICK t : t = f[n]
    OBVIOUS
<1>7. ClimbsTo(h, n, t)
  <2>1. n \in 1..n /\ h[Len(h)].at \in Int
      BY <1>1, <1>2, <1>3
  <2>. QED
      BY <1>2, <1>3, <1>5, <1>6, <2>1, StopsAbove
<1>8. ShiftUp(h) = Climbed(h, t)
    BY <1>1, <1>4, <1>6 DEF ShiftUp, Climbed, Climbs, Rests, PathTo
<1>. QED
    BY <1>1, <1>7, <1>8

\* What shift_up leaves of the items of h, of which the last one is in no order yet.
LEMMA ClimbedIs ==
    ASSUME NEW h \in Seq(Items), NEW n, n = Len(h), n >= 1, NEW t, ClimbsTo(h, n, t),
           NEW r, r = Climbed(h, t)
    PROVE  /\ r \in Seq(Items) /\ Len(r) = n /\ Shuffled(r, h, n)
           /\ (\A i \in 2..n - 1 : h[Parent(i)].at <= h[i].at) => InOrder(r)
           /\ r[1] = h[1] \/ (r[1] = h[n] /\ (n > 1 => h[n].at < h[1].at))
<1>1. n \in Nat /\ DOMAIN h = 1..n /\ \A i \in 1..n : h[i] \in Items /\ h[i].at \in Int
  <2>1. Len(h) \in Nat /\ DOMAIN h = 1..Len(h) /\ \A i \in 1..Len(h) : h[i] \in Items
      BY LenProperties, ElementOfSeq
  <2>. QED
      BY <2>1 DEF Items
<1>2. PICK P : P = PathTo(n, t)
    OBVIOUS
<1>3. t \in Above(n)
    BY DEF ClimbsTo
<1>4. /\ t \in 1..n /\ t \notin P /\ P \subseteq 2..n
      /\ \A k \in P : Parent(k) \in P \cup {t}
      /\ \A j, k \in P : Parent(j) = Parent(k) => j = k
      /\ t # n => n \in P /\ \E j \in P : Parent(j) = t
      /\ t >= 2 => Parent(t) \notin P
    BY <1>1, <1>2, <1>3, PathIs DEF PathFacts
<1>5. /\ t = 1 \/ h[n].at >= h[Parent(t)].at
      /\ \A k \in P : h[n].at < h[Parent(k)].at
    BY <1>2 DEF ClimbsTo, Rests
<1>6. \A k \in 2..n : Parent(k) \in 1..n /\ Parent(k) <= k - 1 /\ Parent(k) \in 1..n - 1
  <2>1. \A k \in 2..n : k \in Nat /\ k >= 2
      BY <1>1
  <2>2. \A k \in 2..n : Parent(k) \in Nat /\ Parent(k) >= 1 /\ Parent(k) <= k - 1
      BY <2>1, ParentBefore
  <2>. QED
      BY <1>1, <2>2
<1>7. r = [k \in 1..n |-> IF k = t THEN h[n] ELSE IF k \in P THEN h[Parent(k)] ELSE h[k]]
    BY <1>1, <1>2 DEF Climbed
<1>8. r \in Seq(Items) /\ Len(r) = n
  <2>1. \A k \in 1..n : r[k] \in Items
      BY <1>1, <1>4, <1>6, <1>7
  <2>2. r \in [1..n -> Items]
      BY <1>7, <2>1
  <2>3. r \in Seq(Items)
      BY <1>1, <2>2, SeqDef
  <2>4. DOMAIN r = 1..Len(r) /\ Len(r) \in Nat
      BY <2>3, LenProperties
  <2>. QED
      BY <1>1, <2>2, <2>3, <2>4
<1>9. Shuffled(r, h, n)
  <2>1. PICK p : p = [k \in 1..n |-> IF k = t THEN n ELSE IF k \in P THEN Parent(k) ELSE k]
      OBVIOUS
  <2>2. p \in [1..n -> 1..n]
    <3>1. \A k \in 1..n : p[k] \in 1..n
        BY <1>1, <1>4, <1>6, <2>1
    <3>. QED
        BY <2>1, <3>1
  <2>3. \A k \in 1..n : r[k] = h[p[k]]
      BY <1>1, <1>7, <2>1
  <2>4. ASSUME NEW j \in 1..n, NEW k \in 1..n, p[j] = p[k] PROVE j = k
    <3>1. \A i \in P : Parent(i) # n
        BY <1>1, <1>4, <1>6
    <3>2. \A i \in 1..n : i # t /\ i \notin P => i # n /\ \A l \in P : Parent(l) # i
        BY <1>4
    <3>. QED
        BY <1>4, <2>1, <2>4, <3>1, <3>2
  <2>5. \A j \in 1..n : \E k \in 1..n : p[k] = j
      BY <1>1, <2>2, <2>4, OneToOne
  <2>. QED
      BY <2>2, <2>3, <2>4, <2>5 DEF Shuffled
<1>10. ASSUME \A i \in 2..n - 1 : h[Parent(i)].at <= h[i].at
       PROVE  InOrder(r)
  <2>1. SUFFICES ASSUME NEW i \in 2..n PROVE r[Parent(i)].at <= r[i].at
      BY <1>8 DEF InOrder
  <2>2. PICK p : p = Parent(i)
      OBVIOUS
  <2>3. p \in 1..n - 1 /\ p \in 1..n /\ p <= i - 1 /\ i \in 1..n /\ i # p
      BY <1>1, <1>6, <2>2
  <2>4. CASE i = t
    <3>1. p \notin P /\ p # t
        BY <1>4, <2>2, <2>3, <2>4
    <3>2. r[i] = h[n] /\ r[p] = h[p]
        BY <1>7, <2>3, <2>4, <3>1
    <3>. QED
        BY <1>1, <1>5, <2>2, <2>3, <2>4, <3>2
  <2>5. CASE i \in P
    <3>1. i # t /\ r[i] = h[p]
        BY <1>4, <1>7, <2>2, <2>3, <2>5
    <3>2. CASE p = t
      <4>1. r[p] = h[n]
          BY <1>7, <2>3, <3>2
      <4>. QED
          BY <1>1, <1>5, <2>2, <2>3, <2>5, <3>1, <4>1
    <3>3. CASE p \in P /\ p # t
      <4>1. r[p] = h[Parent(p)]
          BY <1>7, <2>3, <3>3
      <4>2. p \in 2..n - 1
          BY <1>4, <2>3, <3>3
      <4>. QED
          BY <1>10, <2>2, <3>1, <4>1, <4>2
    <3>. QED
        BY <1>4, <2>2, <2>5, <3>2, <3>3
  <2>6. CASE i # t /\ i \notin P
    <3>1. r[i] = h[i] /\ i # n /\ i \in 2..n - 1
        BY <1>1, <1>4, <1>7, <2>3, <2>6
    <3>2. h[p].at <= h[i].at /\ h[p].at \in Int /\ h[i].at \in Int
        BY <1>1, <1>10, <2>2, <2>3, <3>1
    <3>3. CASE p = t
      <4>1. r[p] = h[n]
          BY <1>7, <2>3, <3>3
      <4>2. t # n
          BY <2>3, <3>3
      <4>3. h[n].at < h[t].at /\ h[n].at \in Int
          BY <1>1, <1>4, <1>5, <2>3, <3>3, <4>2
      <4>. QED
          BY <2>2, <3>1, <3>2, <3>3, <4>1, <4>3
    <3>4. CASE p \in P /\ p # t
      <4>1. r[p] = h[Parent(p)]
          BY <1>7, <2>3, <3>4
      <4>2. p \in 2..n - 1
          BY <1>4, <2>3, <3>4
      <4>3. h[Parent(p)].at <= h[p].at /\ h[Parent(p)].at \in Int
        <5>1. Parent(p) \in 1..n
            BY <1>6, <1>4, <3>4
        <5>. QED
            BY <1>1, <1>10, <4>2, <5>1
      <4>. QED
          BY <2>2, <3>1, <3>2, <4>1, <4>3
    <3>5. CASE p # t /\ p \notin P
      <4>1. r[p] = h[p]
          BY <1>7, <2>3, <3>5
      <4>. QED
          BY <2>2, <3>1, <3>2, <4>1
    <3>. QED
        BY <3>3, <3>4, <3>5
  <2>. QED
      BY <2>4, <2>5, <2>6
<1>11. r[1] = h[1] \/ (r[1] = h[n] /\ (n > 1 => h[n].at < h[1].at))
  <2>1. 1 \in 1..n /\ 1 \notin P
      BY <1>1, <1>4
  <2>2. CASE t = 1
    <3>1. n > 1 => \E j \in P : Parent(j) = 1
        BY <1>4, <2>2
    <3>2. n > 1 => h[n].at < h[1].at
        BY <1>5, <3>1
    <3>. QED
        BY <1>7, <2>1, <2>2, <3>2
  <2>3. CASE t # 1
      BY <1>7, <2>1, <2>3
  <2>. QED
      BY <2>2, <2>3
<1>. QED
    BY <1>8, <1>9, <1>10, <1>11

\* insert: one item more, and nothing else changes.
LEMMA InsertIs ==
    ASSUME NEW h \in Seq(Items), NEW x \in Items, NEW r, r = Insert(h, x),
           NEW n, n = Len(h)
    PROVE  /\ n \in Nat /\ r \in Seq(Items) /\ Len(r) = n + 1
           /\ Shuffled(r, Append(h, x), n + 1)
           /\ InOrder(h) => InOrder(r)
           /\ (n >= 1 /\ r[1] = h[1]) \/ (r[1] = x /\ (n >= 1 => x.at < h[1].at))
<1>1. PICK a, m : a = Append(h, x) /\ m = n + 1
    OBVIOUS
<1>2. /\ n \in Nat /\ a \in Seq(Items) /\ Len(a) = m /\ m >= 1 /\ a[m] = x
      /\ \A i \in 1..n : a[i] = h[i]
  <2>1. Len(h) \in Nat
      BY LenProperties
  <2>. QED
      BY <1>1, <2>1, AppendProperties
<1>3. PICK t : ClimbsTo(a, m, t) /\ r = Climbed(a, t)
  <2>1. \E t : ClimbsTo(a, Len(a), t) /\ ShiftUp(a) = Climbed(a, t)
      BY <1>2, ShiftUpIs
  <2>. QED
      BY <1>1, <1>2, <2>1 DEF Insert
<1>4. /\ r \in Seq(Items) /\ Len(r) = m /\ Shuffled(r, a, m)
      /\ (\A i \in 2..m - 1 : a[Parent(i)].at <= a[i].at) => InOrder(r)
      /\ r[1] = a[1] \/ (r[1] = a[m] /\ (m > 1 => a[m].at < a[1].at))
    BY <1>2, <1>3, ClimbedIs
<1>5. InOrder(h) => \A i \in 2..m - 1 : a[Parent(i)].at <= a[i].at
  <2>1. ASSUME InOrder(h), NEW i \in 2..m - 1
        PROVE  a[Parent(i)].at <= a[i].at
    <3>1. i \in Nat /\ i >= 2 /\ i \in 1..n /\ i \in 2..Len(h)
        BY <1>1, <1>2
    <3>2. Parent(i) \in Nat /\ Parent(i) >= 1 /\ Parent(i) <= i - 1
        BY <3>1, ParentBefore
    <3>3. Parent(i) \in 1..n
        BY <1>2, <3>1, <3>2
    <3>. QED
        BY <1>2, <2>1, <3>1, <3>3 DEF InOrder
  <2>. QED
      BY <2>1
<1>6. (n >= 1 /\ r[1] = h[1]) \/ (r[1] = x /\ (n >= 1 => x.at < h[1].at))
  <2>1. CASE n = 0
      BY <1>1, <1>2, <1>4, <2>1
  <2>2. CASE n >= 1
    <3>1. a[1] = h[1] /\ m > 1
        BY <1>1, <1>2, <2>2
    <3>. QED
        BY <1>2, <1>4, <2>2, <3>1
  <2>. QED
      BY <1>2, <2>1, <2>2
<1>. QED
    BY <1>1, <1>2, <1>4, <1>5, <1>6

----------------------------------------------------------------------------
(* shift_down                                                              *)

\* The children of i are the nodes that it is the parent of.
LEMMA ChildrenAre ==
    ASSUME NEW h \in Seq(Items), NEW i \in Nat, i >= 1
    PROVE  /\ \A c \in Children(h, i) : c \in 2..Len(h) /\ Parent(c) = i /\ c >= i + 1
           /\ \A c \in 2..Len(h) : Parent(c) = i => c \in Children(h, i)
<1>1. Len(h) \in Nat
    BY LenProperties
<1>2. ASSUME NEW c \in Children(h, i) PROVE c \in 2..Len(h) /\ Parent(c) = i /\ c >= i + 1
  <2>1. c \in (4 * i - 2)..(4 * i + 1) /\ c <= Len(h)
      BY <1>2 DEF Children
  <2>2. c \in Nat /\ c >= i + 1
      BY <2>1
  <2>3. c >= 2 /\ Parent(c) = i
      BY <2>1, <2>2, ParentBefore
  <2>. QED
      BY <1>1, <2>1, <2>2, <2>3
<1>3. ASSUME NEW c \in 2..Len(h), Parent(c) = i PROVE c \in Children(h, i)
  <2>1. c \in Nat /\ c >= 2 /\ c <= Len(h)
      BY <1>1
  <2>2. c \in (4 * i - 2)..(4 * i + 1)
      BY <1>3, <2>1, ParentBefore
  <2>. QED
      BY <2>1, <2>2 DEF Children
<1>. QED
    BY <1>2, <1>3

\* A node with children has a first child that is no later than the others.
LEMMA MinChildIs ==
    ASSUME NEW h \in Seq(Items), NEW i \in Nat, i >= 1, Children(h, i) # {}
    PROVE  /\ MinChild(h, i) \in Children(h, i)
           /\ \A c \in Children(h, i) : h[MinChild(h, i)].at <= h[c].at
<1>1. PICK C : C = Children(h, i)
    OBVIOUS
<1>2. C \subseteq {4 * i - 2, 4 * i - 1, 4 * i, 4 * i + 1} /\ C \subseteq Nat
    BY <1>1 DEF Children
<1>3. \A c \in C : h[c].at \in Int
  <2>1. \A c \in C : c \in 1..Len(h)
    <3>1. Len(h) \in Nat
        BY LenProperties
    <3>. QED
        BY <1>1, <3>1, ChildrenAre
  <2>2. \A c \in C : h[c] \in Items
      BY <2>1, ElementOfSeq
  <2>. QED
      BY <2>2 DEF Items
<1>4. PICK b \in Int : \A c \in C : b <= h[c].at
  <2>1. PICK v : v = [c \in {4 * i - 2, 4 * i - 1, 4 * i, 4 * i + 1} |-> IF c \in C THEN h[c].at ELSE 0]
      OBVIOUS
  <2>2. PICK v1, v2, v3, v4 : v1 = v[4 * i - 2] /\ v2 = v[4 * i - 1] /\ v3 = v[4 * i] /\ v4 = v[4 * i + 1]
      OBVIOUS
  <2>3. v1 \in Int /\ v2 \in Int /\ v3 \in Int /\ v4 \in Int
      BY <1>3, <2>1, <2>2
  <2>4. \E b \in Int : b <= v1 /\ b <= v2 /\ b <= v3 /\ b <= v4
    <3>1. \E b \in Int : b <= v1 /\ b <= v2
        BY <2>3
    <3>2. PICK d \in Int : d <= v1 /\ d <= v2
        BY <3>1
    <3>3. \E b \in Int : b <= d /\ b <= v3
        BY <2>3
    <3>4. PICK e \in Int : e <= d /\ e <= v3
        BY <3>3
    <3>5. \E b \in Int : b <= e /\ b <= v4
        BY <2>3
    <3>6. PICK b \in Int : b <= e /\ b <= v4
        BY <3>5
    <3>7. b <= v1 /\ b <= v2 /\ b <= v3 /\ b <= v4
        BY <2>3, <3>2, <3>4, <3>6
    <3>. QED
        BY <3>7
  <2>5. PICK b \in Int : b <= v1 /\ b <= v2 /\ b <= v3 /\ b <= v4
      BY <2>4
  <2>6. \A c \in C : b <= v[c]
      BY <1>2, <2>2, <2>5
  <2>7. \A c \in C : v[c] = h[c].at
      BY <1>2, <2>1
  <2>. QED
      BY <2>6, <2>7
<1>5. PICK m : m \in C /\ \A c \in C : h[m].at < h[c].at \/ (h[m].at = h[c].at /\ m <= c)
  <2>1. PICK B : B = {h[c].at - b : c \in C}
      OBVIOUS
  <2>2. B \subseteq Nat /\ B # {}
    <3>1. \A c \in C : h[c].at - b \in Nat
        BY <1>3, <1>4
    <3>. QED
        BY <1>1, <2>1, <3>1
  <2>3. PICK l \in B : \A k \in B : l <= k
      BY <2>2, LeastOf
  <2>4. PICK D : D = {c \in C : h[c].at - b = l}
      OBVIOUS
  <2>5. D \subseteq Nat /\ D # {}
      BY <1>2, <2>1, <2>4
  <2>6. PICK m \in D : \A k \in D : m <= k
      BY <2>5, LeastOf
  <2>7. m \in C /\ h[m].at - b = l
      BY <2>4
  <2>8. ASSUME NEW c \in C PROVE h[m].at < h[c].at \/ (h[m].at = h[c].at /\ m <= c)
    <3>1. h[c].at - b >= l
      <4>1. h[c].at - b \in B
          BY <2>1
      <4>. QED
          BY <2>2, <2>3, <4>1
    <3>2. h[c].at - b = l => m <= c
        BY <2>4, <2>6
    <3>3. h[c].at \in Int /\ h[m].at \in Int /\ l \in Int
        BY <1>3, <2>2, <2>7
    <3>. QED
        BY <2>7, <3>1, <3>2, <3>3
  <2>. QED
      BY <2>7, <2>8
<1>6. /\ MinChild(h, i) \in C
      /\ \A c \in C : h[MinChild(h, i)].at < h[c].at
                        \/ (h[MinChild(h, i)].at = h[c].at /\ MinChild(h, i) <= c)
    BY <1>1, <1>5 DEF MinChild
<1>. QED
    BY <1>1, <1>3, <1>6

\* f[d] is where the first item of h is after d levels.
Stays(h, k) == Children(h, k) = {} \/ h[MinChild(h, k)].at >= h[1].at
Sinks(f, h, n) ==
    f = [d \in 0..n |-> IF d = 0 THEN 1
                        ELSE IF Stays(h, f[d - 1]) THEN f[d - 1] ELSE MinChild(h, f[d - 1])]

\* There is such an f.
LEMMA SinksExists ==
    ASSUME NEW h, NEW n \in Nat
    PROVE  \E f : Sinks(f, h, n)
<1>1. PICK B : B = {k \in Nat : ~\E f : Sinks(f, h, k)}
    OBVIOUS
<1>2. SUFFICES ASSUME B # {} PROVE FALSE
    BY <1>1
<1>3. PICK m \in B : \A k \in B : m <= k
    BY <1>1, <1>2, LeastOf
<1>4. m \in Nat /\ ~\E f : Sinks(f, h, m)
    BY <1>1
<1>5. m # 0
  <2>1. PICK f : f = [d \in 0..0 |-> 1]
      OBVIOUS
  <2>2. PICK g : g = [d \in 0..0 |-> IF d = 0 THEN 1
                        ELSE IF Stays(h, f[d - 1]) THEN f[d - 1] ELSE MinChild(h, f[d - 1])]
      OBVIOUS
  <2>3. \A d \in 0..0 : g[d] = f[d]
      BY <2>1, <2>2
  <2>4. g = f
      BY <2>1, <2>2, <2>3, SameFunction
  <2>5. Sinks(f, h, 0)
      BY <2>2, <2>4 DEF Sinks
  <2>. QED
      BY <1>4, <2>5
<1>6. PICK g : Sinks(g, h, m - 1)
  <2>1. m - 1 \in Nat /\ ~(m <= m - 1)
      BY <1>4, <1>5
  <2>. QED
      BY <1>1, <1>3, <2>1
<1>7. PICK f : f = [d \in 0..m |-> IF d < m THEN g[d]
                        ELSE IF Stays(h, g[d - 1]) THEN g[d - 1] ELSE MinChild(h, g[d - 1])]
    OBVIOUS
<1>8. ASSUME NEW d \in 0..m
      PROVE  f[d] = IF d = 0 THEN 1
                    ELSE IF Stays(h, f[d - 1]) THEN f[d - 1] ELSE MinChild(h, f[d - 1])
  <2>1. d # 0 => d - 1 \in 0..m - 1 /\ d - 1 \in 0..m /\ d - 1 < m
      BY <1>4
  <2>2. d < m => g[d] = IF d = 0 THEN 1
                    ELSE IF Stays(h, g[d - 1]) THEN g[d - 1] ELSE MinChild(h, g[d - 1])
    <3>1. d < m => d \in 0..m - 1
        BY <1>4
    <3>. QED
        BY <1>6, <3>1 DEF Sinks
  <2>3. d # 0 => f[d - 1] = g[d - 1]
      BY <1>7, <2>1
  <2>4. d < m => f[d] = g[d]
      BY <1>7
  <2>5. d = m => f[d] = IF Stays(h, g[d - 1]) THEN g[d - 1] ELSE MinChild(h, g[d - 1])
      BY <1>4, <1>7
  <2>6. d < m \/ d = m
      BY <1>4
  <2>. QED
      BY <1>5, <2>2, <2>3, <2>4, <2>5, <2>6, Zenon
<1>9. Sinks(f, h, m)
  <2>1. PICK e : e = [d \in 0..m |-> IF d = 0 THEN 1
                    ELSE IF Stays(h, f[d - 1]) THEN f[d - 1] ELSE MinChild(h, f[d - 1])]
      OBVIOUS
  <2>2. \A d \in 0..m : e[d] = f[d]
      BY <1>8, <2>1
  <2>3. e = f
    <3>1. e = [d \in 0..m |-> e[d]]
        BY <2>1
    <3>2. f = [d \in 0..m |-> f[d]]
        BY <1>7
    <3>. QED
        BY <2>2, <3>1, <3>2, SameFunction
  <2>. QED
      BY <2>1, <2>3 DEF Sinks
<1>. QED
    BY <1>4, <1>9

\* The first item goes down to t, from each node to its first child.
SinksBy(h, t) ==
    \A k \in Above(t) \ {t} : ~Stays(h, k) /\ MinChild(h, k) \in Above(t)
SinksTo(h, t) == t \in 1..Len(h) /\ Stays(h, t) /\ SinksBy(h, t)

AtLevel(h, n, d, t) == t \in 1..n /\ (t >= d + 1 \/ Stays(h, t)) /\ SinksBy(h, t)

\* It stops after at most n levels: each one takes it to a later position.
LEMMA StopsBelow ==
    ASSUME NEW h \in Seq(Items), NEW n, n = Len(h), n >= 1, NEW f, Sinks(f, h, n)
    PROVE  SinksTo(h, f[n])
<1>1. n \in Nat
    BY LenProperties
<1>2. PICK B : B = {d \in Nat : d \in 0..n /\ ~AtLevel(h, n, d, f[d])}
    OBVIOUS
<1>3. B = {}
  <2>1. SUFFICES ASSUME B # {} PROVE FALSE
      OBVIOUS
  <2>2. PICK d \in B : \A k \in B : d <= k
      BY <1>2, <2>1, LeastOf
  <2>3. d \in Nat /\ d \in 0..n
      BY <1>2
  <2>4. d # 0
    <3>1. SUFFICES ASSUME d = 0 PROVE FALSE
        OBVIOUS
    <3>2. f[0] = 1
        BY <2>3, <3>1 DEF Sinks
    <3>3. Above(1) = {1}
        BY AboveIs
    <3>4. f[0] \in 1..n /\ f[0] >= 0 + 1 /\ SinksBy(h, f[0])
        BY <1>1, <3>2, <3>3 DEF SinksBy
    <3>. QED
        BY <1>2, <3>1, <3>4 DEF AtLevel
  <2>5. PICK t, u : t = f[d - 1] /\ u = f[d]
      OBVIOUS
  <2>6. t \in 1..n /\ (t >= d \/ Stays(h, t)) /\ SinksBy(h, t)
    <3>1. d - 1 \in Nat /\ d - 1 \in 0..n /\ ~(d <= d - 1) /\ (d - 1) + 1 = d
        BY <1>1, <2>3, <2>4
    <3>2. d - 1 \notin B
        BY <2>2, <3>1
    <3>3. AtLevel(h, n, d - 1, t)
        BY <1>2, <2>5, <3>1, <3>2
    <3>. QED
        BY <3>1, <3>3 DEF AtLevel
  <2>7. u = IF Stays(h, t) THEN t ELSE MinChild(h, t)
      BY <2>3, <2>4, <2>5 DEF Sinks
  <2>8. ~Stays(h, t)
    <3>1. ~AtLevel(h, n, d, u)
        BY <1>2, <2>5
    <3>. QED
        BY <2>6, <2>7, <3>1 DEF AtLevel
  <2>9. t \in Nat /\ t >= 1 /\ t >= d
      BY <1>1, <2>6, <2>8
  <2>10. u \in Children(h, t)
      BY <2>7, <2>8, <2>9, MinChildIs DEF Stays
  <2>11. u \in 2..n /\ Parent(u) = t /\ u >= t + 1
      BY <2>9, <2>10, ChildrenAre
  <2>12. u \in Nat /\ u >= 2 /\ u \in 1..n /\ u >= d + 1
      BY <1>1, <2>3, <2>9, <2>11
  <2>13. Above(u) = {u} \cup Above(t)
      BY <2>11, <2>12, AboveIs
  <2>14. SinksBy(h, u)
    <3>1. \A k \in Above(u) \ {u} : k = t \/ k \in Above(t) \ {t}
        BY <2>13
    <3>2. MinChild(h, t) \in Above(u)
        BY <2>7, <2>8, <2>13
    <3>. QED
        BY <2>6, <2>8, <2>13, <3>1, <3>2 DEF SinksBy
  <2>15. ~AtLevel(h, n, d, u)
      BY <1>2, <2>5
  <2>. QED
      BY <2>12, <2>14, <2>15 DEF AtLevel
<1>4. n \in 0..n /\ n \notin B
    BY <1>1, <1>3
<1>5. f[n] \in 1..n /\ (f[n] >= n + 1 \/ Stays(h, f[n])) /\ SinksBy(h, f[n])
  <2>1. AtLevel(h, n, n, f[n])
      BY <1>1, <1>2, <1>4
  <2>. QED
      BY <2>1 DEF AtLevel
<1>. QED
    BY <1>1, <1>5 DEF SinksTo

\* The items that the sinking one passes move up.
Sunk(h, t) ==
    [k \in DOMAIN h |-> IF k = t THEN h[1]
                        ELSE IF k \in Above(t) \ {t} THEN h[MinChild(h, k)] ELSE h[k]]

\* shift_down is the way of the first item down to the place where it stops.
LEMMA ShiftDownIs ==
    ASSUME NEW h \in Seq(Items), Len(h) >= 1
    PROVE  \E t : SinksTo(h, t) /\ ShiftDown(h) = Sunk(h, t)
<1>1. PICK n : n = Len(h)
    OBVIOUS
<1>2. n \in Nat
    BY <1>1, LenProperties
<1>3. PICK f : f = CHOOSE g : Sinks(g, h, n)
    OBVIOUS
<1>4. Sinks(f, h, n)
    BY <1>2, <1>3, SinksExists
<1>5. SinksTo(h, f[n])
    BY <1>1, <1>4, StopsBelow
<1>6. ShiftDown(h) = Sunk(h, f[n])
    BY <1>1, <1>3 DEF ShiftDown, Sunk, Sinks, Stays
<1>. QED
    BY <1>5, <1>6

\* What shift_down leaves of the items of h, of which the first one is in no order yet.
LEMMA SunkIs ==
    ASSUME NEW h \in Seq(Items), NEW n, n = Len(h), n >= 1, NEW t, SinksTo(h, t),
           NEW r, r = Sunk(h, t)
    PROVE  /\ r \in Seq(Items) /\ Len(r) = n /\ Shuffled(r, h, n)
           /\ (\A i \in 2..n : Parent(i) # 1 => h[Parent(i)].at <= h[i].at) => InOrder(r)
<1>1. n \in Nat /\ DOMAIN h = 1..n /\ \A i \in 1..n : h[i] \in Items /\ h[i].at \in Int
  <2>1. Len(h) \in Nat /\ DOMAIN h = 1..Len(h) /\ \A i \in 1..Len(h) : h[i] \in Items
      BY LenProperties, ElementOfSeq
  <2>. QED
      BY <2>1 DEF Items
<1>2. PICK U, P : U = Above(t) /\ P = U \ {t}
    OBVIOUS
<1>3. t \in 1..n /\ t \in Nat /\ t >= 1
    BY <1>1 DEF SinksTo
<1>4. /\ U \subseteq 1..t /\ t \in U /\ 1 \in U
      /\ \A k \in U : k >= 2 => Parent(k) \in U
      /\ \A j, k \in U : j >= 2 /\ k >= 2 /\ Parent(j) = Parent(k) => j = k
    BY <1>2, <1>3, ChainAll DEF Chain
<1>5. PICK m : m = [k \in P |-> MinChild(h, k)]
    OBVIOUS
<1>6. P \subseteq 1..n /\ P \subseteq 1..t - 1 /\ P \subseteq Nat /\ U = P \cup {t}
    BY <1>1, <1>2, <1>3, <1>4
<1>7. ASSUME NEW k \in P
      PROVE  /\ m[k] \in U /\ m[k] \in 2..n /\ Parent(m[k]) = k /\ h[m[k]].at < h[1].at
             /\ \A c \in 2..n : Parent(c) = k => h[m[k]].at <= h[c].at
  <2>1. ~Stays(h, k) /\ m[k] \in U /\ m[k] = MinChild(h, k)
      BY <1>2, <1>5 DEF SinksTo, SinksBy
  <2>2. k \in Nat /\ k >= 1 /\ Children(h, k) # {} /\ ~(h[m[k]].at >= h[1].at)
      BY <1>6, <2>1 DEF Stays
  <2>3. m[k] \in Children(h, k) /\ \A c \in Children(h, k) : h[m[k]].at <= h[c].at
      BY <2>1, <2>2, MinChildIs
  <2>4. m[k] \in 2..n /\ Parent(m[k]) = k
      BY <2>2, <2>3, ChildrenAre
  <2>5. \A c \in 2..n : Parent(c) = k => c \in Children(h, k)
      BY <2>2, ChildrenAre
  <2>6. h[m[k]].at < h[1].at
    <3>1. m[k] \in 1..n /\ 1 \in 1..n
        BY <1>1, <2>4
    <3>. QED
        BY <1>1, <2>2, <3>1
  <2>. QED
      BY <2>1, <2>3, <2>4, <2>5, <2>6
<1>8. \A c \in 2..n : Parent(c) = t => h[1].at <= h[c].at
  <2>1. ASSUME NEW c \in 2..n, Parent(c) = t PROVE h[1].at <= h[c].at
    <3>1. c \in Children(h, t)
        BY <1>3, <2>1, ChildrenAre
    <3>2. PICK d : d = MinChild(h, t)
        OBVIOUS
    <3>3. d \in Children(h, t) /\ h[d].at <= h[c].at
        BY <1>3, <3>1, <3>2, MinChildIs
    <3>4. h[d].at >= h[1].at
        BY <3>1, <3>2 DEF SinksTo, Stays
    <3>5. d \in 1..n /\ c \in 1..n /\ 1 \in 1..n
      <4>1. d \in 2..n
          BY <1>3, <3>3, ChildrenAre
      <4>. QED
          BY <1>1, <4>1
    <3>6. h[d].at \in Int /\ h[c].at \in Int /\ h[1].at \in Int
        BY <1>1, <3>5
    <3>. QED
        BY <3>3, <3>4, <3>6
  <2>. QED
      BY <2>1
<1>9. \A k \in 2..n : Parent(k) \in 1..n /\ Parent(k) <= k - 1 /\ k \in 1..n /\ k \in Nat
  <2>1. \A k \in 2..n : k \in Nat /\ k >= 2
      BY <1>1
  <2>2. \A k \in 2..n : Parent(k) \in Nat /\ Parent(k) >= 1 /\ Parent(k) <= k - 1
      BY <2>1, ParentBefore
  <2>. QED
      BY <1>1, <2>2
<1>10. r = [k \in 1..n |-> IF k = t THEN h[1] ELSE IF k \in P THEN h[m[k]] ELSE h[k]]
  <2>1. DOMAIN r = 1..n /\ r = [k \in 1..n |-> r[k]]
      BY <1>1 DEF Sunk
  <2>2. \A k \in 1..n : r[k] = IF k = t THEN h[1] ELSE IF k \in P THEN h[m[k]] ELSE h[k]
      BY <1>1, <1>2, <1>5 DEF Sunk
  <2>. QED
      BY <2>1, <2>2
<1>11. r \in Seq(Items) /\ Len(r) = n
  <2>1. \A k \in 1..n : r[k] \in Items
    <3>1. \A k \in P : m[k] \in 1..n
        BY <1>7, <1>9
    <3>2. 1 \in 1..n
        BY <1>1
    <3>. QED
        BY <1>1, <1>10, <3>1, <3>2
  <2>2. r \in [1..n -> Items]
      BY <1>10, <2>1
  <2>3. r \in Seq(Items)
      BY <1>1, <2>2, SeqDef
  <2>4. DOMAIN r = 1..Len(r) /\ Len(r) \in Nat
      BY <2>3, LenProperties
  <2>. QED
      BY <1>1, <2>2, <2>3, <2>4
<1>12. Shuffled(r, h, n)
  <2>1. PICK p : p = [k \in 1..n |-> IF k = t THEN 1 ELSE IF k \in P THEN m[k] ELSE k]
      OBVIOUS
  <2>2. p \in [1..n -> 1..n]
    <3>1. \A k \in 1..n : p[k] \in 1..n
        BY <1>1, <1>7, <1>9, <2>1
    <3>. QED
        BY <2>1, <3>1
  <2>3. \A k \in 1..n : r[k] = h[p[k]]
      BY <1>1, <1>10, <2>1
  <2>4. ASSUME NEW j \in 1..n, NEW k \in 1..n, p[j] = p[k] PROVE j = k
    <3>1. \A i \in P : m[i] \in U /\ m[i] # 1 /\ Parent(m[i]) = i
        BY <1>1, <1>7
    <3>2. \A i \in 1..n : i # t /\ i \notin P => i \notin U /\ i # 1
        BY <1>4, <1>6
    <3>3. p[j] = IF j = t THEN 1 ELSE IF j \in P THEN m[j] ELSE j
        BY <2>1
    <3>4. p[k] = IF k = t THEN 1 ELSE IF k \in P THEN m[k] ELSE k
        BY <2>1
    <3>. QED
        BY <2>4, <3>1, <3>2, <3>3, <3>4, Zenon
  <2>5. \A j \in 1..n : \E k \in 1..n : p[k] = j
      BY <1>1, <2>2, <2>4, OneToOne
  <2>. QED
      BY <2>2, <2>3, <2>4, <2>5 DEF Shuffled
<1>13. ASSUME \A i \in 2..n : Parent(i) # 1 => h[Parent(i)].at <= h[i].at
       PROVE  InOrder(r)
  <2>1. SUFFICES ASSUME NEW i \in 2..n PROVE r[Parent(i)].at <= r[i].at
      BY <1>11 DEF InOrder
  <2>2. PICK p : p = Parent(i)
      OBVIOUS
  <2>3. p \in 1..n /\ p <= i - 1 /\ i \in 1..n /\ i # p /\ i \in Nat /\ i >= 2
      BY <1>1, <1>9, <2>2
  <2>4. CASE i \in U
    <3>1. p \in P
      <4>1. p \in U
          BY <1>4, <2>2, <2>3, <2>4
      <4>2. p # t
          BY <1>3, <1>4, <2>3, <2>4
      <4>. QED
          BY <1>2, <4>1, <4>2
    <3>2. m[p] = i
      <4>1. m[p] \in U /\ m[p] \in Nat /\ m[p] >= 2 /\ Parent(m[p]) = p
          BY <1>1, <1>7, <3>1
      <4>. QED
          BY <1>4, <2>2, <2>3, <2>4, <4>1
    <3>3. r[p] = h[i] /\ p # t
        BY <1>2, <1>10, <2>3, <3>1, <3>2
    <3>4. CASE i = t
      <4>1. r[i] = h[1]
          BY <1>10, <2>3, <3>4
      <4>2. h[i].at < h[1].at /\ h[i].at \in Int /\ h[1].at \in Int
        <5>1. 1 \in 1..n
            BY <1>1
        <5>. QED
            BY <1>1, <1>7, <2>3, <3>1, <3>2, <5>1
      <4>. QED
          BY <2>2, <3>3, <4>1, <4>2
    <3>5. CASE i \in P
      <4>1. r[i] = h[m[i]]
          BY <1>2, <1>10, <2>3, <3>5
      <4>2. m[i] \in 2..n /\ Parent(m[i]) = i /\ i # 1
          BY <1>7, <2>3, <3>5
      <4>. QED
          BY <1>13, <2>2, <3>3, <4>1, <4>2
    <3>. QED
        BY <1>6, <2>4, <3>4, <3>5
  <2>5. CASE i \notin U
    <3>1. r[i] = h[i]
        BY <1>2, <1>4, <1>10, <2>3, <2>5
    <3>2. CASE p = t
      <4>1. r[p] = h[1]
          BY <1>10, <2>3, <3>2
      <4>. QED
          BY <1>8, <2>2, <3>1, <3>2, <4>1
    <3>3. CASE p \in P
      <4>1. r[p] = h[m[p]]
          BY <1>2, <1>10, <2>3, <3>3
      <4>. QED
          BY <1>7, <2>2, <3>1, <3>3, <4>1
    <3>4. CASE p \notin U
      <4>1. r[p] = h[p] /\ p # 1
          BY <1>2, <1>4, <1>10, <2>3, <3>4
      <4>. QED
          BY <1>13, <2>2, <3>1, <4>1
    <3>. QED
        BY <1>6, <3>2, <3>3, <3>4
  <2>. QED
      BY <2>4, <2>5
<1>. QED
    BY <1>11, <1>12, <1>13

\* r, of m items, holds those of h but the first.
AllButFirst(r, m, h, n) ==
    \E p \in [1..m -> 2..n] :
        /\ \A j, k \in 1..m : p[j] = p[k] => j = k
        /\ \A j \in 2..n : \E k \in 1..m : p[k] = j
        /\ \A k \in 1..m : r[k] = h[p[k]]

\* pop_min: the first item is gone, and nothing else changes.
LEMMA PoppedIs ==
    ASSUME NEW h \in Seq(Items), NEW n, n = Len(h), n >= 1, NEW r, r = Popped(h)
    PROVE  /\ n \in Nat /\ r \in Seq(Items) /\ Len(r) = n - 1
           /\ AllButFirst(r, n - 1, h, n)
           /\ InOrder(h) => InOrder(r)
<1>1. n \in Nat /\ DOMAIN h = 1..n /\ \A i \in 1..n : h[i] \in Items /\ h[i].at \in Int
  <2>1. Len(h) \in Nat /\ DOMAIN h = 1..Len(h) /\ \A i \in 1..Len(h) : h[i] \in Items
      BY LenProperties, ElementOfSeq
  <2>. QED
      BY <2>1 DEF Items
<1>2. CASE n = 1
  <2>1. r = <<>>
      BY <1>2 DEF Popped
  <2>2. r \in Seq(Items) /\ Len(r) = 0
      BY <2>1
  <2>3. PICK p : p = [k \in 1..n - 1 |-> 2]
      OBVIOUS
  <2>4. p \in [1..n - 1 -> 2..n]
      BY <1>2, <2>3
  <2>5. /\ \A j, k \in 1..n - 1 : p[j] = p[k] => j = k
        /\ \A j \in 2..n : \E k \in 1..n - 1 : p[k] = j
        /\ \A k \in 1..n - 1 : r[k] = h[p[k]]
      BY <1>2
  <2>6. InOrder(r)
      BY <2>2 DEF InOrder
  <2>7. AllButFirst(r, n - 1, h, n)
      BY <2>4, <2>5, Zenon DEF AllButFirst
  <2>8. Len(r) = n - 1
      BY <1>2, <2>2
  <2>. QED
      BY <1>1, <2>2, <2>6, <2>7, <2>8
<1>3. CASE n # 1
  <2>1. PICK m : m = n - 1
      OBVIOUS
  <2>2. m \in Nat /\ m >= 1 /\ n = m + 1 /\ 1..m \subseteq 1..n
      BY <1>1, <1>3, <2>1
  <2>3. PICK e, g : e = [h EXCEPT ![1] = h[n]] /\ g = SubSeq(e, 1, m)
      OBVIOUS
  <2>4. e \in Seq(Items) /\ Len(e) = n
    <3>1. 1 \in 1..Len(h) /\ h[n] \in Items
        BY <1>1
    <3>. QED
        BY <2>3, <3>1, ExceptSeq
  <2>5. g \in Seq(Items) /\ Len(g) = m /\ \A k \in 1..m : g[k] = e[k]
    <3>1. 1 \in 1..n + 1 /\ m \in 0..n
        BY <1>1, <2>2
    <3>2. \A k \in 1..m : 1 + k - 1 = k
        BY <2>2
    <3>3. /\ g \in Seq(Items) /\ Len(g) = IF 1 <= m THEN m - 1 + 1 ELSE 0
          /\ \A k \in 1..m - 1 + 1 : g[k] = e[1 + k - 1]
        BY <2>2, <2>3, <2>4, <3>1, SubSeqProperties
    <3>. QED
        BY <2>2, <3>2, <3>3
  <2>6. g[1] = h[n] /\ \A k \in 2..m : g[k] = h[k]
      BY <1>1, <2>2, <2>3, <2>5
  <2>7. PICK t : SinksTo(g, t) /\ r = Sunk(g, t)
    <3>1. r = ShiftDown(g)
        BY <1>3, <2>1, <2>3 DEF Popped
    <3>. QED
        BY <2>2, <2>5, <3>1, ShiftDownIs
  <2>8. /\ r \in Seq(Items) /\ Len(r) = m /\ Shuffled(r, g, m)
        /\ (\A i \in 2..m : Parent(i) # 1 => g[Parent(i)].at <= g[i].at) => InOrder(r)
      BY <2>2, <2>5, <2>7, SunkIs
  <2>9. InOrder(h) => \A i \in 2..m : Parent(i) # 1 => g[Parent(i)].at <= g[i].at
    <3>1. ASSUME InOrder(h), NEW i \in 2..m, Parent(i) # 1
          PROVE  g[Parent(i)].at <= g[i].at
      <4>1. i \in Nat /\ i >= 2 /\ i \in 2..n
          BY <2>2
      <4>2. Parent(i) \in Nat /\ Parent(i) >= 1 /\ Parent(i) <= i - 1
          BY <4>1, ParentBefore
      <4>3. Parent(i) \in 2..m
          BY <2>2, <3>1, <4>2
      <4>. QED
          BY <2>6, <3>1, <4>1, <4>3 DEF InOrder
    <3>. QED
        BY <3>1
  <2>10. PICK q \in [1..m -> 1..m] :
            /\ \A j, k \in 1..m : q[j] = q[k] => j = k
            /\ \A j \in 1..m : \E k \in 1..m : q[k] = j
            /\ \A k \in 1..m : r[k] = g[q[k]]
      BY <2>8 DEF Shuffled
  <2>11. PICK p : p = [k \in 1..m |-> IF q[k] = 1 THEN n ELSE q[k]]
      OBVIOUS
  <2>12. p \in [1..m -> 2..n]
    <3>1. ASSUME NEW k \in 1..m PROVE p[k] \in 2..n
      <4>1. q[k] \in 1..m
          BY <2>10
      <4>. QED
          BY <2>2, <2>11, <4>1
    <3>. QED
        BY <2>11, <3>1
  <2>13. \A j, k \in 1..m : p[j] = p[k] => j = k
    <3>1. \A k \in 1..m : q[k] # n
        BY <2>2, <2>10
    <3>. QED
        BY <2>10, <2>11, <3>1
  <2>14. ASSUME NEW j \in 2..n PROVE \E k \in 1..m : p[k] = j
    <3>1. CASE j = n
      <4>1. 1 \in 1..m
          BY <2>2
      <4>2. PICK k \in 1..m : q[k] = 1
          BY <2>10, <4>1
      <4>. QED
          BY <2>11, <3>1, <4>2
    <3>2. CASE j # n
      <4>1. j \in 1..m /\ j # 1
          BY <1>1, <2>2, <3>2
      <4>2. PICK k \in 1..m : q[k] = j
          BY <2>10, <4>1
      <4>. QED
          BY <2>11, <4>1, <4>2
    <3>. QED
        BY <3>1, <3>2
  <2>15. ASSUME NEW k \in 1..m PROVE r[k] = h[p[k]]
    <3>1. q[k] \in 1..m /\ r[k] = g[q[k]]
        BY <2>10
    <3>2. CASE q[k] = 1
        BY <2>6, <2>11, <3>1, <3>2
    <3>3. CASE q[k] # 1
      <4>1. q[k] \in 2..m
          BY <2>2, <3>1, <3>3
      <4>. QED
          BY <2>6, <2>11, <3>1, <3>3, <4>1
    <3>. QED
        BY <3>2, <3>3
  <2>16. AllButFirst(r, m, h, n)
      BY <2>12, <2>13, <2>14, <2>15, Zenon DEF AllButFirst
  <2>. QED
      BY <1>1, <2>1, <2>8, <2>9, <2>16
<1>. QED
    BY <1>2, <1>3

----------------------------------------------------------------------------
(* What insert, pop_min, the clock and cancel keep of a heap               *)

Times == UNION {-(MaxLate + 2)..d : d \in Delay \cup {0}}

\* The times an item, timerfd_settime or the timerfd may have.
LEMMA TimesAre ==
    /\ Times \subseteq Int /\ Delay \subseteq Times /\ Cancelled \in Times /\ Gone \in Times
    /\ \A v \in Times : v >= Cancelled /\ (v >= Gone => v - 1 \in Times)
    /\ \A v \in Times : v < 0 \/ v \in Times \cap Nat
    /\ 0 \in Times
<1>1. MaxLate \in Nat /\ Delay \subseteq Nat \ {0}
    BY TimerHeapAssumption
<1>2. \A v : v \in Times <=> v \in Int /\ v >= -(MaxLate + 2)
                             /\ \E d \in Delay \cup {0} : v <= d
    BY <1>1 DEF Times
<1>3. Cancelled \in Times /\ Gone \in Times /\ 0 \in Times
    BY <1>1, <1>2 DEF Cancelled, Gone
<1>4. Delay \subseteq Times
    BY <1>1, <1>2
<1>5. ASSUME NEW v \in Times
      PROVE  v \in Int /\ v >= Cancelled /\ (v >= Gone => v - 1 \in Times)
  <2>1. v \in Int /\ v >= -(MaxLate + 2) /\ \E d \in Delay \cup {0} : v <= d
      BY <1>2
  <2>2. PICK d \in Delay \cup {0} : v <= d
      BY <2>1
  <2>3. d \in Nat /\ v - 1 \in Int /\ v - 1 <= d
      BY <1>1, <2>1, <2>2
  <2>4. v >= Gone => v - 1 >= -(MaxLate + 2)
      BY <1>1, <2>1 DEF Gone
  <2>. QED
      BY <1>2, <2>1, <2>3, <2>4 DEF Cancelled
<1>. QED
    BY <1>3, <1>4, <1>5

Distinct(h) ==
    \A i, j \in 1..Len(h) : h[i].eh # None /\ h[i].eh = h[j].eh => i = j
HeapOK(h) == h \in Seq(Items) /\ Distinct(h) /\ \A i \in 1..Len(h) : h[i].at \in Times

\* No cancelled item has touched h.
Clean(h) == InOrder(h) /\ \A i \in 1..Len(h) : h[i].eh # None

HasEh(h, e) == \E i \in 1..Len(h) : h[i].eh = e
HasAt(h, v) == \E i \in 1..Len(h) : h[i].at = v
Beats(h)    == \E e \in Periodic : HasEh(h, e)

\* Inserting the timer of a handler that has none.
LEMMA InsertKeeps ==
    ASSUME NEW h, HeapOK(h), NEW e \in Handler, ~HasEh(h, e), NEW d \in Delay,
           NEW x, x = Item(e, d), NEW r, r = Insert(h, x)
    PROVE  /\ HeapOK(r) /\ Len(h) \in Nat /\ Len(r) = Len(h) + 1
           /\ Clean(h) => Clean(r)
           /\ \A k : HasEh(r, k) <=> HasEh(h, k) \/ k = e
           /\ \A v : HasAt(h, v) => HasAt(r, v)
           /\ \/ Len(h) >= 1 /\ r[1] = h[1]
              \/ r[1].at = d /\ (Len(h) >= 1 => d < h[1].at)
<1>1. x \in Items /\ x.eh = e /\ x.at = d /\ x.at \in Times /\ e # None
  <2>1. d \in Times /\ d \in Int
      BY TimesAre
  <2>. QED
      BY <2>1, TimerHeapAssumption DEF Item, Items
<1>2. PICK n, a, m : n = Len(h) /\ a = Append(h, x) /\ m = n + 1
    OBVIOUS
<1>3. /\ n \in Nat /\ r \in Seq(Items) /\ Len(r) = n + 1
      /\ Shuffled(r, a, m)
      /\ InOrder(h) => InOrder(r)
      /\ (n >= 1 /\ r[1] = h[1]) \/ (r[1] = x /\ (n >= 1 => x.at < h[1].at))
    BY <1>1, <1>2, InsertIs DEF HeapOK
<1>4. /\ a[m] = x /\ \A i \in 1..n : a[i] = h[i]
      /\ m \in Nat /\ m \in 1..m /\ 1..n \subseteq 1..m /\ Len(r) = m
      /\ \A i \in 1..m : i = m \/ i \in 1..n
  <2>1. a[m] = x /\ \A i \in 1..n : a[i] = h[i]
      BY <1>1, <1>2, AppendProperties DEF HeapOK
  <2>. QED
      BY <1>2, <1>3, <2>1
<1>5. PICK p \in [1..m -> 1..m] :
          /\ \A j, k \in 1..m : p[j] = p[k] => j = k
          /\ \A j \in 1..m : \E k \in 1..m : p[k] = j
          /\ \A k \in 1..m : r[k] = a[p[k]]
    BY <1>3 DEF Shuffled
<1>6. \A i \in 1..n : h[i].eh # e
    BY <1>2 DEF HasEh
<1>7. \A i, j \in 1..m : a[i].eh # None /\ a[i].eh = a[j].eh => i = j
  <2>1. \A i, j \in 1..n : h[i].eh # None /\ h[i].eh = h[j].eh => i = j
      BY <1>2 DEF HeapOK, Distinct
  <2>. QED
      BY <1>1, <1>4, <1>6, <2>1
<1>8. HeapOK(r)
  <2>1. Distinct(r)
    <3>1. SUFFICES ASSUME NEW i \in 1..m, NEW j \in 1..m, r[i].eh # None, r[i].eh = r[j].eh
                   PROVE  i = j
        BY <1>4 DEF Distinct
    <3>2. p[i] \in 1..m /\ p[j] \in 1..m /\ r[i] = a[p[i]] /\ r[j] = a[p[j]]
        BY <1>5
    <3>3. p[i] = p[j]
        BY <1>7, <3>1, <3>2
    <3>. QED
        BY <1>5, <3>3
  <2>2. \A i \in 1..m : a[i].at \in Times
      BY <1>1, <1>2, <1>4 DEF HeapOK
  <2>3. \A i \in 1..m : r[i].at \in Times
      BY <1>5, <2>2
  <2>. QED
      BY <1>3, <1>4, <2>1, <2>3 DEF HeapOK
<1>9. Clean(h) => Clean(r)
  <2>1. SUFFICES ASSUME Clean(h) PROVE Clean(r)
      OBVIOUS
  <2>2. \A i \in 1..m : a[i].eh # None
      BY <1>1, <1>2, <1>4, <2>1 DEF Clean
  <2>3. \A i \in 1..m : r[i].eh # None
      BY <1>5, <2>2
  <2>. QED
      BY <1>3, <1>4, <2>1, <2>3 DEF Clean
<1>10. ASSUME NEW k PROVE HasEh(r, k) <=> HasEh(h, k) \/ k = e
  <2>1. (\E i \in 1..m : a[i].eh = k) <=> (\E i \in 1..n : h[i].eh = k) \/ k = e
      BY <1>1, <1>4
  <2>2. (\E i \in 1..m : r[i].eh = k) <=> (\E i \in 1..m : a[i].eh = k)
    <3>1. ASSUME NEW i \in 1..m, r[i].eh = k PROVE \E j \in 1..m : a[j].eh = k
      <4>1. p[i] \in 1..m /\ r[i] = a[p[i]]
          BY <1>5
      <4>. QED
          BY <3>1, <4>1
    <3>2. ASSUME NEW i \in 1..m, a[i].eh = k PROVE \E j \in 1..m : r[j].eh = k
      <4>1. PICK j \in 1..m : p[j] = i
          BY <1>5
      <4>2. r[j] = a[i]
          BY <1>5, <4>1
      <4>. QED
          BY <3>2, <4>2
    <3>. QED
        BY <3>1, <3>2
  <2>. QED
      BY <1>2, <1>4, <2>1, <2>2 DEF HasEh
<1>11. ASSUME NEW v, HasAt(h, v) PROVE HasAt(r, v)
  <2>1. PICK i \in 1..n : h[i].at = v
      BY <1>2, <1>11 DEF HasAt
  <2>2. i \in 1..m /\ a[i].at = v
      BY <1>4, <2>1
  <2>3. PICK k \in 1..m : p[k] = i
      BY <1>5, <2>2
  <2>. QED
      BY <1>4, <1>5, <2>2, <2>3 DEF HasAt
<1>. QED
    BY <1>1, <1>2, <1>3, <1>8, <1>9, <1>10, <1>11

\* Taking the first item out.
LEMMA PoppedKeeps ==
    ASSUME NEW h, HeapOK(h), Len(h) >= 1, NEW r, r = Popped(h)
    PROVE  /\ HeapOK(r) /\ Len(h) \in Nat /\ Len(r) = Len(h) - 1
           /\ Clean(h) => Clean(r)
           /\ \A k : HasEh(r, k) => HasEh(h, k)
           /\ \A k : HasEh(h, k) => HasEh(r, k) \/ k = h[1].eh
           /\ h[1].eh # None => ~HasEh(r, h[1].eh)
           /\ \A v : HasAt(h, v) => HasAt(r, v) \/ v = h[1].at
<1>1. PICK n, m : n = Len(h) /\ m = n - 1
    OBVIOUS
<1>2. /\ n \in Nat /\ r \in Seq(Items) /\ Len(r) = n - 1 /\ AllButFirst(r, n - 1, h, n)
      /\ InOrder(h) => InOrder(r)
    BY <1>1, PoppedIs DEF HeapOK
<1>3. /\ m \in Nat /\ Len(r) = m /\ 1 \in 1..n /\ 2..n \subseteq 1..n
      /\ \A i \in 1..n : i = 1 \/ i \in 2..n
    BY <1>1, <1>2
<1>4. 1 \notin 2..n
    OBVIOUS
<1>5. PICK p \in [1..m -> 2..n] :
          /\ \A j, k \in 1..m : p[j] = p[k] => j = k
          /\ \A j \in 2..n : \E k \in 1..m : p[k] = j
          /\ \A k \in 1..m : r[k] = h[p[k]]
  <2>1. AllButFirst(r, m, h, n)
      BY <1>1, <1>2
  <2>. QED
      BY <2>1, Zenon DEF AllButFirst
<1>6. \A i, j \in 1..n : h[i].eh # None /\ h[i].eh = h[j].eh => i = j
    BY <1>1 DEF HeapOK, Distinct
<1>7. \A k \in 1..m : p[k] \in 2..n /\ p[k] \in 1..n /\ p[k] # 1
    BY <1>3, <1>4, <1>5
<1>8. HeapOK(r)
  <2>1. Distinct(r)
      BY <1>3, <1>5, <1>6, <1>7 DEF Distinct
  <2>2. \A i \in 1..n : h[i].at \in Times
      BY <1>1 DEF HeapOK
  <2>3. \A i \in 1..m : r[i].at \in Times
      BY <1>5, <1>7, <2>2
  <2>. QED
      BY <1>2, <1>3, <2>1, <2>3 DEF HeapOK
<1>9. Clean(h) => Clean(r)
  <2>1. SUFFICES ASSUME Clean(h) PROVE Clean(r)
      OBVIOUS
  <2>2. \A i \in 1..n : h[i].eh # None
      BY <1>1, <2>1 DEF Clean
  <2>3. \A i \in 1..m : r[i].eh # None
      BY <1>5, <1>7, <2>2
  <2>. QED
      BY <1>2, <1>3, <2>1, <2>3 DEF Clean
<1>10. ASSUME NEW k, HasEh(r, k) PROVE HasEh(h, k)
  <2>1. PICK i \in 1..m : r[i].eh = k
      BY <1>3, <1>10 DEF HasEh
  <2>2. p[i] \in 1..n /\ h[p[i]].eh = k
      BY <1>5, <1>7, <2>1
  <2>. QED
      BY <1>1, <2>2 DEF HasEh
<1>11. ASSUME NEW k, HasEh(h, k) PROVE HasEh(r, k) \/ k = h[1].eh
  <2>1. PICK i \in 1..n : h[i].eh = k
      BY <1>1, <1>11 DEF HasEh
  <2>2. SUFFICES ASSUME i \in 2..n PROVE HasEh(r, k)
      BY <1>3, <2>1
  <2>3. PICK j \in 1..m : p[j] = i
      BY <1>5, <2>2
  <2>. QED
      BY <1>3, <1>5, <2>1, <2>3 DEF HasEh
<1>12. ASSUME h[1].eh # None PROVE ~HasEh(r, h[1].eh)
  <2>1. SUFFICES ASSUME NEW i \in 1..m, r[i].eh = h[1].eh PROVE FALSE
      BY <1>3 DEF HasEh
  <2>2. p[i] \in 1..n /\ p[i] # 1 /\ h[p[i]].eh = h[1].eh
      BY <1>5, <1>7, <2>1
  <2>. QED
      BY <1>3, <1>6, <1>12, <2>2
<1>13. ASSUME NEW v, HasAt(h, v) PROVE HasAt(r, v) \/ v = h[1].at
  <2>1. PICK i \in 1..n : h[i].at = v
      BY <1>1, <1>13 DEF HasAt
  <2>2. SUFFICES ASSUME i \in 2..n PROVE HasAt(r, v)
      BY <1>3, <2>1
  <2>3. PICK j \in 1..m : p[j] = i
      BY <1>5, <2>2
  <2>. QED
      BY <1>3, <1>5, <2>1, <2>3 DEF HasAt
<1>. QED
    BY <1>1, <1>2, <1>8, <1>9, <1>10, <1>11, <1>12, <1>13

\* One tick nearer, or overdue by MaxLate.
Nearer(v) == IF v > -MaxLate THEN v - 1 ELSE v

\* A tick keeps the order of times.
LEMMA NearerIs ==
    /\ \A v \in Times : Nearer(v) \in Times
    /\ \A v, w \in Times : v <= w => Nearer(v) <= Nearer(w)
    /\ \A v \in Times : v > 0 => Nearer(v) = v - 1
    /\ \A v \in Times : Nearer(v) > 0 => v > 0
<1>1. MaxLate \in Nat
    BY TimerHeapAssumption
<1>2. ASSUME NEW v \in Times PROVE Nearer(v) \in Times
  <2>1. v \in Int /\ (v >= Gone => v - 1 \in Times)
      BY TimesAre
  <2>. QED
      BY <1>1, <2>1 DEF Nearer, Gone
<1>3. \A v \in Times : v \in Int
    BY TimesAre
<1>. QED
    BY <1>1, <1>2, <1>3 DEF Nearer

Ticked(r, h) ==
    r = [i \in DOMAIN h |->
           IF h[i].at > -MaxLate THEN [h[i] EXCEPT !.at = @ - 1] ELSE h[i]]

\* A tick keeps the heap.
LEMMA TickKeeps ==
    ASSUME NEW h, HeapOK(h), NEW n, n = Len(h), NEW r, Ticked(r, h)
    PROVE  /\ HeapOK(r) /\ n \in Nat /\ Len(r) = n
           /\ \A i \in 1..n : r[i].at = Nearer(h[i].at) /\ r[i].eh = h[i].eh
           /\ Clean(h) => Clean(r)
<1>1. n \in Nat /\ DOMAIN h = 1..n /\ \A i \in 1..n : h[i] \in Items
    BY LenProperties, ElementOfSeq DEF HeapOK
<1>2. ASSUME NEW i \in 1..n
      PROVE  r[i] \in Items /\ r[i].at = Nearer(h[i].at) /\ r[i].eh = h[i].eh
    BY <1>1 DEF Ticked, Nearer, Items
<1>3. r \in Seq(Items) /\ Len(r) = n
  <2>1. r \in [1..n -> Items]
      BY <1>1, <1>2 DEF Ticked
  <2>2. r \in Seq(Items)
      BY <1>1, <2>1, SeqDef
  <2>3. DOMAIN r = 1..Len(r) /\ Len(r) \in Nat
      BY <2>2, LenProperties
  <2>. QED
      BY <1>1, <2>1, <2>2, <2>3
<1>4. \A i \in 1..n : h[i].at \in Times
    BY DEF HeapOK
<1>5. HeapOK(r)
  <2>1. Distinct(r)
      BY <1>2, <1>3 DEF HeapOK, Distinct
  <2>2. \A i \in 1..n : r[i].at \in Times
      BY <1>2, <1>4, NearerIs
  <2>. QED
      BY <1>3, <2>1, <2>2 DEF HeapOK
<1>6. ASSUME Clean(h) PROVE Clean(r)
  <2>1. \A i \in 1..n : r[i].eh # None
      BY <1>2, <1>6 DEF Clean
  <2>2. ASSUME NEW i \in 2..n PROVE r[Parent(i)].at <= r[i].at
    <3>1. i \in Nat /\ i >= 2 /\ i \in 1..n
        BY <1>1
    <3>2. Parent(i) \in Nat /\ Parent(i) >= 1 /\ Parent(i) <= i - 1
        BY <3>1, ParentBefore
    <3>3. Parent(i) \in 1..n
        BY <1>1, <3>1, <3>2
    <3>4. h[Parent(i)].at <= h[i].at
        BY <1>6 DEF Clean, InOrder
    <3>5. Nearer(h[Parent(i)].at) <= Nearer(h[i].at)
        BY <1>4, <3>1, <3>3, <3>4, NearerIs
    <3>. QED
        BY <1>2, <3>1, <3>3, <3>5
  <2>. QED
      BY <1>3, <2>1, <2>2 DEF Clean, InOrder
<1>. QED
    BY <1>1, <1>2, <1>3, <1>5, <1>6

\* cancel in place keeps everything but the order.
LEMMA CancelKeeps ==
    ASSUME NEW h, HeapOK(h), NEW i \in 1..Len(h), NEW r,
           r = [h EXCEPT ![i] = Item(None, Cancelled)]
    PROVE  /\ HeapOK(r) /\ Len(r) = Len(h) /\ Len(h) \in Nat
           /\ \A k : HasEh(h, k) => HasEh(r, k) \/ k = h[i].eh
<1>1. PICK x, n : x = Item(None, Cancelled) /\ n = Len(h)
    OBVIOUS
<1>2. x \in Items /\ x.eh = None /\ x.at \in Times
  <2>1. Cancelled \in Times /\ Cancelled \in Int
      BY TimesAre
  <2>. QED
      BY <1>1, <2>1 DEF Item, Items
<1>3. r \in Seq(Items) /\ Len(r) = n /\ n \in Nat
  <2>1. h \in Seq(Items) /\ Len(h) \in Nat
      BY LenProperties DEF HeapOK
  <2>. QED
      BY <1>1, <1>2, <2>1, ExceptSeq
<1>4. \A j \in 1..n : r[j] = IF j = i THEN x ELSE h[j]
  <2>1. h \in Seq(Items)
      BY DEF HeapOK
  <2>. QED
      BY <1>1, <1>2, <2>1, ExceptSeq
<1>5. HeapOK(r)
  <2>1. Distinct(r)
      BY <1>1, <1>2, <1>3, <1>4 DEF HeapOK, Distinct
  <2>2. \A j \in 1..n : r[j].at \in Times
      BY <1>1, <1>2, <1>4 DEF HeapOK
  <2>. QED
      BY <1>3, <2>1, <2>2 DEF HeapOK
<1>6. ASSUME NEW k, HasEh(h, k) PROVE HasEh(r, k) \/ k = h[i].eh
    BY <1>1, <1>3, <1>4, <1>6 DEF HasEh
<1>. QED
    BY <1>1, <1>3, <1>5, <1>6

\* In a heap in order, the first item is the earliest.
LEMMA FirstIsLeast ==
    ASSUME NEW h, HeapOK(h), InOrder(h), NEW i \in 1..Len(h)
    PROVE  h[1].at <= h[i].at
<1>1. PICK n : n = Len(h) /\ n \in Nat
    BY LenProperties DEF HeapOK
<1>2. \A j \in 1..n : h[j].at \in Int
    BY <1>1, TimesAre DEF HeapOK
<1>3. PICK B : B = {j \in Nat : j \in 1..n /\ ~(h[1].at <= h[j].at)}
    OBVIOUS
<1>4. SUFFICES ASSUME B # {} PROVE FALSE
    BY <1>1, <1>3
<1>5. PICK k \in B : \A j \in B : k <= j
    BY <1>3, <1>4, LeastOf
<1>6. k \in Nat /\ k \in 1..n /\ ~(h[1].at <= h[k].at)
    BY <1>3
<1>7. k >= 2
    BY <1>1, <1>2, <1>6
<1>8. Parent(k) \in Nat /\ Parent(k) >= 1 /\ Parent(k) <= k - 1
    BY <1>6, <1>7, ParentBefore
<1>9. Parent(k) \in 1..n /\ ~(k <= Parent(k)) /\ k \in 2..n /\ 1 \in 1..n
    BY <1>1, <1>6, <1>7, <1>8
<1>10. h[1].at <= h[Parent(k)].at
    BY <1>3, <1>5, <1>8, <1>9
<1>11. h[Parent(k)].at <= h[k].at
    BY <1>1, <1>9 DEF InOrder
<1>. QED
    BY <1>2, <1>6, <1>9, <1>10, <1>11

----------------------------------------------------------------------------
(* The invariant                                                           *)

Types ==
    /\ HeapOK(heap) /\ Len(heap) <= MaxItems
    /\ settime \in Times /\ armed \in {Off} \cup (Times \cap Nat)
    /\ expiring \in BOOLEAN /\ intact \in BOOLEAN

\* Between two rounds of handle_expired, a heap with an item has an armed timerfd.
Awake == ~expiring /\ Len(heap) >= 1 => armed # Off

\* Without a periodic timer, timerfd_settime is either in the past or up to date.
Fresh ==
    ~Beats(heap) /\ settime > 0 =>
        /\ ~expiring => armed = settime
        /\ expiring => Len(heap) >= 1 /\ heap[1].at = settime

\* As long as nothing was cancelled, the heap is in order, the timerfd is armed for its
\* first item, and timerfd_settime is in the past or the time of an item of the heap.
Whole ==
    intact =>
        /\ Clean(heap)
        /\ settime > 0 => HasAt(heap, settime)
        /\ ~expiring /\ Len(heap) >= 1 => armed <= heap[1].at \/ armed = 0

HInv == Types /\ Awake /\ Fresh /\ Whole

\* The first item of a heap that has one.
LEMMA FirstItem ==
    ASSUME NEW h, HeapOK(h), Len(h) >= 1
    PROVE  1 \in 1..Len(h) /\ h[1].at \in Times /\ h[1].at \in Int /\ h[1].eh \in Handler \cup {None}
           /\ Len(h) \in Nat
<1>1. Len(h) \in Nat /\ h \in Seq(Items)
    BY LenProperties DEF HeapOK
<1>2. 1 \in 1..Len(h)
    BY <1>1
<1>3. h[1].at \in Times /\ h[1] \in Items
    BY <1>1, <1>2, ElementOfSeq DEF HeapOK
<1>. QED
    BY <1>1, <1>2, <1>3 DEF Items

LEMMA EmptyIs == ASSUME NEW h, HeapOK(h) PROVE h = <<>> <=> ~(Len(h) >= 1)
<1>1. h \in Seq(Items) /\ Len(h) \in Nat
    BY LenProperties DEF HeapOK
<1>. QED
    BY <1>1, EmptySeq

LEMMA WaitsIs ==
    ASSUME HeapOK(heap), NEW h \in Handler
    PROVE  Waits(h) <=> HasEh(heap, h)
<1>1. DOMAIN heap = 1..Len(heap)
    BY LenProperties DEF HeapOK
<1>2. h # None
    BY TimerHeapAssumption
<1>. QED
    BY <1>1, <1>2 DEF Waits, Live, HasEh

\* What the proofs use of the constants.
LEMMA ConstantsAre ==
    /\ Off = -1 /\ Off \notin Nat /\ None \notin Handler /\ Periodic \subseteq Handler
    /\ Cancelled < 0 /\ Gone < 0 /\ Delay \subseteq Nat \ {0} /\ Delay \subseteq Int /\ MaxItems \in Nat
    /\ Cancelled \in Int /\ Cancelled < Gone /\ Gone \in Int
BY TimerHeapAssumption DEF Off, Cancelled, Gone

\* Each step keeps the invariant.
LEMMA InitHolds == Init => HInv
<1>1. SUFFICES ASSUME Init PROVE HInv
    OBVIOUS
<1>2. heap = <<>> /\ settime = Gone /\ armed = Off /\ expiring = FALSE /\ intact = TRUE
    BY <1>1 DEF Init
<1>3. heap \in Seq(Items) /\ Len(heap) = 0
    BY <1>2
<1>4. HeapOK(heap) /\ Clean(heap)
    BY <1>3 DEF HeapOK, Distinct, Clean, InOrder
<1>5. Types
  <2>1. expiring \in BOOLEAN /\ intact \in BOOLEAN
      BY <1>2
  <2>2. Len(heap) <= MaxItems
      BY <1>3, ConstantsAre
  <2>3. settime \in Times /\ armed \in {Off} \cup (Times \cap Nat)
      BY <1>2, TimesAre
  <2>. QED
      BY <1>4, <2>1, <2>2, <2>3 DEF Types
<1>6. Awake /\ Fresh /\ Whole
    BY <1>2, <1>3, <1>4, ConstantsAre DEF Awake, Fresh, Whole
<1>. QED
    BY <1>5, <1>6 DEF HInv

LEMMA TickHolds == HInv /\ Tick => HInv'
<1>1. SUFFICES ASSUME HInv, Tick PROVE HInv'
    OBVIOUS
<1>2. /\ ~expiring /\ expiring' = expiring /\ intact' = intact
      /\ settime' = IF settime > Gone THEN settime - 1 ELSE settime
      /\ armed' = IF armed > 0 THEN armed - 1 ELSE armed
    BY <1>1 DEF Tick
<1>3. Types /\ Awake /\ Fresh /\ Whole
    BY <1>1 DEF HInv
<1>4. /\ HeapOK(heap) /\ Len(heap) <= MaxItems /\ settime \in Times /\ settime \in Int
      /\ armed \in {Off} \cup (Times \cap Nat) /\ expiring \in BOOLEAN /\ intact \in BOOLEAN
    BY <1>3, TimesAre DEF Types
<1>5. PICK n, r : n = Len(heap) /\ r = heap'
    OBVIOUS
<1>6. /\ HeapOK(r) /\ n \in Nat /\ Len(r) = n
      /\ \A i \in 1..n : r[i].at = Nearer(heap[i].at) /\ r[i].eh = heap[i].eh
      /\ Clean(heap) => Clean(r)
  <2>1. Ticked(r, heap)
      BY <1>1, <1>5, Zenon DEF Tick, Ticked
  <2>. QED
      BY <1>4, <1>5, <2>1, TickKeeps
<1>7. n >= 1 => 1 \in 1..n /\ heap[1].at \in Times /\ heap[1].at \in Int
    BY <1>4, <1>5, FirstItem
<1>8. Types'
  <2>1. settime' \in Times
      BY <1>2, <1>4, TimesAre, ConstantsAre
  <2>2. armed' \in {Off} \cup (Times \cap Nat)
    <3>1. CASE armed > 0
      <4>1. armed \in Times /\ armed \in Nat /\ armed >= Gone
          BY <1>4, <3>1, ConstantsAre
      <4>. QED
          BY <1>2, <3>1, <4>1, TimesAre
    <3>2. CASE ~(armed > 0)
        BY <1>2, <1>4, <3>2
    <3>. QED
        BY <3>1, <3>2
  <2>. QED
      BY <1>2, <1>4, <1>5, <1>6, <2>1, <2>2 DEF Types
<1>9. armed # Off => armed' # Off /\ armed' \in Nat
    BY <1>2, <1>4, ConstantsAre
<1>10. Awake'
    BY <1>2, <1>3, <1>5, <1>6, <1>9 DEF Awake
<1>11. settime' > 0 => settime > 0 /\ settime' = settime - 1
    BY <1>2, <1>4, ConstantsAre
<1>12. Fresh'
  <2>1. SUFFICES ASSUME ~Beats(r), settime' > 0 PROVE armed' = settime'
      BY <1>2, <1>5 DEF Fresh
  <2>2. ~Beats(heap)
    <3>1. \A k : HasEh(heap, k) => HasEh(r, k)
        BY <1>5, <1>6 DEF HasEh
    <3>. QED
        BY <2>1, <3>1 DEF Beats
  <2>3. armed = settime
      BY <1>2, <1>3, <1>11, <2>1, <2>2 DEF Fresh
  <2>. QED
      BY <1>2, <1>4, <1>11, <2>1, <2>3
<1>13. Whole'
  <2>1. SUFFICES ASSUME intact
                 PROVE  /\ Clean(r)
                        /\ settime' > 0 => HasAt(r, settime')
                        /\ n >= 1 => armed' <= r[1].at \/ armed' = 0
      BY <1>2, <1>5, <1>6 DEF Whole
  <2>2. Clean(r)
      BY <1>3, <1>6, <2>1 DEF Whole
  <2>3. ASSUME settime' > 0 PROVE HasAt(r, settime')
    <3>1. PICK i \in 1..n : heap[i].at = settime
        BY <1>3, <1>5, <1>11, <2>1, <2>3 DEF Whole, HasAt
    <3>2. r[i].at = settime'
        BY <1>4, <1>6, <1>11, <2>3, <3>1, NearerIs
    <3>. QED
        BY <1>6, <3>1, <3>2 DEF HasAt
  <2>4. ASSUME n >= 1 PROVE armed' <= r[1].at \/ armed' = 0
    <3>1. armed # Off /\ (armed <= heap[1].at \/ armed = 0)
        BY <1>2, <1>3, <1>5, <2>1, <2>4 DEF Awake, Whole
    <3>2. armed = 0 => armed' = 0
        BY <1>2
    <3>3. ASSUME armed # 0 PROVE armed' <= r[1].at
      <4>1. armed \in Nat /\ armed > 0 /\ heap[1].at > 0
          BY <1>4, <1>7, <2>4, <3>1, <3>3
      <4>2. r[1].at = heap[1].at - 1
          BY <1>6, <1>7, <2>4, <4>1, NearerIs
      <4>. QED
          BY <1>2, <1>7, <2>4, <3>1, <3>3, <4>1, <4>2
    <3>. QED
        BY <3>2, <3>3
  <2>. QED
      BY <2>2, <2>3, <2>4
<1>. QED
    BY <1>8, <1>10, <1>12, <1>13 DEF HInv

LEMMA StartHolds == ASSUME NEW h \in Handler PROVE HInv /\ Start(h) => HInv'
<1>1. SUFFICES ASSUME HInv, Start(h) PROVE HInv'
    OBVIOUS
<1>2. PICK d \in Delay : Schedule(h, d)
    BY <1>1 DEF Start
<1>3. ~expiring /\ ~Waits(h) /\ Len(heap) < MaxItems /\ expiring' = expiring /\ intact' = intact
    BY <1>1 DEF Start
<1>4. PICK r : r = heap'
    OBVIOUS
<1>5. /\ r = Insert(heap, Item(h, d))
      /\ r[1].at # settime =>
            /\ settime' = r[1].at
            /\ armed' = IF r[1].at = Cancelled THEN armed ELSE IF r[1].at < 1 THEN 0 ELSE r[1].at
      /\ r[1].at = settime => settime' = settime /\ armed' = armed
    BY <1>2, <1>4 DEF Schedule, AdjustTimerfd
<1>6. Types /\ Awake /\ Fresh /\ Whole
    BY <1>1 DEF HInv
<1>7. /\ HeapOK(heap) /\ Len(heap) <= MaxItems /\ settime \in Times /\ settime \in Int
      /\ armed \in {Off} \cup (Times \cap Nat) /\ expiring \in BOOLEAN /\ intact \in BOOLEAN
    BY <1>6, TimesAre DEF Types
<1>8. ~HasEh(heap, h)
    BY <1>3, <1>7, WaitsIs
<1>9. /\ HeapOK(r) /\ Len(heap) \in Nat /\ Len(r) = Len(heap) + 1
      /\ Clean(heap) => Clean(r)
      /\ \A k : HasEh(r, k) <=> HasEh(heap, k) \/ k = h
      /\ \A v : HasAt(heap, v) => HasAt(r, v)
      /\ \/ Len(heap) >= 1 /\ r[1] = heap[1]
         \/ r[1].at = d /\ (Len(heap) >= 1 => d < heap[1].at)
    BY <1>5, <1>7, <1>8, InsertKeeps
<1>10. Len(r) >= 1 /\ 1 \in 1..Len(r) /\ r[1].at \in Times /\ r[1].at \in Int /\ d \in Int /\ d > 0
  <2>1. Len(r) >= 1
      BY <1>9
  <2>. QED
      BY <1>9, <2>1, FirstItem, ConstantsAre
<1>11. Types'
  <2>1. settime' \in Times
      BY <1>5, <1>7, <1>10
  <2>2. armed' \in {Off} \cup (Times \cap Nat)
      BY <1>5, <1>7, <1>10, TimesAre
  <2>3. Len(r) <= MaxItems
      BY <1>3, <1>9, ConstantsAre
  <2>. QED
      BY <1>3, <1>4, <1>7, <1>9, <2>1, <2>2, <2>3 DEF Types
<1>12. ~Beats(r) => ~Beats(heap)
    BY <1>9 DEF Beats
<1>13. Len(heap) = 0 => ~Beats(heap)
    BY DEF Beats, HasEh
<1>14. Awake'
  <2>1. Len(heap) >= 1 => armed # Off
      BY <1>3, <1>6 DEF Awake
  <2>2. CASE r[1].at # settime
    <3>1. Len(heap) = 0 => r[1].at # Cancelled
        BY <1>9, <1>10, ConstantsAre
    <3>2. armed' # Off
        BY <1>5, <1>7, <1>9, <1>10, <2>1, <2>2, <3>1, ConstantsAre
    <3>. QED
        BY <3>2 DEF Awake
  <2>3. CASE r[1].at = settime
    <3>1. CASE Len(heap) = 0
      <4>1. settime > 0 /\ armed = settime
          BY <1>3, <1>6, <1>9, <1>10, <1>13, <2>3, <3>1 DEF Fresh
      <4>. QED
          BY <1>5, <2>3, <4>1, ConstantsAre DEF Awake
    <3>2. CASE Len(heap) >= 1
        BY <1>5, <2>1, <2>3, <3>2 DEF Awake
    <3>. QED
        BY <1>9, <3>1, <3>2
  <2>. QED
      BY <2>2, <2>3
<1>15. Fresh'
  <2>1. SUFFICES ASSUME ~Beats(r), settime' > 0 PROVE armed' = settime'
      BY <1>3, <1>4 DEF Fresh
  <2>2. CASE r[1].at # settime
      BY <1>5, <1>10, <2>1, <2>2, ConstantsAre
  <2>3. CASE r[1].at = settime
      BY <1>3, <1>5, <1>6, <1>12, <2>1, <2>3 DEF Fresh
  <2>. QED
      BY <2>2, <2>3
<1>16. Whole'
  <2>1. SUFFICES ASSUME intact
                 PROVE  /\ Clean(r)
                        /\ settime' > 0 => HasAt(r, settime')
                        /\ armed' <= r[1].at \/ armed' = 0
      BY <1>3, <1>4 DEF Whole
  <2>2. Clean(heap) /\ (settime > 0 => HasAt(heap, settime))
        /\ (Len(heap) >= 1 => armed <= heap[1].at \/ armed = 0)
      BY <1>3, <1>6, <2>1 DEF Whole
  <2>3. ASSUME settime' > 0 PROVE HasAt(r, settime')
    <3>1. CASE r[1].at # settime
        BY <1>5, <1>10, <3>1 DEF HasAt
    <3>2. CASE r[1].at = settime
        BY <1>5, <1>9, <2>2, <2>3, <3>2
    <3>. QED
        BY <3>1, <3>2
  <2>4. CASE r[1].at # settime
    <3>1. CASE r[1].at = Cancelled
      <4>1. Len(heap) >= 1 /\ r[1] = heap[1] /\ armed' = armed
          BY <1>5, <1>9, <1>10, <2>4, <3>1, ConstantsAre
      <4>. QED
          BY <1>9, <2>2, <2>3, <4>1
    <3>2. CASE r[1].at # Cancelled
        BY <1>5, <1>9, <1>10, <2>2, <2>3, <2>4, <3>2
    <3>. QED
        BY <3>1, <3>2
  <2>5. CASE r[1].at = settime
    <3>1. armed <= r[1].at \/ armed = 0
      <4>1. CASE Len(heap) >= 1 /\ r[1] = heap[1]
          BY <2>2, <4>1
      <4>2. CASE r[1].at = d /\ (Len(heap) >= 1 => d < heap[1].at)
        <5>1. PICK i \in 1..Len(heap) : heap[i].at = d
            BY <1>10, <2>2, <2>5, <4>2 DEF HasAt
        <5>2. heap[1].at <= heap[i].at
            BY <1>7, <2>2, FirstIsLeast DEF Clean
        <5>3. Len(heap) >= 1 /\ heap[1].at \in Int
          <6>1. Len(heap) >= 1
              BY <1>9, <5>1
          <6>. QED
              BY <1>7, <6>1, FirstItem
        <5>. QED
            BY <1>10, <4>2, <5>1, <5>2, <5>3
      <4>. QED
          BY <1>9, <4>1, <4>2
    <3>. QED
        BY <1>5, <1>9, <2>2, <2>3, <2>5, <3>1
  <2>. QED
      BY <2>4, <2>5
<1>. QED
    BY <1>11, <1>14, <1>15, <1>16 DEF HInv

LEMMA CancelHolds == ASSUME NEW h \in Handler PROVE HInv /\ Cancel(h) => HInv'
<1>1. SUFFICES ASSUME HInv, Cancel(h) PROVE HInv'
    OBVIOUS
<1>2. /\ Types /\ Awake /\ Fresh /\ ~expiring /\ h \notin Periodic /\ intact' = FALSE
      /\ settime' = settime /\ armed' = armed /\ expiring' = expiring
    BY <1>1 DEF HInv, Cancel
<1>3. HeapOK(heap) /\ DOMAIN heap = 1..Len(heap)
    BY <1>2, LenProperties DEF Types, HeapOK
<1>4. PICK i \in 1..Len(heap) : heap[i].eh = h /\ heap' = [heap EXCEPT ![i] = Item(None, Cancelled)]
    BY <1>1, <1>3 DEF Cancel, Live
<1>5. PICK r : r = heap'
    OBVIOUS
<1>6. /\ HeapOK(r) /\ Len(r) = Len(heap) /\ Len(heap) \in Nat
      /\ \A k : HasEh(heap, k) => HasEh(r, k) \/ k = h
    BY <1>3, <1>4, <1>5, CancelKeeps
<1>7. Types'
  <2>1. intact' \in BOOLEAN
      BY <1>2
  <2>. QED
      BY <1>2, <1>5, <1>6, <2>1 DEF Types
<1>8. Awake'
    BY <1>2, <1>5, <1>6 DEF Awake
<1>9. Fresh'
  <2>1. ~Beats(r) => ~Beats(heap)
      BY <1>2, <1>6 DEF Beats
  <2>. QED
      BY <1>2, <1>5, <2>1 DEF Fresh
<1>10. Whole'
    BY <1>2 DEF Whole
<1>. QED
    BY <1>7, <1>8, <1>9, <1>10 DEF HInv

LEMMA OnReadHolds == HInv /\ OnRead => HInv'
<1>1. SUFFICES ASSUME HInv, OnRead PROVE HInv'
    OBVIOUS
<1>2. /\ Types /\ Fresh /\ Whole /\ ~expiring /\ armed = 0 /\ armed' = Off /\ expiring' = TRUE
      /\ heap' = heap /\ settime' = settime /\ intact' = intact
    BY <1>1 DEF HInv, OnRead
<1>3. Types'
  <2>1. expiring' \in BOOLEAN
      BY <1>2
  <2>. QED
      BY <1>2, <2>1 DEF Types
<1>4. Awake' /\ Fresh' /\ Whole'
    BY <1>2 DEF Awake, Fresh, Whole
<1>. QED
    BY <1>3, <1>4 DEF HInv

LEMMA DropCancelledHolds == HInv /\ DropCancelled => HInv'
<1>1. SUFFICES ASSUME HInv, DropCancelled PROVE HInv'
    OBVIOUS
<1>2. /\ Types /\ Fresh /\ Whole
      /\ expiring /\ heap # <<>> /\ heap[1].at <= 0 /\ heap[1].eh = None
      /\ settime' = settime /\ armed' = armed /\ expiring' = expiring
      /\ intact' = (intact \/ heap' = <<>>)
    BY <1>1 DEF HInv, DropCancelled, Due
<1>3. PICK r : r = heap' /\ r = Popped(heap)
    BY <1>1 DEF DropCancelled
<1>4. HeapOK(heap) /\ Len(heap) >= 1 /\ settime \in Int
    BY <1>2, EmptyIs, TimesAre DEF Types
<1>5. 1 \in 1..Len(heap) /\ heap[1].at \in Int /\ Len(heap) \in Nat
    BY <1>4, FirstItem
<1>6. /\ HeapOK(r) /\ Len(r) = Len(heap) - 1
      /\ \A k : HasEh(heap, k) => HasEh(r, k) \/ k = None
    BY <1>2, <1>3, <1>4, PoppedKeeps
<1>7. Types'
  <2>1. intact' \in BOOLEAN
      BY <1>2
  <2>2. Len(r) <= MaxItems
      BY <1>2, <1>5, <1>6, ConstantsAre DEF Types
  <2>. QED
      BY <1>2, <1>3, <1>6, <2>1, <2>2 DEF Types
<1>8. Awake'
    BY <1>2 DEF Awake
<1>9. ~Beats(r) => ~(settime > 0)
  <2>1. ~Beats(r) => ~Beats(heap)
      BY <1>6, ConstantsAre DEF Beats
  <2>. QED
      BY <1>2, <1>4, <1>5, <2>1 DEF Fresh
<1>10. Fresh'
    BY <1>2, <1>3, <1>9 DEF Fresh
<1>11. Whole'
  <2>1. SUFFICES ASSUME intact' PROVE Clean(r) /\ ~(settime > 0)
      BY <1>2, <1>3 DEF Whole
  <2>2. ~intact
      BY <1>2, <1>5 DEF Whole, Clean
  <2>3. r = <<>>
      BY <1>2, <1>3, <2>1, <2>2
  <2>4. Len(r) = 0
      BY <2>3
  <2>. QED
      BY <1>9, <2>4 DEF Clean, InOrder, Beats, HasEh
<1>. QED
    BY <1>7, <1>8, <1>10, <1>11 DEF HInv

LEMMA EndExpiredHolds == HInv /\ EndExpired => HInv'
<1>1. SUFFICES ASSUME HInv, EndExpired PROVE HInv'
    OBVIOUS
<1>2. /\ Types /\ Fresh /\ Whole /\ expiring /\ (heap = <<>> \/ ~(heap[1].at <= 0))
      /\ heap' = heap /\ settime' = settime /\ intact' = intact /\ expiring' = FALSE
      /\ heap = <<>> => armed' = armed
      /\ heap # <<>> => armed' = IF heap[1].at = Cancelled THEN armed
                                  ELSE IF heap[1].at < 1 THEN 0 ELSE heap[1].at
    BY <1>1 DEF HInv, EndExpired, Due, AdjustTimerfd
<1>3. HeapOK(heap) /\ (heap = <<>> <=> ~(Len(heap) >= 1)) /\ settime \in Int
    BY <1>2, EmptyIs, TimesAre DEF Types
<1>4. ASSUME Len(heap) >= 1
      PROVE  heap[1].at \in Times \cap Nat /\ heap[1].at > 0 /\ armed' = heap[1].at
  <2>1. heap[1].at \in Times /\ heap[1].at \in Int /\ heap[1].at > 0
      BY <1>2, <1>3, <1>4, FirstItem
  <2>. QED
      BY <1>2, <1>3, <1>4, <2>1, ConstantsAre
<1>5. Types'
  <2>1. expiring' \in BOOLEAN
      BY <1>2
  <2>2. armed' \in {Off} \cup (Times \cap Nat)
      BY <1>2, <1>3, <1>4 DEF Types
  <2>. QED
      BY <1>2, <2>1, <2>2 DEF Types
<1>6. Awake'
    BY <1>2, <1>4, ConstantsAre DEF Awake
<1>7. Fresh'
    BY <1>2, <1>4 DEF Fresh
<1>8. Whole'
    BY <1>2, <1>4 DEF Whole
<1>. QED
    BY <1>5, <1>6, <1>7, <1>8 DEF HInv

\* g is the heap after on_timeout of a handler e, which may have scheduled a timer.
TimedOut(g, e) ==
    /\ HeapOK(g) /\ Len(g) \in Nat /\ Len(g) < MaxItems /\ ~HasEh(g, e)
    /\ \A k : HasEh(heap, k) => HasEh(g, k) \/ k = e
    /\ Clean(heap) => Clean(g)
    /\ settime' \in Times /\ armed' \in {Off} \cup (Times \cap Nat)
    /\ settime' > 0 => settime' = settime \/ (Len(g) >= 1 /\ g[1].at = settime')
    /\ settime' > 0 /\ (settime > 0 => HasAt(heap, settime)) => HasAt(g, settime')

\* on_timeout of the first item, whether it schedules another timer or not.
LEMMA ExpireIs ==
    ASSUME HInv, Expire, NEW e, e = heap[1].eh
    PROVE  \E g : /\ TimedOut(g, e)
                  /\ \/ e \notin Periodic /\ heap' = g
                     \/ e \in Periodic /\ \E d \in Delay : heap' = Insert(g, Item(e, d))
<1>1. /\ Types /\ heap # <<>> /\ heap[1].at <= 0 /\ e # None
    BY DEF HInv, Expire, Due
<1>2. HeapOK(heap) /\ Len(heap) >= 1 /\ Len(heap) <= MaxItems
      /\ settime \in Times /\ settime \in Int /\ armed \in {Off} \cup (Times \cap Nat)
    BY <1>1, EmptyIs, TimesAre DEF Types
<1>3. heap[1].at \in Int /\ Len(heap) \in Nat /\ e \in Handler
    BY <1>1, <1>2, FirstItem
<1>4. PICK h : h = Popped(heap)
    OBVIOUS
<1>5. /\ HeapOK(h) /\ Len(h) = Len(heap) - 1
      /\ Clean(heap) => Clean(h)
      /\ \A k : HasEh(h, k) => HasEh(heap, k)
      /\ \A k : HasEh(heap, k) => HasEh(h, k) \/ k = e
      /\ ~HasEh(h, e)
      /\ \A v : HasAt(heap, v) => HasAt(h, v) \/ v = heap[1].at
    BY <1>1, <1>2, <1>4, PoppedKeeps
<1>6. ASSUME settime > 0, HasAt(heap, settime) PROVE HasAt(h, settime)
    BY <1>1, <1>2, <1>3, <1>5, <1>6
<1>7. CASE /\ heap' \in IF e \in Periodic THEN {Insert(h, Item(e, d)) : d \in Delay} ELSE {h}
           /\ settime' = settime /\ armed' = armed
  <2>1. TimedOut(h, e)
      BY <1>2, <1>3, <1>5, <1>6, <1>7, ConstantsAre DEF TimedOut
  <2>2. \/ e \notin Periodic /\ heap' = h
        \/ e \in Periodic /\ \E d \in Delay : heap' = Insert(h, Item(e, d))
      BY <1>7
  <2>. QED
      BY <2>1, <2>2
<1>8. ASSUME NEW new \in Handler, NEW delay \in Delay, NEW g, g = Insert(h, Item(new, delay)),
             new # e, ~Waits(new), Len(heap) < MaxItems,
             IF g[1].at # settime
             THEN AdjustTimerfd(g[1].at) /\ settime' = g[1].at
             ELSE UNCHANGED <<armed, settime>>,
             heap' \in IF e \in Periodic THEN {Insert(g, Item(e, d)) : d \in Delay} ELSE {g}
      PROVE  /\ TimedOut(g, e)
             /\ \/ e \notin Periodic /\ heap' = g
                \/ e \in Periodic /\ \E d \in Delay : heap' = Insert(g, Item(e, d))
  <2>1. ~HasEh(heap, new) /\ ~HasEh(h, new)
      BY <1>2, <1>5, <1>8, WaitsIs
  <2>2. /\ HeapOK(g) /\ Len(g) = Len(h) + 1
        /\ Clean(h) => Clean(g)
        /\ \A k : HasEh(g, k) <=> HasEh(h, k) \/ k = new
        /\ \A v : HasAt(h, v) => HasAt(g, v)
      BY <1>5, <1>8, <2>1, InsertKeeps
  <2>3. Len(g) = Len(heap) /\ Len(g) \in Nat /\ Len(g) >= 1 /\ Len(g) < MaxItems
      BY <1>2, <1>3, <1>5, <1>8, <2>2
  <2>4. 1 \in 1..Len(g) /\ g[1].at \in Times /\ g[1].at \in Int
      BY <2>2, <2>3, FirstItem
  <2>5. /\ settime' = g[1].at
        /\ \/ armed' = armed \/ armed' = 0 \/ (armed' = g[1].at /\ ~(g[1].at < 1))
      BY <1>8 DEF AdjustTimerfd
  <2>6. armed' \in {Off} \cup (Times \cap Nat)
      BY <1>2, <2>4, <2>5, TimesAre
  <2>7. HasAt(g, settime')
      BY <2>4, <2>5 DEF HasAt
  <2>8. TimedOut(g, e)
      BY <1>5, <1>8, <2>2, <2>3, <2>4, <2>5, <2>6, <2>7 DEF TimedOut
  <2>9. \/ e \notin Periodic /\ heap' = g
        \/ e \in Periodic /\ \E d \in Delay : heap' = Insert(g, Item(e, d))
      BY <1>8
  <2>. QED
      BY <2>8, <2>9
<1>9. CASE \E new \in Handler, delay \in Delay :
               /\ new # e /\ ~Waits(new) /\ Len(heap) < MaxItems
               /\ IF Insert(h, Item(new, delay))[1].at # settime
                  THEN AdjustTimerfd(Insert(h, Item(new, delay))[1].at)
                       /\ settime' = Insert(h, Item(new, delay))[1].at
                  ELSE UNCHANGED <<armed, settime>>
               /\ heap' \in IF e \in Periodic
                            THEN {Insert(Insert(h, Item(new, delay)), Item(e, d)) : d \in Delay}
                            ELSE {Insert(h, Item(new, delay))}
    BY <1>8, <1>9, Zenon
<1>10. Expire => \/ /\ heap' \in IF e \in Periodic THEN {Insert(h, Item(e, d)) : d \in Delay} ELSE {h}
                    /\ settime' = settime /\ armed' = armed
                 \/ \E new \in Handler, delay \in Delay :
                      /\ new # e /\ ~Waits(new) /\ Len(heap) < MaxItems
                      /\ IF Insert(h, Item(new, delay))[1].at # settime
                         THEN AdjustTimerfd(Insert(h, Item(new, delay))[1].at)
                              /\ settime' = Insert(h, Item(new, delay))[1].at
                         ELSE UNCHANGED <<armed, settime>>
                      /\ heap' \in IF e \in Periodic
                                   THEN {Insert(Insert(h, Item(new, delay)), Item(e, d)) : d \in Delay}
                                   ELSE {Insert(h, Item(new, delay))}
    BY <1>4, Zenon DEF Expire
<1>. QED
    BY <1>7, <1>9, <1>10, Zenon

LEMMA ExpireHolds == HInv /\ Expire => HInv'
<1>1. SUFFICES ASSUME HInv, Expire PROVE HInv'
    OBVIOUS
<1>2. /\ Types /\ Fresh /\ Whole /\ expiring /\ heap # <<>> /\ heap[1].at <= 0
      /\ heap[1].eh # None /\ expiring' = expiring /\ intact' = (intact \/ heap' = <<>>)
    BY <1>1 DEF HInv, Expire, Due
<1>3. PICK e, r : e = heap[1].eh /\ r = heap'
    OBVIOUS
<1>4. HeapOK(heap) /\ Len(heap) >= 1 /\ settime \in Int
    BY <1>2, EmptyIs, TimesAre DEF Types
<1>5. heap[1].at \in Int /\ Len(heap) \in Nat /\ e \in Handler
    BY <1>2, <1>3, <1>4, FirstItem
<1>6. PICK g : /\ TimedOut(g, e)
               /\ \/ e \notin Periodic /\ heap' = g
                  \/ e \in Periodic /\ \E d \in Delay : heap' = Insert(g, Item(e, d))
    BY <1>1, <1>3, ExpireIs
<1>7. /\ HeapOK(g) /\ Len(g) \in Nat /\ Len(g) < MaxItems /\ ~HasEh(g, e)
      /\ \A k : HasEh(heap, k) => HasEh(g, k) \/ k = e
      /\ Clean(heap) => Clean(g)
      /\ settime' \in Times /\ settime' \in Int /\ armed' \in {Off} \cup (Times \cap Nat)
      /\ settime' > 0 => settime' = settime \/ (Len(g) >= 1 /\ g[1].at = settime')
      /\ settime' > 0 /\ (settime > 0 => HasAt(heap, settime)) => HasAt(g, settime')
    BY <1>6, TimesAre DEF TimedOut
<1>8. /\ HeapOK(r) /\ Len(r) \in Nat /\ Len(r) <= MaxItems
      /\ Clean(g) => Clean(r)
      /\ \A v : HasAt(g, v) => HasAt(r, v)
      /\ e \in Periodic => Beats(r)
      /\ e \notin Periodic => r = g
  <2>1. CASE e \notin Periodic /\ r = g
      BY <1>7, <2>1, ConstantsAre
  <2>2. CASE e \in Periodic /\ \E d \in Delay : r = Insert(g, Item(e, d))
    <3>1. PICK d \in Delay : r = Insert(g, Item(e, d))
        BY <2>2
    <3>2. /\ HeapOK(r) /\ Len(r) = Len(g) + 1
          /\ Clean(g) => Clean(r)
          /\ \A k : HasEh(r, k) <=> HasEh(g, k) \/ k = e
          /\ \A v : HasAt(g, v) => HasAt(r, v)
        BY <1>5, <1>7, <3>1, InsertKeeps
    <3>3. Beats(r)
        BY <2>2, <3>2 DEF Beats
    <3>4. Len(r) \in Nat /\ Len(r) <= MaxItems
        BY <1>7, <3>2, ConstantsAre
    <3>. QED
        BY <2>2, <3>2, <3>3, <3>4
  <2>. QED
      BY <1>3, <1>6, <2>1, <2>2
<1>9. Types'
  <2>1. intact' \in BOOLEAN
      BY <1>2
  <2>. QED
      BY <1>2, <1>3, <1>7, <1>8, <2>1 DEF Types
<1>10. Awake'
    BY <1>2 DEF Awake
<1>11. ASSUME ~Beats(r), settime' > 0
       PROVE  Len(r) >= 1 /\ r[1].at = settime'
  <2>1. e \notin Periodic /\ r = g
      BY <1>8, <1>11
  <2>2. ~Beats(heap)
      BY <1>7, <1>11, <2>1 DEF Beats
  <2>3. settime' # settime
      BY <1>2, <1>4, <1>5, <1>11, <2>2 DEF Fresh
  <2>. QED
      BY <1>7, <1>11, <2>1, <2>3
<1>12. Fresh'
    BY <1>2, <1>3, <1>11 DEF Fresh
<1>13. Whole'
  <2>1. SUFFICES ASSUME intact' PROVE Clean(r) /\ (settime' > 0 => HasAt(r, settime'))
      BY <1>2, <1>3 DEF Whole
  <2>2. CASE intact
      BY <1>2, <1>7, <1>8, <2>2 DEF Whole
  <2>3. CASE r = <<>>
    <3>1. Len(r) = 0
        BY <2>3
    <3>2. Clean(r) /\ ~Beats(r)
        BY <3>1 DEF Clean, InOrder, Beats, HasEh
    <3>. QED
        BY <1>11, <3>1, <3>2
  <2>. QED
      BY <1>2, <1>3, <2>1, <2>2, <2>3
<1>. QED
    BY <1>9, <1>10, <1>12, <1>13 DEF HInv

LEMMA StutterHolds == HInv /\ UNCHANGED vars => HInv'
BY DEF vars, HInv, Types, Awake, Fresh, Whole

\* The invariant holds in every reachable state.
THEOREM HeapInvariant == Spec => []HInv
<1>1. HInv /\ [Next]_vars => HInv'
  <2>1. SUFFICES ASSUME HInv, [Next]_vars PROVE HInv'
      OBVIOUS
  <2>2. CASE Tick
      BY <2>1, <2>2, TickHolds
  <2>3. CASE HandleExpired
    <3>1. OnRead \/ DropCancelled \/ Expire \/ EndExpired
        BY <2>3 DEF HandleExpired
    <3>. QED
        BY <2>1, <3>1, OnReadHolds, DropCancelledHolds, ExpireHolds, EndExpiredHolds
  <2>4. CASE \E h \in Handler : Start(h) \/ Cancel(h)
      BY <2>1, <2>4, StartHolds, CancelHolds
  <2>5. CASE UNCHANGED vars
      BY <2>1, <2>5, StutterHolds
  <2>. QED
      BY <2>1, <2>2, <2>3, <2>4, <2>5 DEF Next
<1>. QED
    BY <1>1, InitHolds, PTL DEF Spec

LEMMA LiveIs ==
    ASSUME HeapOK(heap)
    PROVE  Live = {i \in 1..Len(heap) : heap[i].eh # None} /\ DOMAIN heap = 1..Len(heap)
BY LenProperties DEF HeapOK, Live

\* Every variable keeps its type: no time leaves its range, and the heap never has more
\* than MaxItems items (schedule and handle_expired, timer_qheap.cpp).
THEOREM TypeCorrect == Spec => []TypeOK
<1>1. HInv => TypeOK
  <2>1. SUFFICES ASSUME HInv PROVE TypeOK
      OBVIOUS
  <2>2. Types /\ HeapOK(heap) /\ DOMAIN heap = 1..Len(heap)
      BY <2>1, LiveIs DEF HInv, Types
  <2>3. \A i \in DOMAIN heap : heap[i] \in [eh : Handler \cup {None}, at : Times]
    <3>1. ASSUME NEW i \in 1..Len(heap)
          PROVE  heap[i] \in [eh : Handler \cup {None}, at : Times]
      <4>1. heap[i] \in Items /\ heap[i].at \in Times
          BY <2>2, ElementOfSeq DEF HeapOK
      <4>. QED
          BY <4>1 DEF Items
    <3>. QED
        BY <2>2, <3>1
  <2>. QED
      BY <2>2, <2>3 DEF TypeOK, Types, Times
<1>. QED
    BY <1>1, HeapInvariant, PTL

\* A handler never has two items in the heap: shift_up and shift_down move items without
\* losing or doubling one, and a periodic handler is inserted again only after pop_min took
\* its item out.
THEOREM OneTimerEach == Spec => []OneItemEach
<1>1. HInv => OneItemEach
  <2>1. SUFFICES ASSUME HInv PROVE OneItemEach
      OBVIOUS
  <2>2. HeapOK(heap)
      BY <2>1 DEF HInv, Types
  <2>. QED
      BY <2>2, LiveIs DEF OneItemEach, HeapOK, Distinct
<1>. QED
    BY <1>1, HeapInvariant, PTL

\* As long as nothing was cancelled, pop_min takes the earliest live timer.
THEOREM MinimumFirst == Spec => []MinIsFirst
<1>1. HInv => MinIsFirst
  <2>1. SUFFICES ASSUME HInv, intact, NEW i \in Live PROVE heap[1].at <= heap[i].at
      BY DEF MinIsFirst
  <2>2. HeapOK(heap) /\ InOrder(heap)
      BY <2>1 DEF HInv, Types, Whole, Clean
  <2>3. i \in 1..Len(heap)
      BY <2>1, <2>2, LiveIs
  <2>. QED
      BY <2>2, <2>3, FirstIsLeast
<1>. QED
    BY <1>1, HeapInvariant, PTL

\* As long as nothing was cancelled, the timerfd is armed for the earliest live timer or
\* before, whatever timerfd_settime has been left at by handle_expired.
THEOREM WakesInTime == Spec => []ArmedInTime
<1>1. HInv => ArmedInTime
  <2>1. SUFFICES ASSUME HInv, intact, ~expiring, NEW i \in Live
                 PROVE  armed # Off /\ (armed <= heap[i].at \/ armed = 0)
      BY DEF ArmedInTime
  <2>2. HeapOK(heap) /\ InOrder(heap) /\ armed \in {Off} \cup (Times \cap Nat)
      BY <2>1 DEF HInv, Types, Whole, Clean
  <2>3. i \in 1..Len(heap) /\ Len(heap) \in Nat
      BY <2>1, <2>2, LiveIs, LenProperties DEF HeapOK
  <2>4. Len(heap) >= 1
      BY <2>3
  <2>5. armed # Off /\ (armed <= heap[1].at \/ armed = 0)
      BY <2>1, <2>4 DEF HInv, Awake, Whole
  <2>6. heap[1].at <= heap[i].at
      BY <2>2, <2>3, FirstIsLeast
  <2>7. heap[1].at \in Int /\ heap[i].at \in Int /\ armed \in Int
    <3>1. heap[1].at \in Int /\ heap[i].at \in Int
        BY <2>2, <2>3, <2>4, FirstItem, TimesAre DEF HeapOK
    <3>2. armed \in Int
        BY <2>2, ConstantsAre
    <3>. QED
        BY <3>1, <3>2
  <2>. QED
      BY <2>5, <2>6, <2>7
<1>. QED
    BY <1>1, HeapInvariant, PTL

\* With or without cancellations, a waiting timer never finds the timerfd not armed.
THEOREM AlwaysArmed == Spec => []NeverDead
<1>1. HInv => NeverDead
  <2>1. SUFFICES ASSUME HInv, ~expiring, NEW i \in Live PROVE armed # Off
      BY DEF NeverDead
  <2>2. HeapOK(heap)
      BY <2>1 DEF HInv, Types
  <2>3. i \in 1..Len(heap) /\ Len(heap) \in Nat
      BY <2>1, <2>2, LiveIs, LenProperties DEF HeapOK
  <2>4. Len(heap) >= 1
      BY <2>3
  <2>. QED
      BY <2>1, <2>4 DEF HInv, Awake
<1>. QED
    BY <1>1, HeapInvariant, PTL

=============================================================================
