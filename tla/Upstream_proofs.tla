--------------------------- MODULE Upstream_proofs ---------------------------
(***************************************************************************)
(* The backends of one app, for any list of backends, weights and changes   *)
(* by the admin: what the verdicts of a health check do to a backend, and   *)
(* what the balancing keeps of each backend's credit.                      *)
(*                                                                         *)
(* Health: the invariant ties the counter ok_times to the verdicts it has   *)
(* counted: health_check_ok_times alone does not say they came in a row.    *)
(*                                                                         *)
(* Credit: a bound on each current is not inductive, for a pick lends to    *)
(* one backend what it takes from the others.  SharesBounded bounds the     *)
(* credit of every SET of backends: those of a set that gains hold no more  *)
(* each than the one picked, which is outside and about to pay.             *)
(***************************************************************************)
EXTENDS Upstream, FiniteSetTheorems, WellFoundedInduction, TLAPS

\* Every check that failed is told to the app.
AllTold == "sync_fail" \notin cf.events

Types ==
    /\ offline \in [Backend -> BOOLEAN] /\ ok_times \in [Backend -> 0..3]
    /\ last \in [Backend -> [1..3 -> Verdict]]

\* The last ok_times[b] verdicts were good.
CountIsRun ==
    AllTold => \A b \in Backend : \A i \in 1..3 : i <= ok_times[b] => last[b][i] = "good"

HInv == Types /\ FailedCheckTakesOffline /\ CountIsRun

\* What one step does to the health of the backends: nothing, or one verdict on one of
\* them.
Untouched == UNCHANGED <<offline, ok_times, last, cf>>

Bad(b) == BackendOffline(b) /\ UNCHANGED cf

Good(b) == BackendOnline(b) /\ UNCHANGED cf

Untold(b) == ~AllTold /\ Note(b, "bad") /\ UNCHANGED <<offline, ok_times, cf>>

HealthStep == Untouched \/ \E b \in Backend : Bad(b) \/ Good(b) \/ Untold(b)

----------------------------------------------------------------------------
\* Every step of the app and of its checks does one of these.
LEMMA StepsOfHealth ==
    ASSUME UpstreamAssumption, cf \in Configs, [Next]_uvars
    PROVE  HealthStep
<1>1. CASE Pick
    BY <1>1 DEF Pick, health, HealthStep, Untouched
<1>2. ASSUME NEW b \in cf.list, NEW w \in cf.weights, SetWeight(b, w)
      PROVE  HealthStep
    BY <1>2 DEF SetWeight, health, HealthStep, Untouched
<1>3. ASSUME NEW b \in cf.list, NEW s \in BOOLEAN, SetDown(b, s)
      PROVE  HealthStep
    BY <1>3 DEF SetDown, health, HealthStep, Untouched
<1>4. cf.list \subseteq Backend
    BY DEF UpstreamAssumption
<1>5. ASSUME NEW b \in cf.list, CheckStart(b) \/ CheckOpen(b) \/ CheckConnectFail(b)
                                 \/ CheckUnanswered(b) \/ \E late \in BOOLEAN : CheckAnswered(b, late)
      PROVE  HealthStep
  <2>1. b \in Backend
      BY <1>4, <1>5
  <2>2. CASE CheckStart(b)
      BY <2>1, <2>2 DEF CheckStart, SetCheck, HealthStep, Untouched, Untold, AllTold
  <2>3. CASE CheckOpen(b)
      BY <2>1, <2>3 DEF CheckOpen, SetCheck, HealthStep, Untouched, Bad
  <2>4. CASE CheckConnectFail(b)
      BY <2>1, <2>4 DEF CheckConnectFail, SetCheck, HealthStep, Bad
  <2>5. CASE CheckUnanswered(b)
      BY <2>1, <2>5 DEF CheckUnanswered, SetCheck, HealthStep, Bad
  <2>6. ASSUME NEW late \in BOOLEAN, CheckAnswered(b, late)
        PROVE  HealthStep
      BY <2>1, <2>6 DEF CheckAnswered, SetCheck, HealthStep, Bad, Good
  <2>. QED
      BY <1>5, <2>2, <2>3, <2>4, <2>5, <2>6
<1>6. CASE UNCHANGED uvars
    BY <1>6 DEF uvars, health, HealthStep, Untouched
<1>. QED
    BY <1>1, <1>2, <1>3, <1>5, <1>6 DEF Next

\* A verdict moves the older ones back by one place.
LEMMA NoteShifts ==
    ASSUME NEW b \in Backend, NEW v \in Verdict, last \in [Backend -> [1..3 -> Verdict]],
           Note(b, v)
    PROVE  /\ last' \in [Backend -> [1..3 -> Verdict]]
           /\ last'[b][1] = v /\ last'[b][2] = last[b][1] /\ last'[b][3] = last[b][2]
           /\ \A c \in Backend : c # b => last'[c] = last[c]
<1>1. last[b] \in [1..3 -> Verdict] /\ last[b][1] \in Verdict /\ last[b][2] \in Verdict
    OBVIOUS
<1>2. last'[b] = <<v, last[b][1], last[b][2]>>
    BY DEF Note
<1>3. <<v, last[b][1], last[b][2]>> \in [1..3 -> Verdict]
    BY <1>1
<1>4. last' \in [Backend -> [1..3 -> Verdict]] /\ \A c \in Backend : c # b => last'[c] = last[c]
    BY <1>3 DEF Note
<1>. QED
    BY <1>2, <1>4

LEMMA HInvStep ==
    ASSUME UpstreamAssumption, HInv, HealthStep
    PROVE  HInv'
<1>. USE DEF HInv, Types, FailedCheckTakesOffline, CountIsRun, AllTold
<1>1. CASE Untouched
    BY <1>1 DEF Untouched
<1>2. ASSUME NEW b \in Backend, Bad(b)
      PROVE  HInv'
  <2>1. cf' = cf /\ ok_times' = [ok_times EXCEPT ![b] = 0]
             /\ offline' = [offline EXCEPT ![b] = TRUE] /\ Note(b, "bad")
      BY <1>2 DEF Bad, BackendOffline
  <2>2. /\ last' \in [Backend -> [1..3 -> Verdict]] /\ last'[b][1] = "bad"
        /\ \A c \in Backend : c # b => last'[c] = last[c]
      BY <2>1, NoteShifts DEF Verdict
  <2>3. Types'
    <3>1. offline' \in [Backend -> BOOLEAN]
        BY <2>1
    <3>2. ok_times' \in [Backend -> 0..3]
      <4>1. 0 \in 0..3
          OBVIOUS
      <4>. HIDE DEF FailedCheckTakesOffline, CountIsRun
      <4>. QED
          BY <2>1, <4>1
    <3>. QED
        BY <2>2, <3>1, <3>2
  <2>4. FailedCheckTakesOffline'
      BY <2>1, <2>2
  <2>5. ASSUME AllTold, NEW c \in Backend, NEW i \in 1..3, i <= ok_times'[c]
        PROVE  last'[c][i] = "good"
    <3>1. c # b
        BY <2>1, <2>5
    <3>. QED
        BY <2>1, <2>2, <2>5, <3>1
  <2>. QED
      BY <2>1, <2>3, <2>4, <2>5
<1>3. ASSUME NEW b \in Backend, Good(b)
      PROVE  HInv'
  <2>1. /\ cf' = cf /\ ok_times' = [ok_times EXCEPT ![b] = OneMoreOk(b)]
        /\ offline' = [offline EXCEPT ![b] = @ /\ OneMoreOk(b) <= 2] /\ Note(b, "good")
      BY <1>3 DEF Good, BackendOnline
  <2>2. /\ last' \in [Backend -> [1..3 -> Verdict]]
        /\ last'[b][1] = "good" /\ last'[b][2] = last[b][1] /\ last'[b][3] = last[b][2]
        /\ \A c \in Backend : c # b => last'[c] = last[c]
      BY <2>1, NoteShifts DEF Verdict
  <2>3. OneMoreOk(b) \in 0..3 /\ OneMoreOk(b) <= ok_times[b] + 1
    <3>1. ok_times[b] \in 0..3
        OBVIOUS
    <3>. QED
        BY <3>1 DEF OneMoreOk
  <2>4. Types'
      BY <2>1, <2>2, <2>3
  <2>5. FailedCheckTakesOffline'
      BY <2>1, <2>2
  <2>6. ASSUME AllTold, NEW c \in Backend, NEW i \in 1..3, i <= ok_times'[c]
        PROVE  last'[c][i] = "good"
    <3>1. CASE c = b
      <4>1. i = 1 \/ (i - 1 \in 1..3 /\ i - 1 <= ok_times[b])
        <5>1. i <= OneMoreOk(b) /\ OneMoreOk(b) <= ok_times[b] + 1
            BY <2>1, <2>3, <2>6, <3>1
        <5>2. ok_times[b] \in 0..3 /\ OneMoreOk(b) \in 0..3
            BY <2>3
        <5>3. \A o, m \in 0..3 : i <= m /\ m <= o + 1 => i = 1 \/ (i - 1 \in 1..3 /\ i - 1 <= o)
            OBVIOUS
        <5>. QED
            BY <5>1, <5>2, <5>3
      <4>. QED
          BY <2>2, <2>6, <3>1, <4>1
    <3>. QED
        BY <2>1, <2>2, <2>6, <3>1
  <2>. QED
      BY <2>1, <2>4, <2>5, <2>6
<1>4. ASSUME NEW b \in Backend, Untold(b)
      PROVE  HInv'
  <2>1. last' \in [Backend -> [1..3 -> Verdict]]
      BY <1>4, NoteShifts DEF Untold, Verdict
  <2>. QED
      BY <1>4, <2>1 DEF Untold
<1>. QED
    BY <1>1, <1>2, <1>3, <1>4 DEF HealthStep

LEMMA HInvInit == ASSUME Init PROVE HInv
BY DEF Init, HInv, Types, FailedCheckTakesOffline, CountIsRun, Verdict

LEMMA ConfigFixed ==
    ASSUME cf \in Configs, [Next]_uvars
    PROVE  (cf \in Configs)'
BY DEF Next, uvars, Pick, SetWeight, SetDown, CheckStart, CheckOpen, CheckConnectFail,
       CheckUnanswered, CheckAnswered, SetCheck

----------------------------------------------------------------------------
LEMMA HInvAlways == Spec => []HInv
<1>. USE UpstreamAssumption
<1>1. Init => HInv /\ cf \in Configs
    BY HInvInit DEF Init
<1>2. HInv /\ cf \in Configs /\ [Next]_uvars => HInv' /\ (cf \in Configs)'
    BY HInvStep, StepsOfHealth, ConfigFixed
<1>. QED
    BY <1>1, <1>2, PTL DEF Spec

\* A backend whose last check failed is offline (health_check.cpp:60, niubix.json:48), for
\* any backends, weights and admin calls, unless a check's connect can fail at once.
THEOREM FailureTakesOffline == Spec => []FailedCheckTakesOffline
<1>1. HInv => FailedCheckTakesOffline
    BY DEF HInv
<1>. QED
    BY <1>1, HInvAlways, PTL

\* A backend goes from offline to online only when the last three checks were good
\* (niubix.json:48, app.cpp:209), whatever failures, timeouts and late answers came before.
THEOREM ThreeBringOnline == Spec => OnlineNeedsThree
<1>. USE UpstreamAssumption
<1>1. Init => HInv /\ cf \in Configs
    BY HInvInit DEF Init
<1>2. HInv /\ cf \in Configs /\ [Next]_uvars => HInv' /\ (cf \in Configs)'
    BY HInvStep, StepsOfHealth, ConfigFixed
<1>3. ASSUME HInv, cf \in Configs, [Next]_uvars,
             NEW b \in Backend, offline[b], ~offline'[b], AllTold
      PROVE  \A i \in 1..3 : last'[b][i] = "good"
  <2>1. HealthStep
      BY <1>3, StepsOfHealth
  <2>2. PICK c \in Backend : Good(c)
      BY <1>3, <2>1 DEF HealthStep, Untouched, Bad, BackendOffline, Untold, HInv, Types
  <2>3. b = c /\ OneMoreOk(b) = 3 /\ Note(b, "good")
      BY <1>3, <2>2 DEF Good, BackendOnline, OneMoreOk, HInv, Types
  <2>4. 1 <= ok_times[b] /\ 2 <= ok_times[b]
      BY <1>3, <2>3 DEF OneMoreOk, HInv, Types
  <2>5. last[b][1] = "good" /\ last[b][2] = "good"
      BY <1>3, <2>4 DEF HInv, CountIsRun
  <2>6. last'[b][1] = "good" /\ last'[b][2] = last[b][1] /\ last'[b][3] = last[b][2]
      BY <1>3, <2>3, NoteShifts DEF Verdict, HInv, Types
  <2>. QED
      BY <2>5, <2>6
<1>4. HInv /\ cf \in Configs /\ [Next]_uvars =>
        [\A b \in Backend : offline[b] /\ ~offline'[b] =>
            "sync_fail" \in cf.events \/ \A i \in 1..3 : last'[b][i] = "good"]_uvars
    BY <1>3 DEF AllTold
<1>. QED
    BY <1>1, <1>2, <1>4, PTL DEF Spec, OnlineNeedsThree

----------------------------------------------------------------------------
(* Sums over a finite set of backends: the sum is unique and is there, so   *)
(* that any element may be taken out first.                                *)

Some(s) == CHOOSE x \in s : TRUE

\* g sums f over each subset of S.
Sums(g, f, S) ==
    g = [s \in SUBSET S |-> IF s = {} THEN 0 ELSE f[Some(s)] + g[s \ {Some(s)}]]

LEMMA TotalIs ==
    ASSUME NEW f, NEW S
    PROVE  Total(f, S) = (CHOOSE g : Sums(g, f, S))[S]
BY DEF Total, MapThenSumSet, MapThenFoldSet, Sums, Some

\* Of the subsets of a finite set that are bad one has no smaller one that is bad.
LEMMA LeastSubset ==
    ASSUME NEW S, IsFiniteSet(S), NEW B \in SUBSET (SUBSET S), B # {}
    PROVE  \E s \in B : \A t \in B : ~(t \subseteq s /\ t # s)
<1>1. PICK s \in B : \A t \in B : <<t, s>> \notin StrictSubsetOrdering(S)
    BY FS_StrictSubsetOrderingWellFounded, FS_FiniteSubsetsOfFinite, WFMin
<1>. QED
    BY <1>1 DEF StrictSubsetOrdering

LEMMA SumsUnique ==
    ASSUME NEW f, NEW S, IsFiniteSet(S), NEW T, T \subseteq S,
           NEW g, Sums(g, f, S), NEW h, Sums(h, f, T)
    PROVE  \A s \in SUBSET T : g[s] = h[s]
<1>. DEFINE B == {s \in SUBSET T : g[s] # h[s]}
<1>1. SUFFICES ASSUME B # {} PROVE FALSE
    OBVIOUS
<1>2. IsFiniteSet(T)
    BY FS_Subset
<1>9. B \in SUBSET (SUBSET T)
    OBVIOUS
<1>3. PICK s \in B : \A t \in B : ~(t \subseteq s /\ t # s)
  <2>. HIDE DEF B
  <2>. QED
      BY <1>1, <1>2, <1>9, LeastSubset
<1>4. s # {}
    BY DEF Sums
<1>5. Some(s) \in s
    BY <1>4 DEF Some
<1>. DEFINE t == s \ {Some(s)}
<1>6. t \in SUBSET T /\ t \subseteq s /\ t # s
    BY <1>5
<1>7. g[t] = h[t]
    BY <1>3, <1>6
<1>8. g[s] = f[Some(s)] + g[t] /\ h[s] = f[Some(s)] + h[t]
    BY <1>4, <1>6 DEF Sums
<1>. QED
    BY <1>7, <1>8

LEMMA SumsAgree ==
    ASSUME NEW f, NEW S, IsFiniteSet(S), NEW g, Sums(g, f, S), NEW h, Sums(h, f, S)
    PROVE  g[S] = h[S]
<1>1. S \subseteq S /\ S \in SUBSET S
    OBVIOUS
<1>. QED
    BY <1>1, SumsUnique

LEMMA SumsExists ==
    ASSUME NEW f, NEW S, IsFiniteSet(S)
    PROVE  \E g : Sums(g, f, S)
<1>. DEFINE B == {s \in SUBSET S : ~\E g : Sums(g, f, s)}
<1>1. SUFFICES ASSUME B # {} PROVE FALSE
    OBVIOUS
<1>9. B \in SUBSET (SUBSET S)
    OBVIOUS
<1>2. PICK s \in B : \A t \in B : ~(t \subseteq s /\ t # s)
  <2>. HIDE DEF B
  <2>. QED
      BY <1>1, <1>9, LeastSubset
<1>3. \A t \in SUBSET s : t # s => \E g : Sums(g, f, t)
    BY <1>2
<1>. DEFINE k(t) == CHOOSE g : Sums(g, f, t)
            g == [t \in SUBSET s |-> IF t = {} THEN 0
                                     ELSE f[Some(t)] + k(t \ {Some(t)})[t \ {Some(t)}]]
<1>4. ASSUME NEW t \in SUBSET s, t # s PROVE g[t] = k(t)[t]
  <2>1. Sums(k(t), f, t)
      BY <1>3, <1>4
  <2>2. CASE t = {}
      BY <2>1, <2>2 DEF Sums
  <2>3. CASE t # {}
    <3>. DEFINE u == t \ {Some(t)}
    <3>1. Some(t) \in t
        BY <2>3 DEF Some
    <3>2. u \in SUBSET t /\ u \in SUBSET s /\ u # s
        BY <3>1
    <3>3. Sums(k(u), f, u)
        BY <1>3, <3>2
    <3>4. IsFiniteSet(t)
        BY FS_Subset, <1>2
    <3>5. k(t)[u] = k(u)[u]
        BY <2>1, <3>2, <3>3, <3>4, SumsUnique
    <3>6. k(t)[t] = f[Some(t)] + k(t)[u]
        BY <2>1, <2>3 DEF Sums
    <3>. QED
        BY <2>3, <3>5, <3>6
  <2>. QED
      BY <2>2, <2>3
<1>5. ASSUME NEW t \in SUBSET s, t # {} PROVE g[t] = f[Some(t)] + g[t \ {Some(t)}]
  <2>1. Some(t) \in t
      BY <1>5 DEF Some
  <2>2. t \ {Some(t)} \in SUBSET s /\ t \ {Some(t)} # s
      BY <2>1
  <2>. QED
      BY <1>4, <1>5, <2>2
<1>6. \A t \in SUBSET s : g[t] = IF t = {} THEN 0 ELSE f[Some(t)] + g[t \ {Some(t)}]
  <2>1. g[{}] = 0
      OBVIOUS
  <2>. HIDE DEF g
  <2>. QED
      BY <1>5, <2>1
<1>7. g = [t \in SUBSET s |-> g[t]]
    OBVIOUS
<1>. HIDE DEF g
<1>8. Sums(g, f, s)
    BY <1>6, <1>7 DEF Sums
<1>. QED
    BY <1>2, <1>8

LEMMA TotalSums ==
    ASSUME NEW f, NEW S, IsFiniteSet(S)
    PROVE  \E g : Sums(g, f, S) /\ \A s \in SUBSET S : Total(f, s) = g[s]
<1>. DEFINE g == CHOOSE g : Sums(g, f, S)
<1>1. Sums(g, f, S)
    BY SumsExists
<1>2. ASSUME NEW s \in SUBSET S PROVE Total(f, s) = g[s]
  <2>. DEFINE h == CHOOSE h : Sums(h, f, s)
  <2>1. IsFiniteSet(s)
      BY FS_Subset
  <2>2. Sums(h, f, s)
      BY <2>1, SumsExists
  <2>3. Total(f, s) = h[s]
      BY TotalIs
  <2>. HIDE DEF g, h
  <2>. QED
      BY <1>1, <2>2, <2>3, SumsUnique
<1>. HIDE DEF g
<1>. QED
    BY <1>1, <1>2

LEMMA TotalStep ==
    ASSUME NEW f, NEW S, IsFiniteSet(S)
    PROVE  /\ Total(f, {}) = 0
           /\ S # {} => Total(f, S) = f[Some(S)] + Total(f, S \ {Some(S)})
<1>1. PICK g : Sums(g, f, S) /\ \A s \in SUBSET S : Total(f, s) = g[s]
    BY TotalSums
<1>2. g[{}] = 0
    BY <1>1 DEF Sums
<1>3. S # {} => g[S] = f[Some(S)] + g[S \ {Some(S)}]
    BY <1>1 DEF Sums
<1>4. {} \in SUBSET S /\ S \in SUBSET S /\ S \ {Some(S)} \in SUBSET S
    OBVIOUS
<1>. QED
    BY <1>1, <1>2, <1>3, <1>4

LEMMA TotalType ==
    ASSUME NEW f, NEW S, IsFiniteSet(S), \A s \in S : f[s] \in Int
    PROVE  Total(f, S) \in Int
<1>. DEFINE B == {s \in SUBSET S : Total(f, s) \notin Int}
<1>1. SUFFICES ASSUME B # {} PROVE FALSE
    OBVIOUS
<1>2. B \in SUBSET (SUBSET S)
    OBVIOUS
<1>3. PICK s \in B : \A t \in B : ~(t \subseteq s /\ t # s)
  <2>. HIDE DEF B
  <2>. QED
      BY <1>1, <1>2, LeastSubset
<1>4. IsFiniteSet(s)
    BY FS_Subset
<1>5. s # {}
  <2>1. Total(f, {}) = 0
      BY <1>4, TotalStep
  <2>. QED
      BY <2>1
<1>6. Some(s) \in s
    BY <1>5 DEF Some
<1>7. Total(f, s \ {Some(s)}) \in Int
    BY <1>3, <1>6
<1>. QED
    BY <1>4, <1>5, <1>6, <1>7, TotalStep

\* Any element may be taken out first.
LEMMA TotalSplit ==
    ASSUME NEW f, NEW S, IsFiniteSet(S), \A s \in S : f[s] \in Int, NEW x \in S
    PROVE  Total(f, S) = f[x] + Total(f, S \ {x})
<1>. DEFINE B == {s \in SUBSET S : \E y \in s : Total(f, s) # f[y] + Total(f, s \ {y})}
<1>1. SUFFICES ASSUME B # {} PROVE FALSE
    OBVIOUS
<1>2. B \in SUBSET (SUBSET S)
    OBVIOUS
<1>3. PICK s \in B : \A t \in B : ~(t \subseteq s /\ t # s)
  <2>. HIDE DEF B
  <2>. QED
      BY <1>1, <1>2, LeastSubset
<1>4. PICK y \in s : Total(f, s) # f[y] + Total(f, s \ {y})
    OBVIOUS
<1>5. s \in SUBSET S /\ IsFiniteSet(s)
    BY FS_Subset
<1>. DEFINE z == Some(s)
<1>6. z \in s
    BY DEF Some
<1>7. Total(f, s) = f[z] + Total(f, s \ {z})
    BY <1>5, TotalStep
<1>8. y # z /\ y \in s \ {z} /\ z \in s \ {y}
    BY <1>4, <1>6, <1>7
<1>14. ASSUME NEW t \in SUBSET S, t \subseteq s, t # s, NEW a \in t
       PROVE  Total(f, t) = f[a] + Total(f, t \ {a})
  <2>1. t \notin B
      BY <1>3, <1>14
  <2>. QED
      BY <2>1
<1>15. s \ {z} \in SUBSET S /\ s \ {y} \in SUBSET S
    BY <1>5
<1>16. s \ {z} # s /\ s \ {y} # s
    BY <1>4, <1>6
<1>. HIDE DEF B, z
<1>9. Total(f, s \ {z}) = f[y] + Total(f, (s \ {z}) \ {y})
    BY <1>8, <1>14, <1>15, <1>16
<1>10. Total(f, s \ {y}) = f[z] + Total(f, (s \ {y}) \ {z})
    BY <1>8, <1>14, <1>15, <1>16
<1>11. (s \ {z}) \ {y} = (s \ {y}) \ {z}
    OBVIOUS
<1>12. Total(f, (s \ {z}) \ {y}) \in Int
  <2>1. IsFiniteSet((s \ {z}) \ {y}) /\ \A b \in (s \ {z}) \ {y} : f[b] \in Int
      BY <1>5, FS_RemoveElement
  <2>. QED
      BY <2>1, TotalType
<1>13. f[y] \in Int /\ f[z] \in Int
    BY <1>5, <1>6
<1>17. Total(f, s) = f[y] + Total(f, s \ {y})
  <2>1. f[z] + (f[y] + Total(f, (s \ {z}) \ {y})) = f[y] + (f[z] + Total(f, (s \ {z}) \ {y}))
      BY <1>12, <1>13
  <2>. QED
      BY <1>7, <1>9, <1>10, <1>11, <2>1
<1>. QED
    BY <1>4, <1>17

LEMMA TotalSame ==
    ASSUME NEW f, NEW g, NEW S, IsFiniteSet(S), \A s \in S : f[s] = g[s]
    PROVE  Total(f, S) = Total(g, S)
<1>1. PICK v : Sums(v, f, S) /\ \A s \in SUBSET S : Total(f, s) = v[s]
    BY TotalSums
<1>2. PICK w : Sums(w, g, S) /\ \A s \in SUBSET S : Total(g, s) = w[s]
    BY TotalSums
<1>3. \A s \in SUBSET S : s # {} => f[Some(s)] = g[Some(s)]
    BY DEF Some
<1>4. [s \in SUBSET S |-> IF s = {} THEN 0 ELSE f[Some(s)] + v[s \ {Some(s)}]]
        = [s \in SUBSET S |-> IF s = {} THEN 0 ELSE g[Some(s)] + v[s \ {Some(s)}]]
    BY <1>3
<1>5. Sums(v, g, S) /\ Sums(w, g, S)
    BY <1>1, <1>2, <1>4 DEF Sums
<1>6. S \subseteq S
    OBVIOUS
<1>7. v[S] = w[S]
    BY <1>5, SumsAgree
<1>. QED
    BY <1>1, <1>2, <1>5, <1>7

\* What the sum of f + g over S is, and of f - g.
LEMMA TotalPlus ==
    ASSUME NEW S, IsFiniteSet(S), NEW f, NEW g, NEW h,
           \A s \in S : f[s] \in Int /\ g[s] \in Int /\ h[s] = f[s] + g[s]
    PROVE  Total(h, S) = Total(f, S) + Total(g, S)
<1>. DEFINE B == {s \in SUBSET S : Total(h, s) # Total(f, s) + Total(g, s)}
<1>1. SUFFICES ASSUME B # {} PROVE FALSE
    OBVIOUS
<1>2. B \in SUBSET (SUBSET S)
    OBVIOUS
<1>3. PICK s \in B : \A t \in B : ~(t \subseteq s /\ t # s)
  <2>. HIDE DEF B
  <2>. QED
      BY <1>1, <1>2, LeastSubset
<1>4. s \in SUBSET S /\ IsFiniteSet(s)
    BY FS_Subset
<1>5. s # {}
  <2>1. Total(f, {}) = 0 /\ Total(g, {}) = 0 /\ Total(h, {}) = 0
      BY <1>4, TotalStep
  <2>2. Total(h, s) # Total(f, s) + Total(g, s)
      BY <1>3
  <2>. HIDE DEF B
  <2>. QED
      BY <2>1, <2>2
<1>. DEFINE x == Some(s)
            t == s \ {x}
<1>6. x \in s /\ t \in SUBSET S /\ t \subseteq s /\ t # s
    BY <1>5 DEF Some
<1>7. Total(h, t) = Total(f, t) + Total(g, t)
    BY <1>3, <1>6
<1>8. IsFiniteSet(t)
    BY <1>6, FS_Subset
<1>9. Total(f, t) \in Int /\ Total(g, t) \in Int
    BY <1>6, <1>8, TotalType
<1>10. /\ Total(h, s) = h[x] + Total(h, t)
       /\ Total(f, s) = f[x] + Total(f, t)
       /\ Total(g, s) = g[x] + Total(g, t)
    BY <1>4, <1>5, TotalStep
<1>11. f[x] \in Int /\ g[x] \in Int /\ h[x] = f[x] + g[x]
    BY <1>6
<1>. HIDE DEF x, t
<1>. QED
    BY <1>3, <1>7, <1>9, <1>10, <1>11

\* A sum of at most m for each.
LEMMA TotalAtMost ==
    ASSUME NEW f, NEW S, IsFiniteSet(S), NEW m \in Int, \A s \in S : f[s] \in Int /\ f[s] <= m
    PROVE  Total(f, S) <= Cardinality(S) * m
<1>. DEFINE B == {s \in SUBSET S : ~(Total(f, s) <= Cardinality(s) * m)}
<1>1. SUFFICES ASSUME B # {} PROVE FALSE
    OBVIOUS
<1>2. B \in SUBSET (SUBSET S)
    OBVIOUS
<1>3. PICK s \in B : \A t \in B : ~(t \subseteq s /\ t # s)
  <2>. HIDE DEF B
  <2>. QED
      BY <1>1, <1>2, LeastSubset
<1>4. s \in SUBSET S /\ IsFiniteSet(s)
    BY FS_Subset
<1>5. s # {}
  <2>1. Total(f, {}) = 0
      BY <1>4, TotalStep
  <2>2. Cardinality({}) = 0
      BY FS_EmptySet
  <2>3. ~(0 <= 0 * m) => FALSE
      OBVIOUS
  <2>. QED
      BY <2>1, <2>2, <2>3
<1>. DEFINE x == Some(s)
            t == s \ {x}
<1>6. x \in s /\ t \in SUBSET S /\ t \subseteq s /\ t # s
    BY <1>5 DEF Some
<1>7. Total(f, t) <= Cardinality(t) * m
    BY <1>3, <1>6
<1>8. IsFiniteSet(t) /\ Cardinality(t) = Cardinality(s) - 1 /\ Cardinality(s) \in Nat
    BY <1>4, <1>6, FS_RemoveElement, FS_CardinalityType
<1>9. Total(f, t) \in Int
    BY <1>6, <1>8, TotalType
<1>10. Total(f, s) = f[x] + Total(f, t)
    BY <1>4, <1>5, TotalStep
<1>11. f[x] \in Int /\ f[x] <= m
    BY <1>6
<1>12. ~(Total(f, s) <= Cardinality(s) * m)
    BY <1>3
<1>. HIDE DEF x, t, B
<1>13. ASSUME NEW n \in Nat PROVE (n - 1) * m + m = n * m
    OBVIOUS
<1>. QED
    BY <1>7, <1>8, <1>9, <1>10, <1>11, <1>12, <1>13

\* The sum over two parts.
LEMMA TotalUnion ==
    ASSUME NEW f, NEW S, IsFiniteSet(S), \A s \in S : f[s] \in Int, NEW T, T \subseteq S
    PROVE  Total(f, S) = Total(f, T) + Total(f, S \ T)
<1>. DEFINE B == {t \in SUBSET T : Total(f, S) # Total(f, t) + Total(f, S \ t)}
<1>1. SUFFICES ASSUME B # {} PROVE FALSE
    BY Zenon
<1>2. B \in SUBSET (SUBSET T) /\ IsFiniteSet(T)
    BY FS_Subset
<1>3. PICK t \in B : \A u \in B : ~(u \subseteq t /\ u # t)
  <2>. HIDE DEF B
  <2>. QED
      BY <1>1, <1>2, LeastSubset
<1>4. t \in SUBSET T /\ IsFiniteSet(t)
    BY <1>2, FS_Subset
<1>5. Total(f, S) \in Int
    BY TotalType
<1>6. t # {}
  <2>1. Total(f, {}) = 0 /\ S \ {} = S
      BY <1>4, TotalStep
  <2>2. Total(f, S) # Total(f, t) + Total(f, S \ t)
      BY <1>3
  <2>. HIDE DEF B
  <2>. QED
      BY <1>5, <2>1, <2>2
<1>. DEFINE x == Some(t)
            u == t \ {x}
<1>7. x \in t /\ u \in SUBSET T /\ u \subseteq t /\ u # t /\ x \in S /\ x \in S \ u
    BY <1>4, <1>6 DEF Some
<1>8. Total(f, S) = Total(f, u) + Total(f, S \ u)
    BY <1>3, <1>7
<1>9. IsFiniteSet(u) /\ IsFiniteSet(S \ u) /\ IsFiniteSet(S \ t)
    BY <1>4, <1>7, FS_Subset, FS_Difference
<1>10. Total(f, t) = f[x] + Total(f, u)
    BY <1>4, <1>6, TotalStep
<1>11. Total(f, S \ u) = f[x] + Total(f, (S \ u) \ {x})
    BY <1>7, <1>9, TotalSplit
<1>12. (S \ u) \ {x} = S \ t
    BY <1>4, <1>7
<1>13. Total(f, u) \in Int /\ Total(f, S \ t) \in Int /\ f[x] \in Int
    BY <1>4, <1>7, <1>9, TotalType
<1>14. Total(f, S) # Total(f, t) + Total(f, S \ t)
    BY <1>3
<1>. HIDE DEF B, x, u
<1>15. f[x] + Total(f, u) + Total(f, S \ t) = Total(f, u) + (f[x] + Total(f, S \ t))
    BY <1>13
<1>. QED
    BY <1>8, <1>10, <1>11, <1>12, <1>14, <1>15

LEMMA TotalZero ==
    ASSUME NEW f, NEW S, IsFiniteSet(S), \A s \in S : f[s] = 0
    PROVE  Total(f, S) = 0
<1>1. \A s \in S : f[s] \in Int /\ f[s] = f[s] + f[s]
    OBVIOUS
<1>2. Total(f, S) = Total(f, S) + Total(f, S)
    BY <1>1, TotalPlus
<1>3. Total(f, S) \in Int
    BY <1>1, TotalType
<1>. QED
    BY <1>2, <1>3

LEMMA TotalNat ==
    ASSUME NEW f, NEW S, IsFiniteSet(S), \A s \in S : f[s] \in Nat
    PROVE  Total(f, S) \in Nat
<1>. DEFINE g == [s \in S |-> 0 - f[s]]
            z == [s \in S |-> 0]
<1>1. \A s \in S : g[s] \in Int /\ g[s] <= 0 /\ f[s] \in Int /\ z[s] = f[s] + g[s]
    OBVIOUS
<1>2. Total(z, S) = 0
    BY TotalZero
<1>. HIDE DEF g, z
<1>3. Total(z, S) = Total(f, S) + Total(g, S)
    BY <1>1, TotalPlus
<1>4. Total(g, S) <= Cardinality(S) * 0 /\ Cardinality(S) \in Nat
    BY <1>1, TotalAtMost, FS_CardinalityType
<1>5. Total(f, S) \in Int /\ Total(g, S) \in Int
    BY <1>1, TotalType
<1>. QED
    BY <1>2, <1>3, <1>4, <1>5

LEMMA TotalNone ==
    ASSUME NEW f, NEW S, IsFiniteSet(S), \A s \in S : f[s] \in Nat, Total(f, S) = 0
    PROVE  \A s \in S : f[s] = 0
<1>1. ASSUME NEW s \in S PROVE f[s] = 0
  <2>1. IsFiniteSet(S \ {s})
      BY FS_RemoveElement
  <2>2. Total(f, S \ {s}) \in Nat
      BY <2>1, TotalNat
  <2>3. Total(f, S) = f[s] + Total(f, S \ {s})
      BY TotalSplit
  <2>. QED
      BY <2>2, <2>3
<1>. QED
    BY <1>1

\* One element's value changes.
LEMMA TotalChange ==
    ASSUME NEW f, NEW g, NEW S, IsFiniteSet(S), NEW x \in S, NEW v \in Int,
           \A s \in S : f[s] \in Int, \A s \in S : g[s] = IF s = x THEN f[s] + v ELSE f[s]
    PROVE  Total(g, S) = Total(f, S) + v
<1>1. IsFiniteSet(S \ {x})
    BY FS_RemoveElement
<1>2. Total(f, S \ {x}) = Total(g, S \ {x})
    BY <1>1, TotalSame
<1>3. \A s \in S : g[s] \in Int
    OBVIOUS
<1>4. Total(f, S) = f[x] + Total(f, S \ {x})
    BY TotalSplit
<1>5. Total(g, S) = g[x] + Total(g, S \ {x})
    BY <1>3, TotalSplit
<1>6. Total(f, S \ {x}) \in Int
    BY <1>1, TotalType
<1>7. f[x] \in Int /\ g[x] = f[x] + v
    OBVIOUS
<1>. QED
    BY <1>2, <1>4, <1>5, <1>6, <1>7

LEMMA HasGreatest ==
    ASSUME NEW f, NEW S, IsFiniteSet(S), S # {}, \A s \in S : f[s] \in Int
    PROVE  \E x \in S : \A y \in S : f[y] <= f[x]
<1>. DEFINE B == {t \in SUBSET S : t # {} /\ ~\E x \in t : \A y \in t : f[y] <= f[x]}
<1>1. SUFFICES ASSUME B # {} PROVE FALSE
    OBVIOUS
<1>2. B \in SUBSET (SUBSET S)
    OBVIOUS
<1>3. PICK t \in B : \A u \in B : ~(u \subseteq t /\ u # t)
  <2>. HIDE DEF B
  <2>. QED
      BY <1>1, <1>2, LeastSubset
<1>4. PICK x : x \in t
    OBVIOUS
<1>5. t \ {x} # {}
  <2>1. t = {x} => \A y \in t : f[y] <= f[x]
      BY <1>3
  <2>. QED
      BY <1>3, <1>4, <2>1
<1>6. PICK z \in t \ {x} : \A y \in t \ {x} : f[y] <= f[z]
  <2>1. t \ {x} \in SUBSET S /\ t \ {x} \subseteq t /\ t \ {x} # t
      BY <1>3, <1>4
  <2>2. t \ {x} \notin B
      BY <1>3, <2>1
  <2>. QED
      BY <1>5, <2>1, <2>2, Zenon
<1>7. f[x] \in Int /\ f[z] \in Int /\ \A y \in t : f[y] \in Int
    BY <1>3, <1>4
<1>8. (\A y \in t : f[y] <= f[x]) \/ (\A y \in t : f[y] <= f[z])
    BY <1>6, <1>7
<1>. QED
    BY <1>3, <1>4, <1>6, <1>8

----------------------------------------------------------------------------
(* The balance: what one step does to the currents                         *)

AllZero(f) == \A b \in Backend : f[b] = 0

CTypes ==
    /\ cf \in Configs
    /\ weight \in [Backend -> Nat]
    /\ \A b \in Backend : weight[b] \in IF b \in cf.list THEN cf.weights ELSE {0}
    /\ current \in [Backend -> Int] /\ counts \in [Backend -> Nat]
    /\ steady \in BOOLEAN

\* What a step does to the balance: nothing that matters to it, a pick, or a change.
Idle == UNCHANGED <<weight, down, offline, current, counts, steady, cf>>

Change ==
    /\ UNCHANGED <<current, counts, cf>>
    /\ steady' = AllZero(current)
    /\ \E b \in cf.list, w \in cf.weights :
          weight' \in {weight, [weight EXCEPT ![b] = w]}

BalanceStep == Idle \/ Pick \/ Change

LEMMA StepsOfBalance ==
    ASSUME UpstreamAssumption, CTypes, [Next]_uvars
    PROVE  BalanceStep
<1>. SUFFICES ASSUME ~Pick PROVE Idle \/ Change
    BY DEF BalanceStep
<1>1. ASSUME NEW b \in cf.list
      PROVE  b \in Backend /\ weight[b] \in cf.weights
  <2>1. cf.list \subseteq Backend
      BY DEF UpstreamAssumption, CTypes
  <2>. QED
      BY <1>1, <2>1 DEF CTypes
<1>2. ASSUME NEW b \in cf.list, NEW w \in cf.weights, SetWeight(b, w)
      PROVE  Change
    BY <1>2 DEF SetWeight, health, Change, Changed, AllZero
<1>3. ASSUME NEW b \in cf.list, UNCHANGED <<weight, current, counts, cf>>, Changed
      PROVE  Change
    BY <1>1, <1>3 DEF Change, Changed, AllZero
<1>4. ASSUME NEW b \in cf.list, NEW s \in BOOLEAN, SetDown(b, s)
      PROVE  Change
    BY <1>3, <1>4 DEF SetDown, health
<1>5. ASSUME NEW b \in cf.list, UNCHANGED <<balance, cf>>,
             BackendOffline(b) \/ BackendOnline(b) \/ UNCHANGED <<offline, steady>>
      PROVE  Idle \/ Change
    BY <1>3, <1>5 DEF balance, BackendOffline, BackendOnline, Idle
<1>6. ASSUME NEW b \in cf.list, CheckStart(b) \/ CheckOpen(b) \/ CheckConnectFail(b)
                                 \/ CheckUnanswered(b) \/ \E late \in BOOLEAN : CheckAnswered(b, late)
      PROVE  Idle \/ Change
  <2>1. UNCHANGED <<balance, cf>>
      BY <1>6 DEF CheckStart, CheckOpen, CheckConnectFail, CheckUnanswered, CheckAnswered, SetCheck
  <2>2. BackendOffline(b) \/ BackendOnline(b) \/ UNCHANGED <<offline, steady>>
      BY <1>6 DEF CheckStart, CheckOpen, CheckConnectFail, CheckUnanswered, CheckAnswered
  <2>. QED
      BY <1>5, <2>1, <2>2
<1>7. CASE UNCHANGED uvars
    BY <1>7 DEF uvars, balance, health, Idle
<1>. QED
    BY <1>2, <1>4, <1>6, <1>7 DEF Next

\* Who can be picked is configured, and there are finitely many.
LEMMA EligibleListed ==
    ASSUME UpstreamAssumption, CTypes
    PROVE  /\ Eligible \subseteq cf.list /\ cf.list \subseteq Backend
           /\ IsFiniteSet(Eligible) /\ IsFiniteSet(cf.list) /\ IsFiniteSet(Backend)
           /\ \A b \in Eligible : weight[b] >= 1
<1>1. cf.list \subseteq Backend /\ IsFiniteSet(Backend)
    BY DEF UpstreamAssumption, CTypes
<1>2. ASSUME NEW b \in Eligible
      PROVE  b \in cf.list /\ weight[b] >= 1
  <2>1. b \in Backend /\ weight[b] >= 1
      BY DEF Eligible
  <2>2. weight[b] \in IF b \in cf.list THEN cf.weights ELSE {0}
      BY <2>1 DEF CTypes
  <2>. QED
      BY <2>1, <2>2
<1>. QED
    BY <1>1, <1>2, FS_Subset

\* The one picked has the greatest raised current.
LEMMA BestIsGreatest ==
    ASSUME UpstreamAssumption, CTypes, Eligible # {}
    PROVE  /\ Best \in Eligible
           /\ \A b \in Eligible : Raised[b] <= Raised[Best]
<1>1. Raised \in [Backend -> Int] /\ Eligible \subseteq Backend
  <2>1. \A b \in Backend : current[b] \in Int /\ weight[b] \in Int
      BY DEF CTypes
  <2>. QED
      BY <2>1 DEF Raised, Eligible
<1>2. PICK x \in Eligible : \A y \in Eligible : Raised[y] <= Raised[x]
    BY <1>1, EligibleListed, HasGreatest
<1>. DEFINE T == {b \in Eligible : Raised[b] = Raised[x]}
<1>3. T \subseteq Nat /\ T # {}
    BY <1>1 DEF UpstreamAssumption
<1>4. PICK b \in T : \A c \in T : <<c, b>> \notin OpToRel(<, Nat)
  <2>. HIDE DEF T
  <2>. QED
      BY <1>3, WFMin, NatLessThanWellFounded, Zenon
<1>5. ASSUME NEW c \in T PROVE b <= c
  <2>. HIDE DEF T
  <2>1. b \in Nat /\ c \in Nat
      BY <1>3, <1>4
  <2>2. ~(c < b)
      BY <1>4, <2>1 DEF OpToRel
  <2>. QED
      BY <2>1, <2>2
<1>6. \A c \in Eligible : Raised[c] < Raised[b] \/ (Raised[c] = Raised[b] /\ b <= c)
  <2>1. \A c \in Eligible : Raised[c] \in Int
      BY <1>1
  <2>2. Raised[b] = Raised[x] /\ b \in Eligible
      BY <1>4
  <2>. QED
      BY <1>2, <1>5, <2>1, <2>2
<1>7. \E e \in Eligible : \A c \in Eligible : Raised[c] < Raised[e] \/ (Raised[c] = Raised[e] /\ e <= c)
    BY <1>4, <1>6
<1>8. /\ Best \in Eligible
      /\ \A c \in Eligible : Raised[c] < Raised[Best] \/ (Raised[c] = Raised[Best] /\ Best <= c)
  <2>. HIDE DEF T
  <2>. QED
      BY <1>7 DEF Best
<1>9. \A c \in Eligible : Raised[c] \in Int
    BY <1>1
<1>. QED
    BY <1>8, <1>9

\* Raising those in U by w, and taking k from x.
LEMMA TotalRaised ==
    ASSUME NEW P, NEW U, NEW c, NEW w, NEW r, IsFiniteSet(P), U \subseteq P,
           \A b \in P : c[b] \in Int /\ w[b] \in Int,
           \A b \in U : r[b] = c[b] + w[b],
           \A b \in P : b \notin U => r[b] = c[b]
    PROVE  Total(r, P) = Total(c, P) + Total(w, U)
<1>1. PICK V : V = P \ U
    OBVIOUS
<1>2. IsFiniteSet(U) /\ IsFiniteSet(V)
    BY <1>1, FS_Subset, FS_Difference
<1>3. PICK a : a = [b \in P |-> IF b \in U THEN w[b] ELSE 0]
    OBVIOUS
<1>4. \A b \in P : a[b] \in Int /\ r[b] = c[b] + a[b]
    BY <1>3
<1>5. Total(r, P) = Total(c, P) + Total(a, P)
    BY <1>4, TotalPlus
<1>6. Total(a, P) = Total(a, U) + Total(a, V)
    BY <1>1, <1>4, TotalUnion
<1>7. Total(a, V) = 0
  <2>1. \A b \in V : a[b] = 0
      BY <1>1, <1>3
  <2>. QED
      BY <1>2, <2>1, TotalZero
<1>8. Total(a, U) = Total(w, U) /\ Total(a, U) \in Int
  <2>1. \A b \in U : a[b] = w[b] /\ a[b] \in Int
      BY <1>3, <1>4
  <2>. QED
      BY <1>2, <2>1, TotalSame, TotalType
<1>9. Total(c, P) \in Int
    BY TotalType
<1>. QED
    BY <1>5, <1>6, <1>7, <1>8, <1>9

LEMMA TotalTaken ==
    ASSUME NEW P, IsFiniteSet(P), NEW x, NEW k \in Int, NEW r, NEW n,
           \A b \in P : r[b] \in Int,
           x \in P => n[x] = r[x] - k, \A b \in P : b # x => n[b] = r[b]
    PROVE  Total(n, P) = Total(r, P) - (IF x \in P THEN k ELSE 0)
<1>1. Total(r, P) \in Int
    BY TotalType
<1>2. CASE x \in P
  <2>1. PICK v \in Int : v = 0 - k
      OBVIOUS
  <2>2. \A b \in P : n[b] = IF b = x THEN r[b] + v ELSE r[b]
      BY <2>1
  <2>3. Total(n, P) = Total(r, P) + v
      BY <1>2, <2>2, TotalChange
  <2>. QED
      BY <1>1, <1>2, <2>1, <2>3
<1>3. CASE x \notin P
  <2>1. Total(n, P) = Total(r, P)
      BY <1>3, TotalSame
  <2>. QED
      BY <1>1, <1>3, <2>1
<1>. QED
    BY <1>2, <1>3

\* What a pick does to the currents of the backends in P.
LEMMA PickTotals ==
    ASSUME UpstreamAssumption, CTypes, Pick
    PROVE  Eligible # {} =>
             /\ Cost \in Nat
             /\ \A P, U : P \subseteq Backend /\ U = P \cap Eligible =>
                  /\ Total(current, P) \in Int /\ Total(weight, U) \in Nat
                  /\ Total(Raised, P) = Total(current, P) + Total(weight, U)
                  /\ Total(current', P) = Total(Raised, P) - (IF Best \in P THEN Cost ELSE 0)
<1>1. IsFiniteSet(Backend) /\ IsFiniteSet(Eligible) /\ Eligible \subseteq Backend
    BY EligibleListed DEF Eligible
<1>2. \A b \in Backend : current[b] \in Int /\ weight[b] \in Nat
    BY DEF CTypes
<1>3. Cost \in Nat
    BY <1>1, <1>2, TotalNat DEF Cost
<1>4. SUFFICES ASSUME Eligible # {}, NEW P, NEW U, P \subseteq Backend, U = P \cap Eligible
               PROVE  /\ Total(current, P) \in Int /\ Total(weight, U) \in Nat
                      /\ Total(Raised, P) = Total(current, P) + Total(weight, U)
                      /\ Total(current', P) = Total(Raised, P) - (IF Best \in P THEN Cost ELSE 0)
    BY <1>3
<1>5. PICK r, c, w, n, x, k : /\ r = Raised /\ c = current /\ w = weight /\ n = current'
                              /\ x = Best /\ k = Cost
    OBVIOUS
<1>6. \A b \in Backend : r[b] = IF b \in Eligible THEN c[b] + w[b] ELSE c[b]
    BY <1>5 DEF Raised
<1>7. r \in [Backend -> Int]
    BY <1>2, <1>5 DEF Raised
<1>8. \A b \in Backend : n[b] = IF b = x THEN r[b] - k ELSE r[b]
    BY <1>4, <1>5, <1>7 DEF Pick
<1>9. \A b \in P : c[b] \in Int /\ w[b] \in Int /\ r[b] \in Int
    BY <1>2, <1>4, <1>5, <1>7
<1>10. U \subseteq P /\ IsFiniteSet(P) /\ IsFiniteSet(U) /\ k \in Int
  <2>1. IsFiniteSet(P)
      BY <1>1, <1>4, FS_Subset
  <2>2. IsFiniteSet(P \cap Eligible)
      BY <2>1, FS_Intersection
  <2>. QED
      BY <1>3, <1>4, <1>5, <2>1, <2>2
<1>11. Total(c, P) \in Int /\ Total(w, U) \in Nat
  <2>1. \A b \in U : w[b] \in Nat
      BY <1>2, <1>4, <1>5
  <2>. QED
      BY <1>9, <1>10, <2>1, TotalType, TotalNat
<1>12. (\A b \in U : r[b] = c[b] + w[b]) /\ \A b \in P : b \notin U => r[b] = c[b]
    BY <1>4, <1>6
<1>13. (x \in P => n[x] = r[x] - k) /\ \A b \in P : b # x => n[b] = r[b]
    BY <1>4, <1>8
<1>14. Total(r, P) = Total(c, P) + Total(w, U)
    BY <1>9, <1>10, <1>12, TotalRaised
<1>15. Total(n, P) = Total(r, P) - (IF x \in P THEN k ELSE 0)
  <2>1. IsFiniteSet(P) /\ k \in Int
      BY <1>10
  <2>2. \A b \in P : r[b] \in Int
      BY <1>9
  <2>. QED
      BY <1>13, <2>1, <2>2, TotalTaken
<1>. QED
    BY <1>5, <1>11, <1>14, <1>15

----------------------------------------------------------------------------
Greatest == Max(cf.weights)

\* Nobody has credit who cannot be picked, and those who start again have none.
Unlisted == \A b \in Backend : b \notin cf.list => current[b] = 0
Counted  == AllZero(current) => AllZero(counts)

\* The backends of any set have credit of the greatest weight at most for each pair of one of
\* them and one of the others: of a single backend, and of all but one, that is the bound.
SharesBounded == \A P : P \subseteq cf.list =>
    LET k == Cardinality(P) IN Total(current, P) <= k * (Cardinality(cf.list) - k) * Greatest

Lead(b) == Total(counts, Backend) * weight[b] - counts[b] * Cost

\* While nothing changes a current is what its backend is behind, by less than a pick ahead.
Fair ==
    steady => \A b \in Backend :
        IF b \in Eligible THEN current[b] = Lead(b) /\ -Cost < current[b]
        ELSE current[b] = 0 /\ counts[b] = 0

CInv == CTypes /\ Total(current, Backend) = 0 /\ Unlisted /\ Counted /\ SharesBounded /\ Fair

LEMMA GreatestWeight ==
    ASSUME UpstreamAssumption, CTypes
    PROVE  Greatest \in Nat /\ \A b \in Backend : weight[b] \in Nat /\ weight[b] <= Greatest
<1>1. IsFiniteSet(cf.weights) /\ cf.weights \subseteq Nat /\ cf.list # {} /\ cf.list \subseteq Backend
    BY DEF UpstreamAssumption, CTypes
<1>2. \A b \in Backend : weight[b] \in Nat /\ weight[b] \in IF b \in cf.list THEN cf.weights ELSE {0}
    BY DEF CTypes
<1>3. cf.weights # {}
    BY <1>1, <1>2
<1>4. PICK f : f = [w \in cf.weights |-> w]
    OBVIOUS
<1>5. \A w \in cf.weights : f[w] = w /\ f[w] \in Int
    BY <1>1, <1>4
<1>6. \E x \in cf.weights : \A y \in cf.weights : f[y] <= f[x]
    BY <1>1, <1>3, <1>5, HasGreatest
<1>7. \E x \in cf.weights : \A y \in cf.weights : x >= y
    BY <1>1, <1>5, <1>6
<1>8. Greatest \in cf.weights /\ \A y \in cf.weights : Greatest >= y
    BY <1>7 DEF Greatest, Max
<1>. QED
    BY <1>1, <1>2, <1>8

\* A round takes as many picks as the weights add up to, one at least.
LEMMA CostType ==
    ASSUME UpstreamAssumption, CTypes
    PROVE  Cost \in Nat /\ \A b \in Eligible : Cost >= weight[b]
<1>1. IsFiniteSet(Eligible) /\ \A b \in Eligible : weight[b] \in Nat
    BY EligibleListed DEF CTypes
<1>2. Cost \in Nat
    BY <1>1, TotalNat DEF Cost
<1>3. ASSUME NEW b \in Eligible PROVE Cost >= weight[b]
  <2>1. PICK E : E = Eligible
      OBVIOUS
  <2>2. IsFiniteSet(E) /\ b \in E /\ (\A s \in E : weight[s] \in Nat) /\ \A s \in E : weight[s] \in Int
      BY <1>1, <2>1
  <2>3. Total(weight, E) = weight[b] + Total(weight, E \ {b})
      BY <2>2, TotalSplit
  <2>4. PICK F : F = E \ {b}
      OBVIOUS
  <2>5. IsFiniteSet(F) /\ \A s \in F : weight[s] \in Nat
      BY <2>2, <2>4, FS_RemoveElement
  <2>6. Total(weight, F) \in Nat
      BY <2>5, TotalNat
  <2>. QED
      BY <2>1, <2>2, <2>3, <2>4, <2>6 DEF Cost
<1>. QED
    BY <1>2, <1>3

LEMMA ProductNat ==
    ASSUME NEW a \in Nat, NEW b \in Nat, NEW c \in Nat
    PROVE  a * b * c \in Nat
<1>1. a * b \in Nat
    OBVIOUS
<1>2. ASSUME NEW d \in Nat PROVE d * c \in Nat
    OBVIOUS
<1>. QED
    BY <1>1, <1>2

\* A round that starts is fair.
LEMMA Restarts ==
    ASSUME UpstreamAssumption, CTypes, AllZero(current), AllZero(counts)
    PROVE  Fair
<1>1. ASSUME NEW b \in Eligible PROVE current[b] = Lead(b) /\ -Cost < current[b]
  <2>1. b \in Backend /\ weight[b] \in Nat /\ weight[b] >= 1
      BY EligibleListed DEF CTypes
  <2>2. current[b] = 0 /\ counts[b] = 0 /\ Total(counts, Backend) = 0
      BY <2>1, EligibleListed, TotalZero DEF AllZero
  <2>3. Cost \in Nat /\ Cost >= weight[b]
      BY CostType
  <2>4. Lead(b) = 0
    <3>1. \A a, c \in Nat : 0 * a - 0 * c = 0
        OBVIOUS
    <3>. QED
        BY <2>1, <2>2, <2>3, <3>1 DEF Lead
  <2>. QED
      BY <2>1, <2>2, <2>3, <2>4
<1>. QED
    BY <1>1 DEF Fair, AllZero

LEMMA Initially ==
    ASSUME UpstreamAssumption, Init
    PROVE  CInv
<1>1. CTypes
  <2>1. cf \in Configs /\ cf.weights \subseteq Nat
      BY DEF Init, UpstreamAssumption
  <2>2. /\ weight \in [Backend -> cf.weights \cup {0}]
        /\ \A b \in Backend : weight[b] \in IF b \in cf.list THEN cf.weights ELSE {0}
      BY DEF Init
  <2>3. weight \in [Backend -> Nat]
      BY <2>1, <2>2
  <2>4. current \in [Backend -> Int] /\ counts \in [Backend -> Nat] /\ steady \in BOOLEAN
      BY DEF Init
  <2>. QED
      BY <2>1, <2>2, <2>3, <2>4 DEF CTypes
<1>2. AllZero(current) /\ AllZero(counts)
    BY DEF Init, AllZero
<1>3. ASSUME NEW P, P \subseteq Backend PROVE IsFiniteSet(P) /\ Total(current, P) = 0 /\ Total(counts, P) = 0
  <2>1. IsFiniteSet(P)
      BY <1>1, <1>3, EligibleListed, FS_Subset
  <2>2. \A b \in P : current[b] = 0 /\ counts[b] = 0
      BY <1>2, <1>3 DEF AllZero
  <2>. QED
      BY <2>1, <2>2, TotalZero
<1>4. SharesBounded
  <2>1. ASSUME NEW P, P \subseteq cf.list
        PROVE  Total(current, P) <= Cardinality(P) * (Cardinality(cf.list) - Cardinality(P)) * Greatest
    <3>1. P \subseteq Backend /\ IsFiniteSet(cf.list)
        BY <1>1, <2>1, EligibleListed
    <3>2. /\ Cardinality(P) \in Nat /\ Cardinality(cf.list) \in Nat
          /\ Cardinality(P) <= Cardinality(cf.list)
        BY <1>3, <2>1, <3>1, FS_CardinalityType, FS_Subset
    <3>3. Cardinality(cf.list) - Cardinality(P) \in Nat /\ Greatest \in Nat
        BY <1>1, <3>2, GreatestWeight
    <3>4. Cardinality(P) * (Cardinality(cf.list) - Cardinality(P)) * Greatest \in Nat
        BY <3>2, <3>3, ProductNat
    <3>5. PICK z : z = Cardinality(P) * (Cardinality(cf.list) - Cardinality(P)) * Greatest
        OBVIOUS
    <3>6. Total(current, P) = 0
        BY <1>3, <3>1
    <3>7. z \in Nat
        BY <3>4, <3>5
    <3>8. Total(current, P) <= z
        BY <3>6, <3>7
    <3>. QED
        BY <3>5, <3>8
  <2>. QED
      BY <2>1 DEF SharesBounded
<1>5. Fair
    BY <1>1, <1>2, Restarts
<1>. QED
    BY <1>1, <1>2, <1>3, <1>4, <1>5 DEF CInv, Unlisted, Counted, AllZero

LEMMA RestartsNext == (CTypes /\ AllZero(current) /\ AllZero(counts) => Fair)'
<1>1. CTypes /\ AllZero(current) /\ AllZero(counts) => Fair
    BY UpstreamAssumption, Restarts
<1>. QED
    BY <1>1, PTL

----------------------------------------------------------------------------
LEMMA IdleKeeps ==
    ASSUME CInv, Idle
    PROVE  CInv'
<1>1. CTypes' /\ Unlisted' /\ Counted'
    BY DEF CInv, Idle, CTypes, Unlisted, Counted, AllZero
<1>2. Total(current', Backend) = Total(current, Backend) /\ Total(counts', Backend) = Total(counts, Backend)
    BY DEF Idle
<1>3. SharesBounded'
    BY DEF CInv, Idle, SharesBounded, Greatest
<1>4. Eligible' = Eligible
    BY DEF Idle, Eligible
<1>5. Cost' = Cost
    BY <1>4 DEF Idle, Cost
<1>6. Fair'
    BY <1>2, <1>4, <1>5 DEF CInv, Idle, Fair, Lead
<1>. QED
    BY <1>1, <1>2, <1>3, <1>6 DEF CInv

\* After a change a round starts, or the proportions are off until one does.
LEMMA ChangeKeeps ==
    ASSUME UpstreamAssumption, CInv, Change
    PROVE  CInv'
<1>1. UNCHANGED <<current, counts, cf>> /\ steady' = AllZero(current)
    BY DEF Change
<1>2. CTypes'
  <2>1. PICK b \in cf.list, w \in cf.weights : weight' \in {weight, [weight EXCEPT ![b] = w]}
      BY DEF Change
  <2>2. w \in Nat /\ b \in Backend
      BY DEF CInv, CTypes, UpstreamAssumption
  <2>3. weight' \in [Backend -> Nat]
      BY <2>1, <2>2 DEF CInv, CTypes
  <2>4. \A c \in Backend : weight'[c] \in IF c \in cf.list THEN cf.weights ELSE {0}
      BY <2>1, <2>2 DEF CInv, CTypes
  <2>5. steady' \in BOOLEAN
      BY <1>1 DEF AllZero
  <2>. QED
      BY <1>1, <2>3, <2>4, <2>5 DEF CInv, CTypes
<1>3. Unlisted' /\ Counted'
    BY <1>1 DEF CInv, Unlisted, Counted, AllZero
<1>4. Total(current', Backend) = Total(current, Backend)
    BY <1>1
<1>5. SharesBounded'
    BY <1>1 DEF CInv, SharesBounded, Greatest
<1>6. CASE ~AllZero(current)
  <2>1. Fair'
      BY <1>1, <1>6 DEF Fair
  <2>. QED
      BY <1>2, <1>3, <1>4, <1>5, <2>1 DEF CInv
<1>7. CASE AllZero(current)
  <2>1. AllZero(current)' /\ AllZero(counts)'
      BY <1>1, <1>7 DEF CInv, Counted, AllZero
  <2>2. Fair'
      BY <1>2, <2>1, RestartsNext
  <2>. QED
      BY <1>2, <1>3, <1>4, <1>5, <2>2 DEF CInv
<1>. QED
    BY <1>6, <1>7

----------------------------------------------------------------------------
\* The weights of some of those who can be picked add up to at most that of all.
LEMMA PartCost ==
    ASSUME UpstreamAssumption, CTypes
    PROVE  \A U : U \subseteq Eligible => /\ IsFiniteSet(U) /\ Total(weight, U) \in Nat
                                        /\ Total(weight, U) <= Cost
                                        /\ Total(weight, U) <= Cardinality(U) * Greatest
<1>1. SUFFICES ASSUME NEW U, U \subseteq Eligible
               PROVE  /\ IsFiniteSet(U) /\ Total(weight, U) \in Nat /\ Total(weight, U) <= Cost
                      /\ Total(weight, U) <= Cardinality(U) * Greatest
    OBVIOUS
<1>2. PICK E : E = Eligible
    OBVIOUS
<1>3. PICK V : V = E \ U
    OBVIOUS
<1>4. IsFiniteSet(E) /\ IsFiniteSet(U) /\ IsFiniteSet(V) /\ U \subseteq E
    BY <1>1, <1>2, <1>3, EligibleListed, FS_Subset, FS_Difference
<1>5. \A b \in E : weight[b] \in Nat /\ weight[b] \in Int /\ weight[b] <= Greatest
  <2>1. E \subseteq Backend
      BY <1>2 DEF Eligible
  <2>2. \A b \in Backend : weight[b] \in Nat /\ weight[b] <= Greatest
      BY GreatestWeight
  <2>. QED
      BY <2>1, <2>2
<1>6. Total(weight, E) = Total(weight, U) + Total(weight, V)
    BY <1>3, <1>4, <1>5, TotalUnion
<1>7. (\A b \in U : weight[b] \in Nat) /\ \A b \in V : weight[b] \in Nat
    BY <1>1, <1>2, <1>3, <1>5
<1>8. Total(weight, U) \in Nat /\ Total(weight, V) \in Nat
    BY <1>4, <1>7, TotalNat
<1>9. Total(weight, U) <= Cardinality(U) * Greatest
  <2>1. (\A b \in U : weight[b] \in Int /\ weight[b] <= Greatest) /\ Greatest \in Int
      BY <1>1, <1>2, <1>5, GreatestWeight
  <2>. QED
      BY <1>4, <2>1, TotalAtMost
<1>. QED
    BY <1>2, <1>4, <1>6, <1>8, <1>9 DEF Cost

\* The sum of all currents is what it was.
LEMMA PickConserves ==
    ASSUME UpstreamAssumption, CInv, Pick, Eligible # {}
    PROVE  Total(current', Backend) = 0
<1>1. CTypes /\ Total(current, Backend) = 0
    BY DEF CInv
<1>2. PICK P, U : P = Backend /\ U = Eligible
    OBVIOUS
<1>3. P \subseteq Backend /\ U = P \cap Eligible
    BY <1>2 DEF Eligible
<1>4. Best \in P
    BY <1>1, <1>2, EligibleListed, BestIsGreatest
<1>5. /\ Total(Raised, P) = Total(current, P) + Total(weight, U)
      /\ Total(current', P) = Total(Raised, P) - (IF Best \in P THEN Cost ELSE 0)
    BY <1>1, <1>3, PickTotals
<1>6. Cost \in Nat /\ Total(weight, U) = Cost
    BY <1>1, <1>2, CostType DEF Cost
<1>. QED
    BY <1>1, <1>2, <1>4, <1>5, <1>6

\* Two bounds on s, of which one falls and one rises with r, make one.
LEMMA Between ==
    ASSUME NEW n \in Nat, NEW k \in Nat, NEW a \in Nat, NEW m \in Nat, NEW r \in Int, NEW s \in Int,
           s <= (k + 1) * (n - (k + 1)) * m - r + (a + 1) * m,
           s <= a * r + (k - a) * (n - (k - a)) * m
    PROVE  s <= k * (n - k) * m
<1>1. PICK X, Y, Z : X = (k + 1) * (n - (k + 1)) * m + (a + 1) * m
                     /\ Y = (k - a) * (n - (k - a)) * m /\ Z = k * (n - k) * m
    OBVIOUS
<1>2. X \in Int /\ Y \in Int /\ Z \in Int /\ a \in Nat /\ s \in Int /\ r \in Int
    BY <1>1
<1>3. s <= X - r /\ s <= a * r + Y
    BY <1>1
<1>4. a * X + Y = (a + 1) * Z
    BY <1>1
<1>5. a * s <= a * (X - r)
    BY <1>2, <1>3
<1>6. a * (X - r) = a * X - a * r /\ a * X \in Int /\ a * r \in Int /\ a * s \in Int
    BY <1>2
<1>7. a * s + s <= a * X + Y
    BY <1>2, <1>3, <1>5, <1>6
<1>8. (a + 1) * s = a * s + s
    BY <1>2
<1>9. (a + 1) * s <= (a + 1) * Z
    BY <1>4, <1>7, <1>8
<1>10. s <= Z
    BY <1>2, <1>9
<1>. QED
    BY <1>1, <1>10

\* A pick leaves every set within its bound: those of the set that gained have no more than the
\* one picked, which had it with them.
LEMMA PickBounds ==
    ASSUME UpstreamAssumption, CInv, Pick, Eligible # {}
    PROVE  SharesBounded'
<1>. DEFINE n == Cardinality(cf.list)
            m == Greatest
<1>1. CTypes /\ SharesBounded /\ cf' = cf
    BY DEF CInv, Pick
<1>2. /\ Best \in Eligible /\ Best \in cf.list /\ Best \in Backend
      /\ \A b \in Eligible : Raised[b] <= Raised[Best]
    BY <1>1, BestIsGreatest, EligibleListed
<1>3. /\ Eligible \subseteq cf.list /\ cf.list \subseteq Backend
      /\ IsFiniteSet(cf.list) /\ n \in Nat /\ m \in Nat
    BY <1>1, EligibleListed, GreatestWeight, FS_CardinalityType
<1>4. \A b \in Backend : /\ current[b] \in Int /\ weight[b] \in Nat /\ weight[b] <= m
                          /\ Raised[b] = IF b \in Eligible THEN current[b] + weight[b] ELSE current[b]
    BY <1>1, GreatestWeight DEF CTypes, Raised
<1>5. ASSUME NEW P, P \subseteq cf.list
      PROVE  Total(current, P) <= Cardinality(P) * (n - Cardinality(P)) * m
    BY <1>1, <1>5 DEF SharesBounded
<1>. HIDE DEF n, m
<1>6. ASSUME NEW P, P \subseteq cf.list
      PROVE  Total(current', P) <= Cardinality(P) * (n - Cardinality(P)) * m
  <2>1. PICK U, V, k, a : U = P \cap Eligible /\ V = P \ U /\ k = Cardinality(P) /\ a = Cardinality(U)
      OBVIOUS
  <2>2. /\ IsFiniteSet(P) /\ IsFiniteSet(U) /\ IsFiniteSet(V)
        /\ k \in Nat /\ a \in Nat /\ Cardinality(V) = k - a
    <3>1. IsFiniteSet(P) /\ IsFiniteSet(U) /\ P \cap U = U
        BY <1>3, <1>6, <2>1, FS_Subset, FS_Intersection
    <3>2. IsFiniteSet(V) /\ Cardinality(V) = Cardinality(P) - Cardinality(P \cap U)
        BY <2>1, <3>1, FS_Difference
    <3>. QED
        BY <2>1, <3>1, <3>2, FS_CardinalityType
  <2>3. /\ Total(current, P) \in Int /\ Total(weight, U) \in Nat /\ Cost \in Nat
        /\ Total(Raised, P) = Total(current, P) + Total(weight, U)
        /\ Total(current', P) = Total(Raised, P) - (IF Best \in P THEN Cost ELSE 0)
    <3>1. P \subseteq Backend
        BY <1>3, <1>6
    <3>. QED
        BY <1>1, <2>1, <3>1, PickTotals
  <2>4. Total(weight, U) <= Cost /\ Total(weight, U) <= a * m
    <3>1. U \subseteq Eligible
        BY <2>1
    <3>. QED
        BY <1>1, <2>1, <3>1, PartCost DEF m
  <2>5. PICK z : z = k * (n - k) * m
      OBVIOUS
  <2>6. Total(current, P) <= z
      BY <1>5, <1>6, <2>1, <2>5
  <2>7. z \in Int
      BY <1>3, <2>2, <2>5
  <2>8. Total(current', P) <= z
    <3>1. CASE Best \in P
        BY <2>3, <2>4, <2>6, <2>7, <3>1
    <3>2. CASE Best \notin P /\ U = {}
      <4>1. Total(weight, U) = 0
          BY <2>2, <3>2, TotalStep
      <4>. QED
          BY <2>3, <2>6, <2>7, <3>2, <4>1
    <3>3. CASE Best \notin P /\ U # {}
      <4>1. PICK r, s : r = Raised[Best] /\ s = Total(current', P)
          OBVIOUS
      <4>2. r \in Int /\ s \in Int /\ s = Total(Raised, P)
          BY <1>2, <1>4, <2>3, <3>3, <4>1
      <4>3. s <= (k + 1) * (n - (k + 1)) * m - r + (a + 1) * m
        <5>1. PICK Q : Q = P \cup {Best}
            OBVIOUS
        <5>2. Q \subseteq cf.list /\ Q \ {Best} = P /\ Best \in Q
            BY <1>2, <1>6, <3>3, <5>1
        <5>3. IsFiniteSet(Q) /\ Cardinality(Q) = k + 1
            BY <2>1, <2>2, <3>3, <5>1, FS_AddElement
        <5>4. \A b \in Q : current[b] \in Int
            BY <1>3, <1>4, <5>2
        <5>5. Total(current, Q) = current[Best] + Total(current, P)
            BY <5>2, <5>3, <5>4, TotalSplit
        <5>6. PICK y : y = (k + 1) * (n - (k + 1)) * m
            OBVIOUS
        <5>7. Total(current, Q) <= y /\ y \in Int
          <6>1. Total(current, Q) <= Cardinality(Q) * (n - Cardinality(Q)) * m
              BY <1>5, <5>2
          <6>2. y \in Int
              BY <1>3, <2>2, <5>6
          <6>. QED
              BY <5>3, <5>6, <6>1, <6>2
        <5>8. r = current[Best] + weight[Best] /\ current[Best] \in Int
              /\ weight[Best] \in Nat /\ weight[Best] <= m
            BY <1>2, <1>4, <4>1
        <5>9. (a + 1) * m = a * m + m /\ a * m \in Int
            BY <1>3, <2>2
        <5>10. s = Total(current, P) + Total(weight, U)
            BY <2>3, <4>2
        <5>11. s <= y - r + (a * m + m)
            BY <1>3, <2>3, <2>4, <4>2, <5>5, <5>7, <5>8, <5>9, <5>10
        <5>. QED
            BY <5>6, <5>9, <5>11
      <4>4. s <= a * r + (k - a) * (n - (k - a)) * m
        <5>1. U \subseteq P /\ V \subseteq cf.list
            BY <1>6, <2>1
        <5>2. \A b \in P : Raised[b] \in Int
            BY <1>3, <1>4, <1>6
        <5>3. Total(Raised, P) = Total(Raised, U) + Total(Raised, V)
            BY <2>1, <2>2, <5>1, <5>2, TotalUnion
        <5>4. Total(Raised, U) <= a * r /\ Total(Raised, U) \in Int
          <6>1. \A b \in U : Raised[b] \in Int /\ Raised[b] <= r
              BY <1>2, <2>1, <4>1, <5>2
          <6>. QED
              BY <2>1, <2>2, <4>2, <6>1, TotalAtMost, TotalType
        <5>5. Total(Raised, V) = Total(current, V) /\ Total(current, V) \in Int
          <6>1. \A b \in V : Raised[b] = current[b] /\ current[b] \in Int
              BY <1>3, <1>4, <1>6, <2>1
          <6>. QED
              BY <2>2, <6>1, TotalSame, TotalType
        <5>6. PICK y : y = (k - a) * (n - (k - a)) * m
            OBVIOUS
        <5>7. Total(current, V) <= y /\ y \in Int
            BY <1>3, <1>5, <2>2, <5>1, <5>6
        <5>8. a * r \in Int
            BY <2>2, <4>2
        <5>9. s <= a * r + y
            BY <4>2, <5>3, <5>4, <5>5, <5>7, <5>8
        <5>. QED
            BY <5>6, <5>9
      <4>5. s <= k * (n - k) * m
          BY <1>3, <2>2, <4>2, <4>3, <4>4, Between
      <4>. QED
          BY <2>5, <4>1, <4>5
    <3>. QED
        BY <3>1, <3>2, <3>3
  <2>. QED
      BY <2>1, <2>5, <2>8
<1>. QED
    BY <1>1, <1>6 DEF SharesBounded, n, m, Greatest

LEMMA PickTypes ==
    ASSUME UpstreamAssumption, CInv, Pick
    PROVE  CTypes' /\ Unlisted' /\ Counted'
<1>1. CTypes /\ Unlisted /\ Counted /\ cf' = cf /\ weight' = weight
    BY DEF CInv, Pick
<1>2. steady' \in BOOLEAN
    BY <1>1 DEF Pick, CTypes
<1>3. CASE Eligible = {}
    BY <1>1, <1>2, <1>3 DEF Pick, CTypes, Unlisted, Counted, AllZero
<1>4. CASE Eligible # {}
  <2>1. Best \in Eligible /\ Best \in Backend /\ Best \in cf.list /\ Cost \in Nat
      BY <1>1, <1>4, BestIsGreatest, EligibleListed, CostType
  <2>2. Raised \in [Backend -> Int]
      BY <1>1 DEF Raised, CTypes
  <2>3. /\ current' = [Raised EXCEPT ![Best] = @ - Cost]
        /\ counts' = IF AllZero(current') THEN [b \in Backend |-> 0] ELSE [counts EXCEPT ![Best] = @ + 1]
      BY <1>4 DEF Pick, AllZero
  <2>4. current' \in [Backend -> Int]
      BY <2>1, <2>2, <2>3
  <2>5. counts' \in [Backend -> Nat]
    <3>1. counts \in [Backend -> Nat] /\ counts[Best] + 1 \in Nat
        BY <1>1, <2>1 DEF CTypes
    <3>. QED
        BY <2>3, <3>1
  <2>6. CTypes'
      BY <1>1, <1>2, <2>4, <2>5 DEF CTypes
  <2>7. Unlisted'
    <3>1. ASSUME NEW b \in Backend, b \notin cf.list PROVE current'[b] = 0
      <4>1. b # Best /\ b \notin Eligible /\ current[b] = 0
          BY <1>1, <2>1, <3>1, EligibleListed DEF Unlisted
      <4>2. Raised[b] = 0
          BY <4>1 DEF Raised
      <4>. QED
          BY <2>2, <2>3, <4>1, <4>2
    <3>. QED
        BY <1>1, <3>1 DEF Unlisted
  <2>8. Counted'
      BY <2>3 DEF Counted, AllZero
  <2>. QED
      BY <2>6, <2>7, <2>8
<1>. QED
    BY <1>3, <1>4

\* Currents are what the backends are behind: a pick adds a weight to each, and takes a round.
LEMMA OneMorePick ==
    ASSUME NEW n \in Int, NEW w \in Int, NEW k \in Int, NEW c \in Int
    PROVE  /\ (n + 1) * w - k * c = (n * w - k * c) + w
           /\ (n + 1) * w - (k + 1) * c = (n * w - k * c) + w - c
OBVIOUS

LEMMA PickFair ==
    ASSUME UpstreamAssumption, CInv, Pick, Eligible # {}
    PROVE  Fair'
<1>1. CTypes /\ Counted /\ CTypes' /\ Counted' /\ weight' = weight
    BY PickTypes DEF CInv, Pick
<1>2. CASE AllZero(current)'
    BY <1>1, <1>2, RestartsNext DEF Counted
<1>3. CASE ~steady /\ ~AllZero(current)'
  <2>1. ~steady'
      BY <1>3 DEF Pick, AllZero
  <2>. QED
      BY <2>1 DEF Fair
<1>4. CASE steady /\ ~AllZero(current)'
  <2>1. /\ Best \in Eligible /\ Best \in Backend /\ Cost \in Nat /\ Cost >= 1
        /\ \A b \in Eligible : Raised[b] <= Raised[Best]
    <3>1. Best \in Eligible /\ \A b \in Eligible : Raised[b] <= Raised[Best]
        BY <1>1, BestIsGreatest
    <3>2. Best \in Backend /\ weight[Best] >= 1
        BY <1>1, <3>1, EligibleListed
    <3>3. Cost \in Nat /\ Cost >= weight[Best] /\ weight[Best] \in Nat
        BY <1>1, <3>1, <3>2, CostType DEF CTypes
    <3>4. Cost >= 1
        BY <3>2, <3>3
    <3>. QED
        BY <3>1, <3>2, <3>3, <3>4
  <2>2. \A b \in Backend : /\ current[b] \in Int /\ weight[b] \in Nat /\ counts[b] \in Nat
                            /\ Raised[b] = IF b \in Eligible THEN current[b] + weight[b] ELSE current[b]
      BY <1>1 DEF CTypes, Raised
  <2>3. \A b \in Backend : current'[b] = IF b = Best THEN Raised[b] - Cost ELSE Raised[b]
    <3>1. Raised \in [Backend -> Int]
        BY <2>2 DEF Raised
    <3>. QED
        BY <2>1, <3>1 DEF Pick
  <2>4. \A b \in Backend : counts'[b] = IF b = Best THEN counts[b] + 1 ELSE counts[b]
    <3>1. counts' = [counts EXCEPT ![Best] = @ + 1] /\ counts \in [Backend -> Nat]
        BY <1>1, <1>4 DEF Pick, AllZero, CTypes
    <3>. QED
        BY <2>1, <3>1
  <2>5. \A b \in Backend : IF b \in Eligible THEN current[b] = Lead(b) /\ -Cost < current[b]
                            ELSE current[b] = 0 /\ counts[b] = 0
      BY <1>4 DEF CInv, Fair
  <2>6. Eligible' = Eligible
      BY DEF Pick, health, Eligible
  <2>7. Cost' = Cost
      BY <1>1, <2>6 DEF Cost
  <2>8. PICK n : n = Total(counts, Backend)
      OBVIOUS
  <2>9. n \in Nat
      BY <2>2, <2>8, EligibleListed, <1>1, TotalNat
  <2>10. Total(counts', Backend) = n + 1
    <3>1. PICK g, h, P, x, v : g = counts /\ h = counts' /\ P = Backend /\ x = Best /\ v = 1
        OBVIOUS
    <3>2. /\ IsFiniteSet(P) /\ x \in P /\ v \in Int /\ \A b \in P : g[b] \in Int
          /\ \A b \in P : h[b] = IF b = x THEN g[b] + v ELSE g[b]
        BY <1>1, <2>1, <2>2, <2>4, <3>1, EligibleListed
    <3>3. Total(h, P) = Total(g, P) + v
        BY <3>2, TotalChange
    <3>. QED
        BY <2>8, <3>1, <3>3
  <2>11. Raised[Best] > 0
    <3>1. PICK P, U, V : P = Backend /\ U = Eligible /\ V = P \ U
        OBVIOUS
    <3>2. P \subseteq Backend /\ U = P \cap Eligible /\ U \subseteq Backend /\ U = U \cap Eligible /\ U \subseteq P
        BY <3>1 DEF Eligible
    <3>3. IsFiniteSet(P) /\ IsFiniteSet(U) /\ IsFiniteSet(V)
        BY <1>1, <3>1, EligibleListed, FS_Difference
    <3>4. Total(current, P) = Total(current, U) + Total(current, V)
      <4>1. \A b \in P : current[b] \in Int
          BY <2>2, <3>1
      <4>2. U \subseteq P /\ V = P \ U
          BY <3>1, <3>2
      <4>. QED
          BY <3>3, <4>1, <4>2, TotalUnion
    <3>5. Total(current, V) = 0
      <4>1. \A b \in V : current[b] = 0
          BY <2>5, <3>1
      <4>. QED
          BY <3>3, <4>1, TotalZero
    <3>6. Total(current, U) \in Int /\ Total(Raised, U) = Total(current, U) + Total(weight, U)
        BY <1>1, <3>2, PickTotals
    <3>7. Total(current, P) = 0 /\ Total(weight, U) = Cost
        BY <3>1 DEF CInv, Cost
    <3>8. Total(Raised, U) = Cost
        BY <2>1, <3>4, <3>5, <3>6, <3>7
    <3>9. \A b \in U : Raised[b] \in Int /\ Raised[b] <= Raised[Best]
        BY <2>1, <2>2, <3>1, <3>2
    <3>10. Raised[Best] \in Int
        BY <2>1, <2>2
    <3>11. Total(Raised, U) <= Cardinality(U) * Raised[Best]
        BY <3>3, <3>9, <3>10, TotalAtMost
    <3>12. \A c \in Nat, r \in Int : c * r >= 1 => r > 0
        OBVIOUS
    <3>13. Cardinality(U) \in Nat
        BY <3>3, FS_CardinalityType
    <3>14. PICK r : r = Raised[Best]
        OBVIOUS
    <3>15. r \in Int /\ Cardinality(U) * r >= 1
      <4>1. Cardinality(U) * r \in Int /\ Cost <= Cardinality(U) * r
          BY <3>8, <3>10, <3>11, <3>13, <3>14
      <4>. QED
          BY <2>1, <3>10, <3>14, <4>1
    <3>. QED
        BY <3>12, <3>13, <3>14, <3>15
  <2>12. ASSUME NEW b \in Eligible
         PROVE  current'[b] = Lead(b)' /\ -Cost < current'[b]
    <3>1. /\ b \in Backend /\ current[b] \in Int /\ weight[b] \in Nat /\ counts[b] \in Nat
          /\ Raised[b] = current[b] + weight[b]
        BY <2>2 DEF Eligible
    <3>2. current[b] = n * weight[b] - counts[b] * Cost /\ -Cost < current[b]
      <4>1. current[b] = Lead(b) /\ -Cost < current[b]
          BY <2>5, <3>1
      <4>. QED
          BY <2>8, <4>1 DEF Lead
    <3>3. Lead(b)' = (n + 1) * weight[b] - counts'[b] * Cost
        BY <1>1, <2>7, <2>10 DEF Lead
    <3>4. CASE b = Best
      <4>0. counts'[Best] = counts[Best] + 1 /\ current'[Best] = Raised[Best] - Cost
          BY <2>1, <2>3, <2>4
      <4>a. counts'[b] = counts[b] + 1
          BY <3>4, <4>0, Zenon
      <4>b. current'[b] = current[b] + weight[b] - Cost
        <5>1. current'[b] = Raised[b] - Cost
            BY <3>4, <4>0, Zenon
        <5>2. Raised[b] = current[b] + weight[b]
            BY <3>1
        <5>3. Raised[b] - Cost = (current[b] + weight[b]) - Cost
            BY <5>2, Zenon
        <5>4. \A x, y, z \in Int : (x + y) - z = x + y - z
            OBVIOUS
        <5>5. (current[b] + weight[b]) - Cost = current[b] + weight[b] - Cost
            BY <2>1, <3>1, <5>4
        <5>. QED
            BY <5>1, <5>3, <5>5
      <4>2. (n + 1) * weight[b] - (counts[b] + 1) * Cost = current[b] + weight[b] - Cost
          BY <2>1, <2>9, <3>1, <3>2, OneMorePick
      <4>3. -Cost < current'[b]
          BY <2>1, <2>11, <3>1, <3>4, <4>b
      <4>. QED
          BY <3>3, <4>a, <4>b, <4>2, <4>3
    <3>5. CASE b # Best
      <4>1. counts'[b] = counts[b] /\ current'[b] = current[b] + weight[b]
          BY <2>3, <2>4, <3>1, <3>5
      <4>2. (n + 1) * weight[b] - counts[b] * Cost = current[b] + weight[b]
          BY <2>1, <2>9, <3>1, <3>2, OneMorePick
      <4>3. -Cost < current'[b]
          BY <2>1, <3>1, <3>2, <4>1
      <4>. QED
          BY <3>3, <4>1, <4>2, <4>3
    <3>. QED
        BY <3>4, <3>5
  <2>13. ASSUME NEW b \in Backend, b \notin Eligible
         PROVE  current'[b] = 0 /\ counts'[b] = 0
      BY <2>1, <2>2, <2>3, <2>4, <2>5, <2>13
  <2>. QED
      BY <2>6, <2>7, <2>12, <2>13 DEF Fair
<1>. QED
    BY <1>2, <1>3, <1>4

LEMMA CInvStep ==
    ASSUME UpstreamAssumption, CInv, [Next]_uvars
    PROVE  CInv'
<1>1. CTypes
    BY DEF CInv
<1>2. CASE Idle
    BY <1>2, IdleKeeps
<1>3. CASE Change
    BY <1>3, ChangeKeeps
<1>4. CASE Pick /\ Eligible # {}
  <2>1. CTypes' /\ Unlisted' /\ Counted'
      BY <1>4, PickTypes
  <2>2. SharesBounded'
      BY <1>4, PickBounds
  <2>3. Fair'
      BY <1>4, PickFair
  <2>4. Total(current', Backend) = 0
      BY <1>4, PickConserves
  <2>. QED
      BY <2>1, <2>2, <2>3, <2>4 DEF CInv
<1>5. CASE Pick /\ Eligible = {}
  <2>1. UNCHANGED <<weight, down, offline, current, counts, cf>> /\ steady' = (steady \/ AllZero(current))
      BY <1>5 DEF Pick, health, AllZero
  <2>2. CASE steady' = steady
      BY <2>1, <2>2, IdleKeeps DEF Idle
  <2>3. CASE steady' # steady
    <3>1. steady' = AllZero(current)
        BY <1>1, <2>1, <2>3 DEF CTypes, AllZero
    <3>2. cf.list # {} /\ \A b \in cf.list : weight[b] \in cf.weights
        BY <1>1 DEF CTypes, UpstreamAssumption
    <3>3. Change
        BY <2>1, <3>1, <3>2 DEF Change
    <3>. QED
        BY <3>3, ChangeKeeps
  <2>. QED
      BY <2>2, <2>3
<1>. QED
    BY <1>1, <1>2, <1>3, <1>4, <1>5, StepsOfBalance DEF BalanceStep

LEMMA CInvAlways == Spec => []CInv
<1>. USE UpstreamAssumption
<1>1. Init => CInv
    BY Initially
<1>2. CInv /\ [Next]_uvars => CInv'
    BY CInvStep
<1>. QED
    BY <1>1, <1>2, PTL DEF Spec

\* However many backends there are, and whatever the admin and the checks do to them, no pick
\* makes or loses credit (app.cpp:249).
THEOREM NoCreditLost == Spec => []CreditConserved
<1>1. CInv => CreditConserved
    BY DEF CInv, CreditConserved
<1>. QED
    BY <1>1, CInvAlways, PTL

\* A current never exceeds the greatest weight times the number of the other backends, as credit
\* or as debt: a backend that comes back after any absence is not served, or passed over, longer.
THEOREM CreditNeverPilesUp == Spec => []CreditBounded
<1>1. ASSUME CInv PROVE CreditBounded
  <2>. DEFINE n == Cardinality(cf.list)
              m == Greatest
  <2>1. CTypes /\ SharesBounded /\ Unlisted /\ Total(current, Backend) = 0
      BY <1>1 DEF CInv
  <2>2. IsFiniteSet(cf.list) /\ cf.list \subseteq Backend /\ IsFiniteSet(Backend) /\ cf.list # {}
      BY <2>1, UpstreamAssumption, EligibleListed DEF CTypes, UpstreamAssumption
  <2>3. n \in Nat /\ n >= 1 /\ m \in Nat
      BY <2>1, <2>2, UpstreamAssumption, GreatestWeight, FS_CardinalityType, FS_EmptySet
  <2>4. \A b \in Backend : current[b] \in Int
      BY <2>1 DEF CTypes
  <2>5. ASSUME NEW P, P \subseteq cf.list
        PROVE  Total(current, P) <= Cardinality(P) * (n - Cardinality(P)) * m
      BY <2>1, <2>5 DEF SharesBounded
  <2>. HIDE DEF n, m
  <2>6. PICK z : z = (n - 1) * m
      OBVIOUS
  <2>7. z \in Nat
      BY <2>3, <2>6
  <2>8. ASSUME NEW b \in Backend PROVE -z <= current[b] /\ current[b] <= z
    <3>1. CASE b \notin cf.list
        BY <2>1, <2>7, <3>1 DEF Unlisted
    <3>2. CASE b \in cf.list
      <4>1. PICK P, Q : P = {b} /\ Q = cf.list \ {b}
          OBVIOUS
      <4>2. /\ IsFiniteSet(P) /\ Cardinality(P) = 1 /\ IsFiniteSet(Q) /\ Cardinality(Q) = n - 1
          BY <2>2, <3>2, <4>1, FS_Singleton, FS_RemoveElement DEF n
      <4>3. P \subseteq cf.list /\ Q \subseteq cf.list
          BY <3>2, <4>1
      <4>4. Total(current, P) <= 1 * (n - 1) * m /\ Total(current, Q) <= (n - 1) * (n - (n - 1)) * m
          BY <2>5, <4>2, <4>3
      <4>5. 1 * (n - 1) * m = z /\ (n - 1) * (n - (n - 1)) * m = z
          BY <2>3, <2>6
      <4>6. Total(current, P) = current[b]
        <5>1. P \ {b} = {} /\ b \in P /\ \A s \in P : current[s] \in Int
            BY <2>4, <4>1
        <5>2. Total(current, P) = current[b] + Total(current, P \ {b})
            BY <4>2, <5>1, TotalSplit
        <5>3. Total(current, {}) = 0
            BY <4>2, TotalStep
        <5>. QED
            BY <2>4, <5>1, <5>2, <5>3
      <4>7. Total(current, Q) = 0 - current[b]
        <5>1. PICK L, R : L = cf.list /\ R = Backend \ L
            OBVIOUS
        <5>2. /\ IsFiniteSet(L) /\ IsFiniteSet(R) /\ b \in L /\ Q = L \ {b}
              /\ \A s \in L : current[s] \in Int
              /\ \A s \in R : current[s] = 0
            BY <2>1, <2>2, <2>4, <3>2, <4>1, <5>1, FS_Difference DEF Unlisted
        <5>3. Total(current, Backend) = Total(current, L) + Total(current, R)
          <6>1. PICK B : B = Backend
              OBVIOUS
          <6>2. IsFiniteSet(B) /\ L \subseteq B /\ R = B \ L /\ \A s \in B : current[s] \in Int
              BY <2>2, <2>4, <5>1, <6>1
          <6>3. Total(current, B) = Total(current, L) + Total(current, R)
              BY <6>2, TotalUnion
          <6>. QED
              BY <6>1, <6>3
        <5>4. Total(current, R) = 0
            BY <5>2, TotalZero
        <5>5. Total(current, L) = current[b] + Total(current, Q)
            BY <5>2, TotalSplit
        <5>6. Total(current, Q) \in Int /\ current[b] \in Int
          <6>1. \A s \in Q : current[s] \in Int
              BY <5>2
          <6>. QED
              BY <2>4, <4>2, <6>1, TotalType
        <5>7. Total(current, L) \in Int
            BY <5>2, TotalType
        <5>. QED
            BY <2>1, <5>3, <5>4, <5>5, <5>6, <5>7
      <4>. QED
          BY <2>4, <2>7, <4>4, <4>5, <4>6, <4>7
    <3>. QED
        BY <3>1, <3>2
  <2>. QED
      BY <2>6, <2>8 DEF CreditBounded, n, m, Greatest
<1>. QED
    BY <1>1, CInvAlways, PTL

LEMMA RoundsOf ==
    ASSUME NEW n \in Nat, NEW k \in Nat, k >= 1, n % k = 0
    PROVE  n \div k \in Nat /\ n = (n \div k) * k
OBVIOUS

\* A multiple of k that is above -k is not below 0.
LEMMA NoPartOf ==
    ASSUME NEW q \in Nat, NEW k \in Nat, k >= 1, NEW w \in Nat, NEW h \in Nat, -k < (q * k) * w - h * k
    PROVE  (q * k) * w - h * k >= 0
<1>1. PICK d : d = q * w - h
    OBVIOUS
<1>2. q * w \in Int /\ d \in Int
    BY <1>1
<1>3. (q * k) * w - h * k = d * k
    BY <1>1
<1>4. ASSUME d <= -1 PROVE d * k <= -k
    BY <1>2, <1>4
<1>5. ASSUME d >= 0 PROVE d * k >= 0
    BY <1>2, <1>5
<1>6. -k < d * k /\ d * k \in Int
    BY <1>2, <1>3
<1>. QED
    BY <1>2, <1>3, <1>4, <1>5, <1>6

\* Under a configuration that stays no backend is ahead of its share by a pick, and after each
\* round all have exactly their share, for any number of backends and any weights: what is ahead
\* is a negative current, which is never below the cost of a pick.
THEOREM SharesAreKept == Spec => []Proportional
<1>1. ASSUME CInv, steady, NEW b \in Eligible,
             NEW n, n = Total(counts, Backend), NEW o, o = counts[b] * Cost - n * weight[b]
      PROVE  o < Cost /\ (n % Cost = 0 => o = 0)
  <2>1. CTypes /\ Fair /\ Total(current, Backend) = 0
      BY <1>1 DEF CInv
  <2>2. /\ Eligible \subseteq Backend /\ IsFiniteSet(Eligible) /\ IsFiniteSet(Backend)
        /\ \A c \in Eligible : weight[c] >= 1
      BY <2>1, UpstreamAssumption, EligibleListed DEF Eligible
  <2>3. \A c \in Backend : current[c] \in Int /\ weight[c] \in Nat /\ counts[c] \in Nat
      BY <2>1 DEF CTypes
  <2>4. Cost \in Nat /\ Cost >= 1
    <3>1. Cost \in Nat /\ Cost >= weight[b]
        BY <2>1, UpstreamAssumption, CostType
    <3>. QED
        BY <2>2, <2>3, <3>1
  <2>5. n \in Nat
      BY <1>1, <2>2, <2>3, TotalNat
  <2>6. ASSUME NEW c \in Eligible
        PROVE  current[c] = n * weight[c] - counts[c] * Cost /\ -Cost < current[c]
    <3>1. current[c] = Lead(c) /\ -Cost < current[c]
        BY <1>1, <2>1, <2>2 DEF Fair
    <3>. QED
        BY <1>1, <3>1 DEF Lead
  <2>7. ASSUME NEW c \in Backend, c \notin Eligible
        PROVE  current[c] = 0
      BY <1>1, <2>1, <2>7 DEF Fair
  <2>8. o = 0 - current[b] /\ o < Cost
    <3>1. current[b] = n * weight[b] - counts[b] * Cost /\ -Cost < current[b]
        BY <2>6
    <3>2. weight[b] \in Nat /\ counts[b] \in Nat /\ current[b] \in Int
        BY <2>2, <2>3
    <3>3. n * weight[b] \in Int /\ counts[b] * Cost \in Int
        BY <2>4, <2>5, <3>2
    <3>. QED
        BY <1>1, <2>4, <3>1, <3>2, <3>3
  <2>9. ASSUME n % Cost = 0 PROVE current[b] = 0
    <3>1. PICK q : q = n \div Cost
        OBVIOUS
    <3>2. q \in Nat /\ n = q * Cost
      <4>1. PICK k : k = Cost
          OBVIOUS
      <4>. QED
          BY <2>4, <2>5, <2>9, <3>1, <4>1, RoundsOf
    <3>3. ASSUME NEW c \in Eligible PROVE current[c] \in Nat
      <4>1. current[c] = n * weight[c] - counts[c] * Cost /\ -Cost < current[c]
          BY <2>6
      <4>2. weight[c] \in Nat /\ counts[c] \in Nat /\ current[c] \in Int
          BY <2>2, <2>3
      <4>3. PICK k, w, h : k = Cost /\ w = weight[c] /\ h = counts[c]
          OBVIOUS
      <4>4. k \in Nat /\ k >= 1 /\ w \in Nat /\ h \in Nat /\ -k < (q * k) * w - h * k
          BY <2>4, <3>2, <4>1, <4>2, <4>3
      <4>5. (q * k) * w - h * k >= 0
          BY <3>2, <4>4, NoPartOf
      <4>. QED
          BY <3>2, <4>1, <4>2, <4>3, <4>5
    <3>4. PICK P, U, V : P = Backend /\ U = Eligible /\ V = P \ U
        OBVIOUS
    <3>5. U \subseteq P /\ IsFiniteSet(P) /\ IsFiniteSet(U) /\ IsFiniteSet(V)
        BY <2>2, <3>4, FS_Difference
    <3>6. Total(current, P) = Total(current, U) + Total(current, V)
      <4>1. \A c \in P : current[c] \in Int
          BY <2>3, <3>4
      <4>. QED
          BY <3>4, <3>5, <4>1, TotalUnion
    <3>7. Total(current, V) = 0
      <4>1. \A c \in V : current[c] = 0
          BY <2>7, <3>4
      <4>. QED
          BY <3>5, <4>1, TotalZero
    <3>8. \A c \in U : current[c] \in Nat
        BY <3>3, <3>4
    <3>9. Total(current, U) \in Nat
        BY <3>5, <3>8, TotalNat
    <3>10. Total(current, U) = 0
        BY <2>1, <3>4, <3>6, <3>7, <3>9
    <3>11. \A c \in U : current[c] = 0
        BY <3>5, <3>8, <3>10, TotalNone
    <3>. QED
        BY <3>4, <3>11
  <2>. QED
      BY <2>8, <2>9
<1>2. CInv => Proportional
    BY <1>1 DEF Proportional
<1>. QED
    BY <1>2, CInvAlways, PTL

----------------------------------------------------------------------------
RestTypes == down \in [Backend -> BOOLEAN] /\ check \in [Backend -> CheckState]

LEMMA RestTypesStep == ASSUME RestTypes, [Next]_uvars PROVE RestTypes'
<1>. USE DEF RestTypes, CheckState
<1>1. CASE UNCHANGED uvars
    BY <1>1 DEF uvars, balance, health
<1>2. CASE Pick
    BY <1>2 DEF Pick, health
<1>3. ASSUME NEW b \in cf.list, NEW w \in cf.weights, SetWeight(b, w)
      PROVE  RestTypes'
    BY <1>3 DEF SetWeight, health
<1>4. ASSUME NEW b \in cf.list, NEW st \in BOOLEAN, SetDown(b, st)
      PROVE  RestTypes'
    BY <1>4 DEF SetDown, health
<1>5. ASSUME NEW b \in cf.list, NEW late \in BOOLEAN,
             CheckStart(b) \/ CheckOpen(b) \/ CheckConnectFail(b) \/ CheckUnanswered(b)
             \/ CheckAnswered(b, late)
      PROVE  RestTypes'
    BY <1>5 DEF CheckStart, CheckOpen, CheckConnectFail, CheckUnanswered, CheckAnswered,
                SetCheck, balance
<1>. QED
    BY <1>1, <1>2, <1>3, <1>4, <1>5 DEF Next

\* Every variable keeps its type, the weights within those that are configured and the counters
\* of good answers within 0..3.
THEOREM TypesAreKept == Spec => []TypeOK
<1>1. Init => RestTypes
    BY DEF Init, RestTypes, CheckState
<1>2. Spec => []RestTypes
    BY <1>1, RestTypesStep, PTL DEF Spec
<1>3. CInv /\ HInv /\ RestTypes => TypeOK
  <2>1. SUFFICES ASSUME CInv, HInv, RestTypes PROVE TypeOK
      OBVIOUS
  <2>2. weight \in [Backend -> cf.weights \cup {0}]
      BY <2>1 DEF CInv, CTypes
  <2>. QED
      BY <2>1, <2>2 DEF TypeOK, CInv, CTypes, HInv, Types, RestTypes
<1>. QED
    BY <1>2, <1>3, HInvAlways, CInvAlways, PTL

==============================================================================
