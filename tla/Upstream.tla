------------------------------ MODULE Upstream ------------------------------
(***************************************************************************)
(* The backends of one app: the smooth weighted round robin that gives a   *)
(* frontend its backend (app.cpp), the health check of each                *)
(* (health_check.cpp), and the admin calls that change weight and down.    *)
(* Every operation on the list is under app::backend_mtx: one action each.  *)
(***************************************************************************)
EXTENDS Integers, FiniteSets, FiniteSetsExt

CONSTANTS Backend,      \* positions in cf->backend_list
          Configs       \* the configurations examined, each of type Config

\* weight, down: the admin API changes them.  checks: the backends have a
\* health_check_uri.  sync_fail: connect(2) can fail at once instead of in progress.
EventCases == {"weight", "down", "checks", "sync_fail"}

\* list: the backends that are configured.  weights: those of the configuration and
\* of the admin API.  picks: bound on the picks in a row without all currents being
\* zero, when something changed on the way (else a round ends).
Config == [list : SUBSET Backend, weights : SUBSET Nat, events : SUBSET EventCases, picks : Nat]

ASSUME UpstreamAssumption ==
    /\ Backend \subseteq Nat /\ IsFiniteSet(Backend)
    /\ \A c \in Configs : /\ c.list \subseteq Backend /\ c.list # {}
                          /\ c.weights \subseteq Nat /\ IsFiniteSet(c.weights)
                          /\ c.events \subseteq EventCases /\ c.picks \in Nat

VARIABLES
    weight, down, offline,    \* app::backend, one function per field
    current,
    counts,                   \* hits, since all currents were zero
    ok_times,                 \* health_check_ok_times; 3 stands for more than 2
    check,                    \* http_health_check::conn
    last,                     \* history: verdicts of the last checks, newest first
    steady,                   \* history: no change of a weight, of down or of
                              \* offline since the currents were all zero
    cf                        \* app::conf: what is configured, and may happen; fixed

balance == <<weight, down, current, counts>>
health  == <<offline, ok_times, check, last>>
uvars   == <<balance, health, steady, cf>>

CheckState == {"none", "connecting", "waiting"}
Verdict    == {"good", "bad", "never"}

Init ==
    /\ cf \in Configs
    /\ weight \in {w \in [Backend -> cf.weights \cup {0}] :
                     \A b \in Backend : w[b] \in IF b \in cf.list THEN cf.weights ELSE {0}}
    /\ down = [b \in Backend |-> FALSE] /\ offline = [b \in Backend |-> FALSE]
    /\ current = [b \in Backend |-> 0] /\ counts = [b \in Backend |-> 0]
    /\ ok_times = [b \in Backend |-> 0] /\ check = [b \in Backend |-> "none"]
    /\ last = [b \in Backend |-> [i \in 1..3 |-> "never"]]
    /\ steady = TRUE

----------------------------------------------------------------------------
(* app::get_backend_by_smooth_wrr                                          *)

Total(f, S) == MapThenSumSet(LAMBDA b : f[b], S)

Eligible == {b \in Backend : ~down[b] /\ weight[b] >= 1 /\ ~offline[b]}

Raised == [b \in Backend |-> IF b \in Eligible THEN current[b] + weight[b] ELSE current[b]]

\* (mutant) the greatest weight is chosen, not the greatest current
BestByWeight == CHOOSE b \in Eligible :
                    \A c \in Eligible : weight[c] < weight[b] \/ (weight[c] = weight[b] /\ b <= c)

\* the first of those whose raised current is the greatest
Best == CHOOSE b \in Eligible :
            \A c \in Eligible : Raised[c] < Raised[b] \/ (Raised[c] = Raised[b] /\ b <= c)

\* (mutant) what is taken from the best one counts every backend of the list
CostOfAll == Total(weight, Backend)

Cost == Total(weight, Eligible)

Pick ==
    /\ steady \/ Total(counts, Backend) < cf.picks
    /\ IF Eligible = {} THEN UNCHANGED <<current, counts>>
       ELSE /\ current' = [Raised EXCEPT ![Best] = @ - Cost]
            /\ counts'  = IF \A b \in Backend : current'[b] = 0
                          THEN [b \in Backend |-> 0] ELSE [counts EXCEPT ![Best] = @ + 1]
    /\ steady' = (steady \/ \A b \in Backend : current'[b] = 0)
    /\ UNCHANGED <<weight, down, health, cf>>

----------------------------------------------------------------------------
(* admin::set_backend_weight and set_backend_down                          *)

Changed == steady' = \A b \in Backend : current[b] = 0

SetWeight(b, w) ==
    /\ "weight" \in cf.events
    /\ weight' = [weight EXCEPT ![b] = w]
    /\ Changed /\ UNCHANGED <<down, current, counts, health, cf>>

SetDown(b, st) ==
    /\ "down" \in cf.events
    /\ down' = [down EXCEPT ![b] = st]
    /\ Changed /\ UNCHANGED <<weight, current, counts, health, cf>>

----------------------------------------------------------------------------
(* http_health_check                                                       *)

Note(b, v) == last' = [last EXCEPT ![b] = <<v, @[1], @[2]>>]

\* (mutant) a failure does not restart the count of good answers
BackendOfflineKeepsCount(b) ==
    /\ offline' = [offline EXCEPT ![b] = TRUE] /\ UNCHANGED ok_times
    /\ Note(b, "bad") /\ Changed

BackendOffline(b) ==
    /\ ok_times' = [ok_times EXCEPT ![b] = 0] /\ offline' = [offline EXCEPT ![b] = TRUE]
    /\ Note(b, "bad") /\ Changed

OneMoreOk(b) == IF ok_times[b] < 3 THEN ok_times[b] + 1 ELSE 3

BackendOnline(b) ==
    /\ ok_times' = [ok_times EXCEPT ![b] = OneMoreOk(b)]
    /\ offline'  = [offline EXCEPT ![b] = @ /\ OneMoreOk(b) <= 2]
    /\ Note(b, "good") /\ Changed

SetCheck(b, s) == check' = [check EXCEPT ![b] = s] /\ UNCHANGED <<balance, cf>>

\* on_timeout of the periodic timer: nothing while a check is under way.  A connect
\* that fails at once deletes the connection and tells the app nothing; one that
\* succeeds at once is open.
CheckStart(b) ==
    /\ "checks" \in cf.events
    /\ check[b] = "none"
    /\ \/ \E s \in {"connecting", "waiting"} : SetCheck(b, s) /\ UNCHANGED last
       \/ "sync_fail" \in cf.events /\ SetCheck(b, "none") /\ Note(b, "bad")
    /\ UNCHANGED <<offline, ok_times, steady>>

\* connected: on_open sends the request, or cannot be polled and closes
CheckOpen(b) ==
    /\ check[b] = "connecting"
    /\ \/ SetCheck(b, "waiting") /\ UNCHANGED <<offline, ok_times, last, steady>>
       \/ SetCheck(b, "none") /\ BackendOffline(b)

\* (mutant) a refused connection is not counted
CheckConnectFailSilent(b) ==
    /\ check[b] = "connecting"
    /\ SetCheck(b, "none") /\ Note(b, "bad")
    /\ UNCHANGED <<offline, ok_times, steady>>

\* on_connect_fail: refused, or connect_backend_timeout
CheckConnectFail(b) ==
    /\ check[b] = "connecting"
    /\ SetCheck(b, "none") /\ BackendOffline(b)

\* any bytes received in time are a good answer
CheckAnswered(b, late) ==
    /\ check[b] = "waiting"
    /\ SetCheck(b, "none")
    /\ IF late THEN BackendOffline(b) ELSE BackendOnline(b)

\* closed without an answer, or health_check_timeout
CheckUnanswered(b) ==
    /\ check[b] = "waiting"
    /\ SetCheck(b, "none") /\ BackendOffline(b)

Next ==
    \/ Pick
    \/ \E b \in cf.list :
         \/ \E w \in cf.weights : SetWeight(b, w)
         \/ \E st \in BOOLEAN : SetDown(b, st)
         \/ CheckStart(b) \/ CheckOpen(b) \/ CheckConnectFail(b) \/ CheckUnanswered(b)
         \/ \E late \in BOOLEAN : CheckAnswered(b, late)

Spec == Init /\ [][Next]_uvars

----------------------------------------------------------------------------
(* Properties                                                              *)

\* Every variable has its type.
TypeOK ==
    /\ cf \in Configs
    /\ weight \in [Backend -> cf.weights \cup {0}] /\ down \in [Backend -> BOOLEAN]
    /\ offline \in [Backend -> BOOLEAN] /\ ok_times \in [Backend -> 0..3]
    /\ current \in [Backend -> Int] /\ counts \in [Backend -> Nat]
    /\ check \in [Backend -> CheckState] /\ last \in [Backend -> [1..3 -> Verdict]]
    /\ steady \in BOOLEAN

\* The currents of all backends always sum to zero, whatever changes of weight, down
\* and offline come between two picks: no credit is made or lost (app.cpp:249).
CreditConserved == Total(current, Backend) = 0

\* A backend that was away does not come back with credit or debt that others pay for
\* without bound: a current is at most the greatest weight for each of the others, be it
\* credit or debt, whatever changes of weight, down and offline come between two picks.
CreditBounded ==
    LET most == (Cardinality(cf.list) - 1) * Max(cf.weights) IN
    \A b \in Backend : -most <= current[b] /\ current[b] <= most

\* With a fixed configuration no backend is ahead of its weight's share by a whole pick
\* after any number of picks, and each is exact after each round: smooth, without the
\* bursts of plain weighted round robin.  (A backend may be behind by more than a pick:
\* six of weights 1, 3, 9, 9, 1, 9.  It is behind by current[b] / Cost picks.)
Proportional ==
    LET n == Total(counts, Backend)
        off(b) == counts[b] * Cost - n * weight[b]
    IN steady => \A b \in Eligible : off(b) < Cost /\ (n % Cost = 0 => off(b) = 0)

\* "go offline after one failure" (niubix.json:48): "connect fail or not response or
\* response timeout or conn exception closed, and include add_ev fail"
\* (health_check.cpp:60) takes the backend offline.  Only a connect that fails at once
\* is not counted (health_check.cpp:100).
FailedCheckTakesOffline ==
    "sync_fail" \notin cf.events => \A b \in Backend : last[b][1] = "bad" => offline[b]

\* "resume online after three consecutive successes" (niubix.json:48, app.cpp:209), with the
\* same exception.
OnlineNeedsThree ==
    [][\A b \in Backend : offline[b] /\ ~offline'[b] =>
          "sync_fail" \in cf.events \/ \A i \in 1..3 : last'[b][i] = "good"]_uvars

============================================================================
