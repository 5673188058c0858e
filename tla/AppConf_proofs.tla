--------------------------- MODULE AppConf_proofs ---------------------------
(***************************************************************************)
(* What load_conf's sets guarantee of the apps it lets through, for every  *)
(* configuration of any length: unique names, one default app at most, and *)
(* a Host that leads to the app that claims it.                            *)
(***************************************************************************)
EXTENDS AppConf, SequenceTheorems, WellFoundedInduction, TLAPS

\* app_name_set and app_host_set are the names and hosts of alls; an entry that is not
\* tcp has a host that no entry before it has, and only the default's is empty.
IInv ==
    /\ alls \in Seq(Conf)
    /\ app_name_set = {alls[i].name : i \in DOMAIN alls}
    /\ app_host_set = {alls[i].host : i \in DOMAIN alls}
    /\ NamesUnique
    /\ \A i, j \in DOMAIN alls :
          i < j /\ alls[j].protocol # "tcp" => alls[i].host # alls[j].host
    /\ \A i \in DOMAIN alls : /\ alls[i].protocol = "tcp" => alls[i].host = ""
                              /\ alls[i].is_default => alls[i].host = "" /\ alls[i].protocol # "tcp"

LEMMA PositionsAreNat == ASSUME IInv PROVE DOMAIN alls \subseteq Nat
<1>1. alls \in Seq(Conf)
  BY DEF IInv
<1> QED
  BY <1>1, LenProperties

LEMMA Trichotomy == \A x, y \in Nat : x < y \/ x = y \/ y < x
OBVIOUS

\* A set of positions that is not empty has a first one.
LEMMA FirstExists ==
    ASSUME NEW S \in SUBSET Nat, S # {}
    PROVE  FirstOf(S) \in S /\ \A j \in S : FirstOf(S) <= j
<1>1. PICK m \in S : \A k \in S : <<k, m>> \notin OpToRel(<, Nat)
  BY WFMin, NatLessThanWellFounded, Zenon
<1>2. \A k \in S : ~(k < m)
  BY <1>1, Zenon DEF OpToRel
<1>3. \A k \in S : m <= k
  BY <1>2
<1> QED
  BY <1>3 DEF FirstOf

\* The invariant is inductive: an entry that is let through is new in both sets.
LEMMA IInvHolds == Spec => []IInv
<1>1. Init => IInv
  <2> SUFFICES ASSUME Init PROVE IInv
    OBVIOUS
  <2>1. alls = <<>> /\ alls \in Seq(Conf)
    BY EmptySeq DEF Init
  <2>2. DOMAIN alls = {}
    BY <2>1
  <2> QED
    BY <2>1, <2>2 DEF Init, IInv, NamesUnique
<1>2. IInv /\ [Next]_avars => IInv'
  <2> SUFFICES ASSUME IInv, [Next]_avars PROVE IInv'
    OBVIOUS
  <2>1. ASSUME NEW e \in Entry, LoadApp(e) PROVE IInv'
    <3> DEFINE r == [name |-> e.name, listen |-> e.listen, protocol |-> e.protocol,
                     host |-> HttpHost(e), is_default |-> IsDefault(e)]
    <3>1. /\ e.name \in Name /\ e.listen \in Listen /\ e.protocol \in Protocol
          /\ e.name \notin app_name_set
          /\ HasHost(e) => HttpHost(e) \notin app_host_set
          /\ HttpHost(e) \in Host \cup {""} /\ IsDefault(e) \in BOOLEAN
      BY <2>1 DEF LoadApp, Refused, NameRefused, ProtocolRefused, HostRefused, Entry, HttpHost,
                  IsDefault, HasHost, Protocol
    <3>2. /\ r \in Conf
          /\ r.protocol = "tcp" => r.host = ""
          /\ r.protocol # "tcp" => r.host \notin app_host_set
          /\ r.is_default => r.host = "" /\ r.protocol # "tcp"
      BY <3>1 DEF Conf, HasHost, HttpHost, IsDefault, Protocol
    <3>3. /\ alls' = Append(alls, r)
          /\ app_name_set' = app_name_set \cup {r.name}
          /\ app_host_set' = app_host_set \cup {r.host}
      BY <2>1 DEF LoadApp
    <3> HIDE DEF r
    <3>4. /\ alls' \in Seq(Conf)
          /\ DOMAIN alls' = DOMAIN alls \cup {Len(alls) + 1}
          /\ DOMAIN alls = 1..Len(alls) /\ Len(alls) \in Nat
          /\ \A i \in DOMAIN alls : alls'[i] = alls[i]
          /\ alls'[Len(alls) + 1] = r
      <4>1. alls \in Seq(Conf) /\ r \in Conf
        BY <3>2 DEF IInv
      <4> QED
        BY <3>3, <4>1, AppendProperties, LenProperties
    <3> DEFINE n == Len(alls) + 1
    <3>5. /\ app_name_set = {alls[i].name : i \in DOMAIN alls}
          /\ app_host_set = {alls[i].host : i \in DOMAIN alls}
      BY DEF IInv
    <3>6. app_name_set' = {alls'[i].name : i \in DOMAIN alls'}
      <4>1. {alls'[i].name : i \in DOMAIN alls'}
              = {alls[i].name : i \in DOMAIN alls} \cup {r.name}
        <5>1. \A x : x \in {alls'[i].name : i \in DOMAIN alls'}
                        <=> x \in {alls[i].name : i \in DOMAIN alls} \cup {r.name}
          BY <3>4, Zenon
        <5> QED
          BY <5>1, SetExtensionality
      <4> QED
        BY <3>3, <3>5, <4>1, Zenon
    <3>7. app_host_set' = {alls'[i].host : i \in DOMAIN alls'}
      <4>1. {alls'[i].host : i \in DOMAIN alls'}
              = {alls[i].host : i \in DOMAIN alls} \cup {r.host}
        <5>1. \A x : x \in {alls'[i].host : i \in DOMAIN alls'}
                        <=> x \in {alls[i].host : i \in DOMAIN alls} \cup {r.host}
          BY <3>4, Zenon
        <5> QED
          BY <5>1, SetExtensionality
      <4> QED
        BY <3>3, <3>5, <4>1, Zenon
    <3>8. \A i \in DOMAIN alls : /\ alls[i].name # r.name
                                 /\ r.protocol # "tcp" => alls[i].host # r.host
      <4>1. r.name \notin app_name_set
        BY <3>1 DEF r
      <4> QED
        BY <3>2, <3>5, <4>1, Zenon
    <3>9. \A i \in DOMAIN alls : i \in Nat /\ i < n
      BY <3>4
    <3>10. NamesUnique'
      <4> SUFFICES ASSUME NEW i \in DOMAIN alls', NEW j \in DOMAIN alls',
                          alls'[i].name = alls'[j].name
                   PROVE  i = j
        BY DEF NamesUnique
      <4>1. CASE i \in DOMAIN alls /\ j \in DOMAIN alls
        BY <3>4, <4>1, Zenon DEF IInv, NamesUnique
      <4>2. CASE i = n \/ j = n
        BY <3>4, <3>8, <4>2, Zenon
      <4> QED
        BY <3>4, <4>1, <4>2
    <3>11. \A i, j \in DOMAIN alls' :
             i < j /\ alls'[j].protocol # "tcp" => alls'[i].host # alls'[j].host
      <4> SUFFICES ASSUME NEW i \in DOMAIN alls', NEW j \in DOMAIN alls',
                          i < j, alls'[j].protocol # "tcp"
                   PROVE  alls'[i].host # alls'[j].host
        OBVIOUS
      <4>1. CASE i \in DOMAIN alls /\ j \in DOMAIN alls
        BY <3>4, <4>1, Zenon DEF IInv
      <4>2. CASE i \in DOMAIN alls /\ j = n
        BY <3>4, <3>8, <4>2, Zenon
      <4>3. CASE i = n
        <5>1. ~(n < n) /\ \A k \in DOMAIN alls : ~(n < k)
          BY <3>4
        <5> QED
          BY <3>4, <4>3, <5>1, Zenon
      <4> QED
        BY <3>4, <4>1, <4>2, <4>3
    <3>12. \A i \in DOMAIN alls' :
              /\ alls'[i].protocol = "tcp" => alls'[i].host = ""
              /\ alls'[i].is_default => alls'[i].host = "" /\ alls'[i].protocol # "tcp"
      <4> SUFFICES ASSUME NEW i \in DOMAIN alls'
                   PROVE  /\ alls'[i].protocol = "tcp" => alls'[i].host = ""
                          /\ alls'[i].is_default
                                => alls'[i].host = "" /\ alls'[i].protocol # "tcp"
        OBVIOUS
      <4>1. CASE i \in DOMAIN alls
        BY <3>4, <4>1, Zenon DEF IInv
      <4>2. CASE i = n
        BY <3>2, <3>4, <4>2, Zenon
      <4> QED
        BY <3>4, <4>1, <4>2
    <3> QED
      BY <3>4, <3>6, <3>7, <3>10, <3>11, <3>12 DEF IInv
  <2>2. CASE RefuseApp \/ LoadEnd \/ RunAll \/ UNCHANGED avars
    BY <2>2 DEF RefuseApp, LoadEnd, RunAll, avars, sets, IInv, NamesUnique
  <2> QED
    BY <2>1, <2>2 DEF Next
<1> QED
  BY <1>1, <1>2, PTL DEF Spec

\* The names of the apps are unique, however many entries are read.
THEOREM NamesAreUnique == Spec => []NamesUnique
<1>1. IInv => NamesUnique
  BY DEF IInv
<1> QED
  BY <1>1, IInvHolds, PTL

\* All ports together have one default app at most.
THEOREM OneDefaultOnly == Spec => []OneDefault
<1>1. IInv => OneDefault
  <2> SUFFICES ASSUME IInv, NEW i \in DOMAIN alls, NEW j \in DOMAIN alls,
                      alls[i].is_default, alls[j].is_default, i # j
               PROVE  FALSE
    BY DEF OneDefault
  <2>1. DOMAIN alls \subseteq Nat
    BY PositionsAreNat
  <2>2. i < j \/ j < i
    BY <2>1
  <2> QED
    BY <2>2 DEF IInv
<1> QED
  BY <1>1, IInvHolds, PTL

\* A Host that an app claims leads to that app, or to another one that claims it in
\* another case; no other configuration of ports, order or default changes that.
THEOREM HostDecidesAlways == ASSUME "" \notin Host PROVE Spec => []HostDecides
<1>1. IInv => HostDecides
  <2> SUFFICES ASSUME IInv, NEW h \in Host, NEW i \in DOMAIN alls, alls[i].host = h
               PROVE  LET m == MatchAppByHost(h) IN
                      m = i \/ (m \in DOMAIN alls /\ alls[m].host # h /\ SameHost(alls[m].host, h))
    BY DEF HostDecides
  <2> DEFINE exact == {k \in DOMAIN alls : SameHost(alls[k].host, h)}
             m == FirstOf(exact)
  <2>1. i \in exact /\ exact \in SUBSET Nat /\ DOMAIN alls \subseteq Nat
    BY PositionsAreNat DEF SameHost
  <2>2. m \in exact
    BY <2>1, FirstExists
  <2>3. MatchAppByHost(h) = m
    BY <2>1 DEF MatchAppByHost
  <2>4. CASE alls[m].host = h
    <3>1. alls[m].protocol # "tcp" /\ alls[i].protocol # "tcp"
      BY <2>2, <2>4 DEF IInv
    <3>2. m \in DOMAIN alls /\ i \in Nat /\ m \in Nat
      BY <2>1, <2>2
    <3>3. ~(m < i) /\ ~(i < m)
      BY <2>4, <3>1, <3>2, Zenon DEF IInv
    <3> QED
      BY <2>3, <3>2, <3>3, Trichotomy, Zenon
  <2>5. CASE alls[m].host # h
    <3>1. m \in DOMAIN alls /\ SameHost(alls[m].host, h)
      BY <2>2
    <3> HIDE DEF m
    <3> QED
      BY <2>3, <2>5, <3>1
  <2> QED
    BY <2>4, <2>5
<1> QED
  BY <1>1, IInvHolds, PTL
=============================================================================
