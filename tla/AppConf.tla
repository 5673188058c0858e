------------------------------ MODULE AppConf ------------------------------
(***************************************************************************)
(* The apps of the configuration (app.cpp): app::load_conf checks one entry *)
(* after the other and stops the process at the first it refuses;           *)
(* app::run_all opens the listening addresses; a new connection finds its   *)
(* app by the acceptor's port or, when that port has several apps, by the   *)
(* Host of its first request.                                               *)
(***************************************************************************)
EXTENDS Integers, Sequences

CONSTANTS Name, Host,  \* names and hosts an entry may give, none empty or "default"
          Fold,        \* a host in lower case
          Listen,      \* listen strings that parse_ip_port accepts
          PortOf,      \* their ports
          MaxApps      \* bound on the entries

VARIABLES
    phase,                    \* "loading", "loaded", "running", or "refused" (exit)
    alls,                     \* app::alls, in the order of the configuration
    app_name_set, app_host_set, default_app_set,
    port_bind_protocol_map,   \* "" for a port that operator[] has just inserted
    listen_set                \* protocol of each listen string; "" if it has none

sets  == <<app_name_set, app_host_set, default_app_set, port_bind_protocol_map, listen_set>>
avars == <<phase, alls, sets>>

----------------------------------------------------------------------------
Port     == {PortOf[l] : l \in Listen}
Protocol == {"http", "https", "tcp"}

\* What an entry says.  valid: its backends, policy and timeouts pass their checks.
Entry == [name : Name \cup {""}, listen : Listen \cup {"invalid"},
          protocol : Protocol \cup {"invalid"}, host : Host \cup {"", "default"}, valid : BOOLEAN]

Conf == [name : Name, listen : Listen, protocol : Protocol, host : Host \cup {""},
         is_default : BOOLEAN]

Init ==
    /\ phase = "loading" /\ alls = <<>>
    /\ app_name_set = {} /\ app_host_set = {} /\ default_app_set = {}
    /\ port_bind_protocol_map = [p \in Port |-> ""]
    /\ listen_set = [l \in Listen |-> ""]

----------------------------------------------------------------------------
(* app::load_conf                                                          *)

HasHost(e) == e.protocol \in {"http", "https"}

\* cf->http_host: "default" is kept as "", a tcp app keeps the "" it began with
HttpHost(e) == IF HasHost(e) /\ e.host # "default" THEN e.host ELSE ""

IsDefault(e) == HasHost(e) /\ e.host = "default"

NameRefused(e) == e.name = "" \/ e.name \in app_name_set

\* `==' where the message and the comment next to it ask for `not equal, if any'
ProtocolRefused(e) ==
    \/ e.protocol \notin Protocol
    \/ port_bind_protocol_map[PortOf[e.listen]] = e.protocol

HostRefused(e) ==
    HasHost(e) /\ \/ e.host = ""
                  \/ e.host = "default" /\ PortOf[e.listen] \in default_app_set
                  \/ HttpHost(e) \in app_host_set

Refused(e) ==
    \/ NameRefused(e) \/ e.listen = "invalid" \/ ProtocolRefused(e)
    \/ HostRefused(e) \/ ~e.valid

\* An entry is refused: main exits.
RefuseApp ==
    /\ phase = "loading" /\ {e \in Entry : Refused(e)} # {}
    /\ phase' = "refused" /\ UNCHANGED <<alls, sets>>

\* The host enters app_host_set whatever the protocol.
LoadApp(e) ==
    /\ phase = "loading" /\ Len(alls) < MaxApps /\ ~Refused(e)
    /\ alls' = Append(alls, [name |-> e.name, listen |-> e.listen, protocol |-> e.protocol,
                             host |-> HttpHost(e), is_default |-> IsDefault(e)])
    /\ app_name_set' = app_name_set \cup {e.name}
    /\ app_host_set' = app_host_set \cup {HttpHost(e)}
    /\ default_app_set' = default_app_set \cup (IF IsDefault(e) THEN {PortOf[e.listen]} ELSE {})
    /\ port_bind_protocol_map' = [port_bind_protocol_map EXCEPT ![PortOf[e.listen]] = e.protocol]
    /\ listen_set' = [listen_set EXCEPT ![e.listen] = e.protocol]
    /\ UNCHANGED phase

LoadEnd == phase = "loading" /\ phase' = "loaded" /\ UNCHANGED <<alls, sets>>

----------------------------------------------------------------------------
(* app::run_all: only http has an acceptor; the last app of a listen string  *)
(* decides                                                                 *)

RunAll ==
    /\ phase = "loaded"
    /\ phase' = IF \A l \in Listen : listen_set[l] \in {"", "http"} THEN "running" ELSE "refused"
    /\ UNCHANGED <<alls, sets>>

----------------------------------------------------------------------------
(* Which app a connection gets                                             *)

\* strcasecmp, where app_host_set compares exactly
SameHost(g, h) == g = h \/ (g \in Host /\ h \in Host /\ Fold[g] = Fold[h])

FirstOf(S) == CHOOSE i \in S : \A j \in S : i <= j

\* app::match_app_by_host, 0 for nullptr: the port is not asked for
MatchAppByHost(h) ==
    LET exact    == {i \in DOMAIN alls : SameHost(alls[i].host, h)}
        defaults == {i \in DOMAIN alls : alls[i].is_default}
    IN CASE exact # {} -> FirstOf(exact)
         [] exact = {} /\ defaults # {} -> FirstOf(defaults)
         [] OTHER -> 0

----------------------------------------------------------------------------
Next == (\E e \in Entry : LoadApp(e)) \/ RefuseApp \/ LoadEnd \/ RunAll

Spec == Init /\ [][Next]_avars

----------------------------------------------------------------------------
(* Properties                                                              *)

\* "one port can't bind diffrent protocols" (app.cpp:55 and the comment at line 58):
\* the apps of one port have one protocol.
OneProtocolPerPort ==
    \A i, j \in DOMAIN alls :
        PortOf[alls[i].listen] = PortOf[alls[j].listen] => alls[i].protocol = alls[j].protocol

\* "must, unique" (niubix.json:21): no two apps have one name.
NamesUnique == \A i, j \in DOMAIN alls : alls[i].name = alls[j].name => i = j

\* There is one default app at most, of all ports together: default_app_set is meant per
\* port (app.cpp:75), but the default's empty host is in app_host_set for every port.
OneDefault == \A i, j \in DOMAIN alls : alls[i].is_default /\ alls[j].is_default => i = j

\* A Host that an app claims leads to it, whichever port the request came to and whatever
\* the order of the apps and the default, unless another app claims it in another case:
\* app_host_set would take both, and only the first is ever matched.
HostDecides ==
    \A h \in Host, i \in DOMAIN alls : alls[i].host = h =>
        LET m == MatchAppByHost(h) IN
        m = i \/ (m \in DOMAIN alls /\ alls[m].host # h /\ SameHost(alls[m].host, h))
============================================================================
