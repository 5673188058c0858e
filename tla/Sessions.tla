------------------------------ MODULE Sessions ------------------------------
(***************************************************************************)
(* What niubix promises of connections, however events, tasks and timers   *)
(* fall: a client connection is given at most one backend connection in    *)
(* its life, which serves no other client before or after it (backends are *)
(* not pooled, a failed request is not retried), and when one of the two    *)
(* ends the other is parted: all that is left to it is to end.             *)
(***************************************************************************)
CONSTANTS Client,    \* where client connections live
          Server,    \* where backend connections live
          None

VARIABLES stage,     \* of each connection
          partner    \* the connection it is joined with, or None

svars == <<stage, partner>>

Connection == Client \cup Server

Stage == {"none", "fresh", "joined", "parted"}

SInit == /\ stage = [x \in Connection |-> "none"]
         /\ partner = [x \in Connection |-> None]

\* A client is accepted; which backends may serve it is not known yet.
Open(c) ==
    /\ stage[c] = "none"
    /\ stage' = [stage EXCEPT ![c] = "fresh"]
    /\ UNCHANGED partner

\* A new connection to a backend, for this client.
Join(c, s) ==
    /\ stage[c] \in {"none", "fresh"} /\ stage[s] = "none"
    /\ stage' = [stage EXCEPT ![c] = "joined", ![s] = "joined"]
    /\ partner' = [partner EXCEPT ![c] = s, ![s] = c]

End(x) ==
    /\ stage[x] # "none"
    /\ stage' = [y \in Connection |->
          CASE y = x -> "none"
            [] y # x /\ y = partner[x] -> "parted"
            [] OTHER -> stage[y]]
    /\ partner' = [y \in Connection |-> IF y \in {x, partner[x]} THEN None ELSE partner[y]]

\* The process is replaced by a new one.
StartAgain == stage' = [x \in Connection |-> "none"] /\ partner' = [x \in Connection |-> None]

SNext ==
    \/ \E c \in Client : Open(c) \/ \E s \in Server : Join(c, s)
    \/ \E x \in Connection : End(x)
    \/ StartAgain

SSpec == SInit /\ [][SNext]_svars
=============================================================================
