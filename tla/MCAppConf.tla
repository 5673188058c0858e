----------------------------- MODULE MCAppConf -----------------------------
(* Instances of AppConf for TLC: two listen strings on one port, one host   *)
(* in two cases.                                                           *)
EXTENDS AppConf

MCPortOf == [l \in Listen |-> 8080]
MCFold   == [h \in Host |-> "h"]
============================================================================
