----------------------------- MODULE MCUpstream -----------------------------
(* Instances of Upstream for TLC: three backends with every combination of  *)
(* four weights and changes by the admin; two under health checks, where the *)
(* admin takes them down as well; and a check whose connect fails at once.   *)
EXTENDS Upstream

MCConfigs ==
    { [list |-> {1, 2, 3}, weights |-> {0, 1, 2, 4}, events |-> {"weight", "down"}, picks |-> 4],
      [list |-> {1, 2}, weights |-> {1, 2}, events |-> {"checks"}, picks |-> 3],
      [list |-> {1}, weights |-> {1, 2}, events |-> {"checks", "sync_fail", "weight", "down"},
       picks |-> 2] }
============================================================================
