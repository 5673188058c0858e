------------------------------ MODULE MCDrain ------------------------------
(* Instances of Drain for TLC.                                             *)
EXTENDS Drain

MCEnvs == { {"admin"}, {"signal", "admin", "one_client"}, {"signal", "no_fds", "one_client"},
            {"admin", "info_log", "no_fds", "epoll_full", "one_client"},
            {"signal", "info_log", "one_client"} }
============================================================================
