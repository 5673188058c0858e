---------------------------- MODULE MCHttpStream ----------------------------
(* Instances of HttpStream for TLC.                                        *)
EXTENDS HttpStream
============================================================================
