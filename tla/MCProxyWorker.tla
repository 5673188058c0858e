--------------------------- MODULE MCProxyWorker ---------------------------
(* Instances of ProxyWorker for TLC: addresses and descriptors are         *)
(* interchangeable.                                                        *)
EXTENDS ProxyWorker, TLC

Symmetry == Permutations(Frontend) \cup Permutations(Backend) \cup Permutations(Fd)
============================================================================
