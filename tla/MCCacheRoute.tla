---------------------------- MODULE MCCacheRoute ----------------------------
(* Instances of CacheRoute for TLC.                                         *)
EXTENDS CacheRoute, TLC
Symmetry == Permutations(Backends) \cup Permutations(Handlers)
            \cup Permutations(Requests)
=============================================================================
