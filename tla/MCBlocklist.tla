---------------------------- MODULE MCBlocklist ----------------------------
(* Instances of Blocklist for TLC.                                          *)
EXTENDS Blocklist, TLC

CONSTANTS n1, n2, h1, h2, h3

\* Two rule changes can be in progress on the first node, one on the second.
Cluster == h1 :> n1 @@ h2 :> n1 @@ h3 :> n2
=============================================================================
