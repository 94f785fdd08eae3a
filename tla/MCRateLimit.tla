---------------------------- MODULE MCRateLimit ----------------------------
(* Instances of RateLimit for TLC.                                          *)
EXTENDS RateLimit

\* What the bounds on the grants rest on holds of the instance.
ASSUME SlowestRefillIsCovered /\ OneScaleOrNoLag
=============================================================================
