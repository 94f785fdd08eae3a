----------------------------- MODULE MCAutoban -----------------------------
(* Instances of Autoban for TLC.                                            *)
EXTENDS Autoban, TLC

CONSTANTS n1, a1, b1, b2, s1, ip1

OneNode == a1 :> n1 @@ b1 :> n1 @@ b2 :> n1

\* The default: a critical row crosses the threshold alone, two waf rows
\* together; the window is longer than a marker's life.
LongWindow == [enabled |-> TRUE, threshold |-> 4, window |-> 2]
\* What the admin may save: a short window, and the banner switched off.
ShortOrOff == {[enabled |-> TRUE, threshold |-> 5, window |-> 1],
               [enabled |-> FALSE, threshold |-> 4, window |-> 2]}
=============================================================================
