----------------------------- MODULE MCBackends -----------------------------
(* Instances of Backends for TLC.                                           *)
EXTENDS Backends

CONSTANTS u1, u2

\* Two backends without a health path, or one of them with one: going from
\* one to the other adds or removes a backend and starts or stops the checks.
Settings == {[urls |-> {u1, u2}, active |-> FALSE],
             [urls |-> {u1}, active |-> TRUE]}
=============================================================================
