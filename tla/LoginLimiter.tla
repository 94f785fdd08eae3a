---------------------------- MODULE LoginLimiter ----------------------------
(***************************************************************************)
(* What loginLimiter keeps for one address, as functions of its entry and  *)
(* of the time; every call takes the limiter's mutex, so each is one step  *)
(* of the machine that uses it.                                            *)
(***************************************************************************)
EXTENDS Integers

CONSTANTS
  MaxFailures,  \* maxLoginFailures
  Window,       \* loginWindow
  Lockout       \* loginLockout

ASSUME LimiterAssumption ==
  MaxFailures \in Nat \ {0} /\ Window \in Nat /\ Lockout \in Nat

\* No entry: first and until are the zero time, which lies before the clock.
NoTries == [failures |-> 0, first |-> 0, until |-> 0]

Blocked(e, now) == e.until > now

WindowOver(e, now) == now - e.first > Window

\* The counter is only compared with MaxFailures, and stops there.
Failed(e, now) ==
  IF e.failures = 0 \/ WindowOver(e, now)
  THEN [failures |-> 1, first |-> now, until |-> 0]
  ELSE IF e.failures + 1 >= MaxFailures
       THEN [e EXCEPT !.failures = MaxFailures, !.until = now + Lockout]
       ELSE [e EXCEPT !.failures = @ + 1]

\* A failure of another address sweeps when the map is full.
Dead(e, now) == WindowOver(e, now) /\ now > e.until
=============================================================================
