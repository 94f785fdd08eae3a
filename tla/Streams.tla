------------------------------ MODULE Streams -------------------------------
(* Sequences of rows, where a row is the number it was given.               *)
EXTENDS Integers, Sequences

Elements(s) == {s[i] : i \in 1..Len(s)}

\* Every row comes after the rows with smaller numbers, and none comes twice.
Increasing(s) == \A i, j \in 1..Len(s) : i < j => s[i] < s[j]

\* All rows of s are older than all rows of t.
Below(s, t) == \A x \in Elements(s), y \in Elements(t) : x < y

\* t is s with some later rows added, in their order.
Continues(s, t) ==
  /\ Len(s) <= Len(t)
  /\ \A i \in 1..Len(s) : t[i] = s[i]
  /\ Increasing(t)
=============================================================================
