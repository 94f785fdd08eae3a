------------------------------- MODULE Mirror -------------------------------
(***************************************************************************)
(* What an analytics mirror promises, whatever the queues and batches      *)
(* between it and the table it copies: the table grows row by row, and now *)
(* and then the mirror takes over some of the rows that came after the     *)
(* ones it has.  It may miss rows; it never has one twice, one before its  *)
(* turn, or one the table does not have, and never takes one back.         *)
(***************************************************************************)
EXTENDS Streams

VARIABLES
  table,   \* the rows stored, in the order of their ids
  mirror   \* the rows copied, in the order of their insertion

Init == table = <<>> /\ mirror = <<>>

Store ==
  /\ Continues(table, table')
  /\ Len(table') = Len(table) + 1
  /\ UNCHANGED mirror

Copy ==
  /\ Continues(mirror, mirror')
  /\ Elements(mirror') \subseteq Elements(table)
  /\ UNCHANGED table

Next == Store \/ Copy

Spec == Init /\ [][Next]_<<table, mirror>>
=============================================================================
