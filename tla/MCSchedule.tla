----------------------------- MODULE MCSchedule -----------------------------
(* Schedule on a small instance for TLC.                                   *)
EXTENDS Schedule, TLC

\* Two requests of one second may collide on their unsalted identifiers.
MCHash ==
  [x \in Requests \X (0..MaxTime) \X Salts |->
     1 + ((IF x[1] = "r1" THEN x[2] + x[3] ELSE x[2] + 2 * x[3]) % 3)]

MCPutOptions == {[flutter |-> 0, immediate |-> TRUE], [flutter |-> 1, immediate |-> FALSE]}
=============================================================================
