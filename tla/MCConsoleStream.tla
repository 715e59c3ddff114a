-------------------------- MODULE MCConsoleStream --------------------------
(* Instances of ConsoleStream for TLC.  Sockets do not act on each other,   *)
(* so one console is enough; it is served by the replica of one worker and  *)
(* not by that of the other.                                                *)
EXTENDS ConsoleStream

MCHostOf   == [w \in Workers |-> IF w = "w1" THEN "r1" ELSE "r2"]
MCServedBy == [c \in Consoles |-> "r2"]
=============================================================================
