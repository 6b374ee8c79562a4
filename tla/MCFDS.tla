-------------------------------- MODULE MCFDS --------------------------------
(* Constants for TLC: disks of three bytes, the first of which can be       *)
(* written.                                                                 *)
EXTENDS FDS

MCOriginal == [s \in Sides |-> [p \in 0 .. Size - 1 |-> p = s]]

MCCommands == {{}, {2}, {4, 16}, {64}}
===============================================================================
