------------------------------- MODULE MCGames -------------------------------
(* Constants for TLC: games of every kind that takes part in saving.         *)
EXTENDS Games

MCKind == [zelda |-> "ines", tetris |-> "ines", dr |-> "unif", mario |-> "vs", link |-> "fds"]

MCSettings == {<<1, 1>>, <<0, 2>>, <<2, 3>>}
===============================================================================
