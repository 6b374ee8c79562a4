------------------------------ MODULE MCCheats ------------------------------
(* Constants for TLC: two games with cheat files that disagree in order,   *)
(* type and comparison, over three addresses, one more than SubCheats      *)
(* holds, and a music file.                                                *)
EXTENDS Cheats

Line(a, v, t, c, s) == [addr |-> a, val |-> v, type |-> t, compare |-> c, status |-> s]

MCAddrs == {"low", "mid", "high"}
MCFile ==
    [zelda  |-> <<Line("high", 1, 1, "none", FALSE), Line("high", 2, 1, "equal", FALSE),
                  Line("low", 3, 1, "other", TRUE), Line("mid", 6, 1, "none", TRUE)>>,
     metroid |-> <<Line("low", 4, 0, "none", TRUE), Line("high", 5, 1, "none", TRUE)>>,
     music   |-> <<>>]
=============================================================================
