------------------------------ MODULE MCNetplay ------------------------------
(* Instances of Netplay for TLC: the session of ann and that of bob. *)
EXTENDS Netplay

CONSTANTS AnnClicks, BobClicks, AnnCommands

MCNick        == [c \in Consoles |-> c]
SameNick      == [c \in Consoles |-> "ann"]
MCNames       == Consoles \cup {"UnnamedClient0", "UnnamedClient1"}
MCDefaultName == [i \in Slots |-> <<"UnnamedClient0", "UnnamedClient1">>[i+1]]
MCClicks      == [c \in Consoles |-> IF c = "ann" THEN AnnClicks ELSE BobClicks]
MCCommands    == [c \in Consoles |-> IF c = "ann" THEN AnnCommands ELSE 0]
=============================================================================
