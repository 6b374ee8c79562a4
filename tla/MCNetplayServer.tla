--------------------------- MODULE MCNetplayServer ---------------------------
(* Instances of NetplayServer for TLC. *)
EXTENDS NetplayServer

MCDefaultName == [i \in 0 .. N-1 |-> <<"UnnamedClient0", "UnnamedClient1">>[i+1]]

\* A client may well have chosen what is somebody's default name.
DefaultsOnly == {MCDefaultName[i] : i \in 0 .. N-1}
MCNames      == {"alice"} \cup DefaultsOnly
MCNicknames  == {"alice", "UnnamedClient1"}
=============================================================================
