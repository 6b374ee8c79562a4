--------------------------- MODULE NetplayProtocol ---------------------------
(***************************************************************************)
(* The vocabulary shared by the netplay server (fceultra/server.cpp) and   *)
(* the netplay client (fceultra/netplay.cpp): the announcements the server *)
(* sends, and what a client makes of each of them.                         *)
(*                                                                         *)
(* Text, reset, power and VS coin commands do not touch who is who, so a   *)
(* single RELAY message stands for all of them.                            *)
(***************************************************************************)
EXTENDS Integers

CONSTANTS
    N,            \* client slots, and NES controllers: both are the literal 4
    Names,        \* the names that clients may have
    DefaultName,  \* DefaultName[i]: "UnnamedClient" followed by i
    Blank,        \* the name of a slot nobody ever logged in to
    NoOne         \* what stands for a name when nobody is there

Slots == 0 .. N-1
None  == -1       \* a null pointer where a slot is expected

SlotNames == Names \cup {Blank}

ASSUME ProtocolAssumption ==
    /\ N \in Nat \ {0}
    /\ DefaultName \in [Slots -> Names]
    /\ NoOne \notin SlotNames

-----------------------------------------------------------------------------
(* The announcements. *)

NewClient(i, nm)  == [cmd |-> "NEWCLIENT", id |-> i, name |-> nm]
Pickup(i, n)      == [cmd |-> "PICKUPCONTROLLER", id |-> i, port |-> n]
DropPort(n)       == [cmd |-> "DROPCONTROLLER", port |-> n]
ClientGone(i)     == [cmd |-> "CLIENTDISCONNECT", id |-> i]
Relay             == [cmd |-> "RELAY"]

Messages ==
    [cmd : {"NEWCLIENT"}, id : Slots, name : SlotNames]
        \cup [cmd : {"PICKUPCONTROLLER"}, id : Slots, port : Slots]
        \cup [cmd : {"DROPCONTROLLER"}, port : Slots]
        \cup [cmd : {"CLIENTDISCONNECT"}, id : Slots]
        \cup {Relay}

-----------------------------------------------------------------------------
(* A client's picture of the session: the names in NetplayClients (NoOne    *)
(* where .connected is false) and NetplayControllers.                       *)

Views == [name : [Slots -> SlotNames \cup {NoOne}],
          ctrl : [Slots -> Slots \cup {None}]]

\* FCEUI_NetplayStart: nobody is known and nobody holds a controller.
FreshView == [name |-> [i \in Slots |-> NoOne], ctrl |-> [n \in Slots |-> None]]

\* The clients' side of each announcement (the cases of NetplayUpdate).
Hear(v, m) ==
    CASE m.cmd = "NEWCLIENT"        -> [v EXCEPT !.name = [@ EXCEPT ![m.id] = m.name]]
      [] m.cmd = "PICKUPCONTROLLER" -> [v EXCEPT !.ctrl = [@ EXCEPT ![m.port] = m.id]]
      [] m.cmd = "DROPCONTROLLER"   -> [v EXCEPT !.ctrl = [@ EXCEPT ![m.port] = None]]
      [] m.cmd = "CLIENTDISCONNECT" ->
            [name |-> [v.name EXCEPT ![m.id] = NoOne],
             ctrl |-> [n \in Slots |-> IF v.ctrl[n] = m.id THEN None ELSE v.ctrl[n]]]
      [] m.cmd = "RELAY"            -> v
=============================================================================
