---------------------------- MODULE NetplayClient ----------------------------
(***************************************************************************)
(* The console's end of a netplay session: fceultra/netplay.cpp,           *)
(* fceunetwork.cpp and the buttons of menu.cpp that use them.              *)
(*                                                                         *)
(* A member of Consoles is one session: a console that joins again is      *)
(* another member.  Two threads of a console share its socket: the netplay *)
(* thread (in a game the main thread itself) repeats NetplayUpdate, and    *)
(* the menu sends the commands of the READY button.  One net_send is one   *)
(* step; between two of them the other thread may run.                     *)
(*                                                                         *)
(* up[c] holds what the session has sent and the server has not read, cut  *)
(* into the pieces the server reads one of in a pass; down[c] holds what   *)
(* the server has sent and the console has not read.                       *)
(***************************************************************************)
EXTENDS NetplayProtocol, Sequences, SequencesExt

CONSTANTS
    Consoles,    \* the sessions
    Pads,        \* what the pad of a console in a game may send
    Divisors,    \* the frame divisors the server may have been started with
    Gamers,      \* the sessions that leave the menu for a game
    Leavers,     \* bound: the sessions that end
    Clicks,      \* bound: how often session c clicks READY
    Commands     \* bound: how often session c sends a RESET, POWER or VS command

ASSUME ClientAssumption ==
    /\ Pads \subseteq Nat /\ Pads # {}
    /\ Gamers \subseteq Consoles /\ Leavers \subseteq Consoles
    /\ Divisors \subseteq Nat \ {0} /\ Divisors # {}
    /\ Clicks \in [Consoles -> Nat] /\ Commands \in [Consoles -> Nat]

VARIABLES
    con,    \* con[c]: the state of the console, see Console
    up,
    down

Bytes   == Pads \cup Slots
Buttons == [what : {"JOY", "PORT"}, byte : Bytes]
Headers == {"ANYCONTROLLER", "DROPCONTROLLER", "RELAY"}
Pieces  == Buttons \cup [what : {"LOGINLEN", "LOGIN", "ESC"} \cup Headers]

Joy(b)    == [what |-> "JOY", byte |-> b]
Port(n)   == [what |-> "PORT", byte |-> n]
Piece(w)  == [what |-> w]
FirstByte == [cmd |-> "DIVISOR"]
Frame(jb) == [cmd |-> "FRAME", joy |-> jb]
Sent      == Messages \cup {FirstByte} \cup [cmd : {"FRAME"}, joy : [Slots -> Bytes]]

Console ==
    [link      : {"new", "connecting", "open", "closed"},  \* client_socket
     mode      : {"OFFLINE", "NETPLAY_CLIENT"},            \* executionMode
     game      : BOOLEAN,              \* a game runs, not the menu
     view      : Views,                \* NetplayClients, NetplayControllers
     self      : Slots \cup {None},    \* NetplayThisClient
     gx        : Slots \cup {None},    \* gx_controller
     netdcount : Nat,
     divisor   : Divisors,             \* netdivisor: what the server announces
     joy       : Bytes,                \* joy[0] of NetplayThread, a static
     waiting   : BOOLEAN,              \* NetplayUpdate waits for a frame
     loop      : 0 .. N,               \* the loop of ToggleReady; N: not in it
     payload   : BOOLEAN,              \* its header is sent, its payload is not
     quitting  : BOOLEAN,              \* disconnectBtn waits in HaltNetplay
     clicks    : Nat,
     commands  : Nat]

NewConsole(d) ==
    [link |-> "new", mode |-> "OFFLINE", game |-> FALSE, view |-> FreshView,
     self |-> None, gx |-> None, netdcount |-> 0, divisor |-> d, joy |-> 0,
     waiting |-> FALSE, loop |-> N, payload |-> FALSE, quitting |-> FALSE,
     clicks |-> 0, commands |-> 0]

\* NetplayThread's static survives the sessions of its console.  The divisor is
\* an option of the server's command line and so the same for all; a console
\* learns it when it connects and does not use it before.
ClientInit ==
    /\ \E d \in Divisors, j \in [Consoles -> Pads] :
          con = [c \in Consoles |-> [NewConsole(d) EXCEPT !.joy = j[c]]]
    /\ up   = [c \in Consoles |-> <<>>]
    /\ down = [c \in Consoles |-> <<>>]

\* FCEUD_SendData.  Its result is always 1; what is sent on a closed socket is
\* lost without notice.
Send(c, pieces) ==
    up' = [up EXCEPT ![c] = IF con[c].link = "open" THEN @ \o pieces ELSE @]

\* FCEUNET_SendCommand: the escape byte and the header go out in one net_send.
SendCommand(c, cmd) == Send(c, <<Piece("ESC"), Piece(cmd)>>)

Receive(c) == down' = [down EXCEPT ![c] = Tail(@)]

\* FCEUD_NetworkClose with FCEUI_NetplayStop.  What the console does with what
\* it remembers of the session reaches nobody any more and is left out.
Closed(s) ==
    [NewConsole(s.divisor) EXCEPT !.link = "closed", !.quitting = s.quitting]

-----------------------------------------------------------------------------
(* Joining and leaving. *)

\* FCEUD_NetworkConnect up to the send of the login packet.
Connect(c) ==
    /\ con[c].link = "new"
    /\ con' = [con EXCEPT ![c].link = "connecting"]
    /\ up' = [up EXCEPT ![c] = <<Piece("LOGINLEN"), Piece("LOGIN")>>]
    /\ UNCHANGED down

\* The rest of FCEUD_NetworkConnect, and FCEUI_NetplayStart.  Nobody looks
\* whether net_recv got the byte: shut says that the server closed instead.
Connected(c, shut) ==
    /\ con[c].link = "connecting"
    /\ IF down[c] = <<>> THEN shut /\ UNCHANGED down ELSE Receive(c)
    /\ con' = [con EXCEPT ![c].link = "open", ![c].mode = "NETPLAY_CLIENT",
                          ![c].view = FreshView, ![c].self = None,
                          ![c].netdcount = 0]
    /\ UNCHANGED up

\* disconnectBtn: executionMode is set first, then HaltNetplay waits for the
\* NetplayUpdate that may be under way.
QuitClicked(c) ==
    /\ c \in Leavers
    /\ con[c].mode = "NETPLAY_CLIENT" /\ con[c].loop = N /\ ~con[c].game
    /\ con' = [con EXCEPT ![c].mode = "OFFLINE", ![c].quitting = TRUE]
    /\ UNCHANGED <<up, down>>

\* The netplay thread is suspended; FCEUD_NetworkClose.
Quit(c) ==
    /\ con[c].quitting /\ ~con[c].waiting
    /\ con' = [con EXCEPT ![c] = [Closed(@) EXCEPT !.quitting = FALSE]]
    /\ down' = [down EXCEPT ![c] = <<>>]
    /\ UNCHANGED up

\* MainMenu ends with HaltNetplay, and starts with ResumeNetplay.
SwitchScreen(c) ==
    /\ c \in Gamers
    /\ con[c].mode = "NETPLAY_CLIENT" /\ con[c].loop = N /\ ~con[c].waiting
    /\ con' = [con EXCEPT ![c].game = ~@]
    /\ UNCHANGED <<up, down>>

-----------------------------------------------------------------------------
(* NetplayUpdate. *)

\* One byte for the one local player goes out: in a game the pad, in the menu
\* what NetplayThread's array holds, which starts as zeros.
UpdateSend(c) ==
    /\ con[c].mode = "NETPLAY_CLIENT" /\ ~con[c].waiting /\ con[c].netdcount = 0
    /\ \E b \in IF con[c].game THEN Pads ELSE {con[c].joy} : Send(c, <<Joy(b)>>)
    /\ con' = [con EXCEPT ![c].waiting = TRUE]
    /\ UNCHANGED down

\* Wrong: does not forget the controllers of a client that is gone.
BadHeard(s, m) ==
    [s EXCEPT
        !.view = IF m.cmd = "CLIENTDISCONNECT"
                   THEN [@ EXCEPT !.name[m.id] = NoOne] ELSE Hear(@, m),
        !.self = IF m.cmd = "NEWCLIENT" /\ @ = None THEN m.id ELSE @,
        !.gx   = CASE m.cmd = "PICKUPCONTROLLER" /\ m.id = s.self -> m.port
                   [] m.cmd = "DROPCONTROLLER" /\ m.port = @      -> None
                   [] OTHER                                       -> @]

\* A command of the server: the first NEWCLIENT is taken to be about this
\* client, and gx_controller follows the controllers it picks up and drops.
Heard(s, m) ==
    [s EXCEPT
        !.view = Hear(@, m),
        !.self = IF m.cmd = "NEWCLIENT" /\ @ = None THEN m.id ELSE @,
        !.gx   = CASE m.cmd = "PICKUPCONTROLLER" /\ m.id = s.self -> m.port
                   [] m.cmd = "DROPCONTROLLER" /\ m.port = @      -> None
                   [] OTHER                                       -> @]

UpdateHear(c) ==
    /\ con[c].waiting /\ down[c] # <<>> /\ Head(down[c]) \in Messages
    /\ con' = [con EXCEPT ![c] = Heard(@, Head(down[c]))]
    /\ Receive(c)
    /\ UNCHANGED up

\* Wrong: the count does not start again.
BadNextCount(n, d) == n + 1

NextCount(n, d) == (n + 1) % d

\* The frame's four controller bytes end the update.  They overwrite the
\* caller's array, which in a game is filled from the pad before the next one.
UpdateFrame(c) ==
    /\ con[c].waiting /\ down[c] # <<>> /\ Head(down[c]).cmd = "FRAME"
    /\ con' = [con EXCEPT ![c].waiting = FALSE, ![c].netdcount = NextCount(@, con[c].divisor),
                          ![c].joy = IF con[c].game THEN @ ELSE Head(down[c]).joy[0]]
    /\ Receive(c)
    /\ UNCHANGED up

\* NetError: nothing came for RECV_TIMEOUT, or less than was asked for, or the
\* server closed the connection.
UpdateFails(c, shut) ==
    /\ c \in Leavers \/ shut
    /\ con[c].waiting
    /\ con' = [con EXCEPT ![c] = Closed(@)]
    /\ down' = [down EXCEPT ![c] = <<>>]
    /\ UNCHANGED up

-----------------------------------------------------------------------------
(* FCEUGX_NetplayToggleReady, and the commands of a game. *)

\* The READY button.
Click(c) ==
    /\ con[c].link = "open" /\ ~con[c].quitting
    /\ ~con[c].game /\ con[c].loop = N
    /\ con[c].clicks < Clicks[c]
    /\ IF con[c].gx = None
         THEN /\ SendCommand(c, "ANYCONTROLLER")
              /\ con' = [con EXCEPT ![c].clicks = @ + 1]
         ELSE /\ con' = [con EXCEPT ![c].clicks = @ + 1, ![c].loop = 0]
              /\ UNCHANGED up
    /\ UNCHANGED down

\* One round of its loop: a controller of NetplayThisClient is given back.
ToggleHeader(c) ==
    /\ con[c].loop < N /\ ~con[c].payload
    /\ IF con[c].view.ctrl[con[c].loop] = con[c].self
         THEN /\ SendCommand(c, "DROPCONTROLLER")
              /\ con' = [con EXCEPT ![c].payload = TRUE]
         ELSE /\ con' = [con EXCEPT ![c].loop = @ + 1]
              /\ UNCHANGED up
    /\ UNCHANGED down

\* The command's payload is a send of its own.
TogglePayload(c) ==
    /\ con[c].payload
    /\ Send(c, <<Port(con[c].loop)>>)
    /\ con' = [con EXCEPT ![c].payload = FALSE, ![c].loop = @ + 1]
    /\ UNCHANGED down

\* FCEU_QSimpleCommand while a game runs, between two updates.
SimpleCommand(c) ==
    /\ con[c].mode = "NETPLAY_CLIENT" /\ con[c].game /\ ~con[c].waiting
    /\ con[c].commands < Commands[c]
    /\ SendCommand(c, "RELAY")
    /\ con' = [con EXCEPT ![c].commands = @ + 1]
    /\ UNCHANGED down
=============================================================================
