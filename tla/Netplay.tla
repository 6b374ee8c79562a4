------------------------------- MODULE Netplay -------------------------------
(***************************************************************************)
(* A netplay session: the consoles of NetplayClient, the channels between  *)
(* them and the server, and the server of fceultra/server.cpp seen at the  *)
(* grain of what it reads and sends.  NetplayServer has that server loop   *)
(* by loop, with its buffers and its half-finished greetings; here the     *)
(* buffers never fill, a piece of input is handled in one step, and what   *)
(* is read and sent has its content.                                       *)
(*                                                                         *)
(* turn is where the pass of ServerUpdate is: Accepting, the slot whose    *)
(* client is read next, or Sending (send and handle_disconnects).          *)
(***************************************************************************)
EXTENDS NetplayClient

CONSTANTS
    Nick,        \* Nick[c]: the nickname in c's login packet
    Nobody,      \* a slot without a client
    MaxDelay     \* bound: what is sent is late only while Delay is below it

ASSUME SessionAssumption ==
    Nick \in [Consoles -> Names] /\ Nobody \notin Consoles /\ MaxDelay \in Nat

VARIABLES
    conn,             \* conn[i]: the session whose socket is in slot i
    command_type,     \* Client::command_type
    name,             \* Client::name
    nes_controllers,  \* Server::nes_controllers
    joybuf,           \* Server::joybuf
    disconnecting,    \* Client::disconnecting
    turn,
    shut              \* the sessions whose socket the server has closed

server == <<conn, command_type, name, nes_controllers, joybuf, disconnecting,
            turn, shut>>
vars == <<con, up, down, server>>

Accepting == -1
Sending   == N

Occupied == {i \in Slots : conn[i] # Nobody}

LoggedIn(i) == conn[i] # Nobody /\ command_type[i] \notin {"LOGINLEN", "LOGIN"}

SlotOf(c) == {i \in Slots : conn[i] = c}

-----------------------------------------------------------------------------
(* When what a player asked for is settled. *)

\* No command of session c is on its way to the server or half read there, and
\* no answer to one on its way back.
Settled(c) ==
    /\ con[c].loop = N
    /\ \A i \in SlotOf(c) : command_type[i] = "UPDATEDATA"
    /\ \A k \in DOMAIN up[c] : up[c][k].what = "JOY"
    /\ \A k \in DOMAIN down[c] : down[c][k].cmd \in {"FRAME", "RELAY"}

Online(c) == con[c].mode = "NETPLAY_CLIENT"

Holds(c) == \E i \in SlotOf(c), n \in Slots : nes_controllers[n] = i

\* c is a player of the session, as the server and as itself know it.
Plays(c) == Online(c) /\ \E i \in SlotOf(c) : LoggedIn(i)

-----------------------------------------------------------------------------
\* FoldLeft, as a function of how far it has come.
Along(op(_, _), v, s) ==
    LET f[k \in 0 .. Len(s)] == IF k = 0 THEN v ELSE op(f[k-1], s[k])
    IN  f[Len(s)]

\* How many frames pass between the pad of the player in slot i and its game:
\* the passes the server needs for what is on its way up, the frames on their
\* way down, the one of this pass, and the update that is not yet begun.
Passes(p) == IF p.what \in {"ANYCONTROLLER", "RELAY"} THEN 2 ELSE 1
Waited(n, p) == n + Passes(p)
FrameMore(n, m) == IF m.cmd = "FRAME" THEN n + 1 ELSE n
Delay(i) ==
    LET c == conn[i]
    IN  Along(Waited, 0, up[c]) + Along(FrameMore, 0, down[c])
          + (IF command_type[i] \in {"ANYCONTROLLER", "RELAY"} THEN 1 ELSE 0)
          + (IF turn > i THEN 1 ELSE 0)
          + (IF con[c].waiting THEN 0 ELSE 1)

-----------------------------------------------------------------------------
Init ==
    /\ ClientInit
    /\ conn = [i \in Slots |-> Nobody]
    /\ command_type = [i \in Slots |-> "LOGINLEN"]
    /\ name = [i \in Slots |-> Blank]
    /\ nes_controllers = [n \in Slots |-> None]
    /\ joybuf = [n \in Slots |-> 0]
    /\ disconnecting = [i \in Slots |-> FALSE]
    /\ turn = Accepting
    /\ shut = {}

\* A console that has closed its end reads no more; nor does one whose netdcount
\* is not 0, as only an update counts on (netplay.cpp:241-249, 418).
Deaf(s) == s.link = "closed" \/ (s.link = "open" /\ s.netdcount # 0)

\* The session in slot i is sent msgs[i], in order.  What is sent to a console
\* that reads no more is left out.
Tell(msgs) ==
    down' = [c \in Consoles |->
                IF SlotOf(c) = {} \/ Deaf(con[c]) THEN down[c]
                ELSE down[c] \o msgs[CHOOSE i \in SlotOf(c) : TRUE]]

\* Server::send_all
TellAll(m) == Tell([i \in Slots |-> <<m>>])

-----------------------------------------------------------------------------
(* check_for_connections *)

AcceptNobody ==
    /\ turn = Accepting
    /\ turn' = 0
    /\ UNCHANGED <<con, up, down, conn, command_type, name, nes_controllers,
                   joybuf, disconnecting, shut>>

\* Wrong: the same connection again.
BadWaiting(c) == con[c].link = "connecting" /\ c \notin shut

Waiting(c) == con[c].link = "connecting" /\ SlotOf(c) = {} /\ c \notin shut

\* The first free slot takes the connection and sends the frame divisor.
Accept(c) ==
    /\ turn = Accepting /\ Waiting(c)
    /\ \E i \in Slots \ Occupied :
        /\ \A j \in Slots : j < i => j \in Occupied
        /\ conn' = [conn EXCEPT ![i] = c]
        /\ command_type' = [command_type EXCEPT ![i] = "LOGINLEN"]
    /\ down' = [down EXCEPT ![c] = <<FirstByte>>]
    /\ turn' = 0
    /\ UNCHANGED <<con, up, name, nes_controllers, joybuf, disconnecting, shut>>

\* Every slot is taken: the connection is closed, without a word.
Refuse(c) ==
    /\ turn = Accepting /\ Waiting(c)
    /\ Occupied = Slots
    /\ shut' = shut \cup {c}
    /\ turn' = 0
    /\ UNCHANGED <<con, up, down, conn, command_type, name, nes_controllers,
                   joybuf, disconnecting>>

-----------------------------------------------------------------------------
(* receive(client): one piece of input of the client in slot turn. *)

NextTurn == turn' = turn + 1

\* Nothing has arrived, which delays the client in slot turn by one more frame.
ReadNothing ==
    /\ turn \in Slots
    /\ turn \in Occupied /\ ~Deaf(con[conn[turn]]) => Delay(turn) < MaxDelay
    /\ NextTurn
    /\ UNCHANGED <<con, up, down, conn, command_type, name, nes_controllers,
                   joybuf, disconnecting, shut>>

\* Wrong: nobody is told.
BadReadClosed(i) ==
    /\ turn = i /\ i \in Occupied /\ con[conn[i]].link = "closed"
    /\ conn' = [conn EXCEPT ![i] = Nobody]
    /\ shut' = shut \cup {conn[i]}
    /\ up' = [up EXCEPT ![conn[i]] = <<>>]
    /\ NextTurn
    /\ UNCHANGED <<con, down, command_type, name, nes_controllers, joybuf,
                   disconnecting>>

\* Client::disconnect
Disconnect(i) ==
    /\ conn' = [conn EXCEPT ![i] = Nobody]
    /\ disconnecting' = [disconnecting EXCEPT ![i] = TRUE]
    /\ shut' = shut \cup {conn[i]}
    /\ up' = [up EXCEPT ![conn[i]] = <<>>]

\* The session in slot i closed its end; unread pieces may be lost with it.
ReadClosed(i) ==
    /\ turn = i /\ i \in Occupied /\ con[conn[i]].link = "closed"
    /\ Disconnect(i)
    /\ NextTurn
    /\ UNCHANGED <<con, down, command_type, name, nes_controllers, joybuf>>

\* The client in slot i is read, its input being of the given type, and what
\* arrives is the piece p.
Arrives(i, type, p) ==
    /\ turn = i /\ i \in Occupied /\ command_type[i] = type
    /\ up[conn[i]] # <<>> /\ p = Head(up[conn[i]])
    /\ NextTurn
    /\ UNCHANGED con

\* Wrong: what has piled up behind a controller byte or an escape is given up.
BadReads(i, type, p) ==
    /\ Arrives(i, type, p)
    /\ up' = [up EXCEPT ![conn[i]] = IF type = "UPDATEDATA" THEN <<>> ELSE Tail(@)]
    /\ UNCHANGED <<conn, disconnecting, shut>>

\* It is handled and the client stays connected.
Reads(i, type, p) ==
    /\ Arrives(i, type, p)
    /\ up' = [up EXCEPT ![conn[i]] = Tail(@)]
    /\ UNCHANGED <<conn, disconnecting, shut>>

Expect(i, type) == command_type' = [command_type EXCEPT ![i] = type]

ReadLoginLen(i) ==
    /\ Reads(i, "LOGINLEN", Piece("LOGINLEN"))
    /\ Expect(i, "LOGIN")
    /\ UNCHANGED <<down, name, nes_controllers, joybuf>>

UniqueName(i, nick) == \A j \in Occupied \ {i} : name[j] # nick

\* What the loop of N_LOGIN sends to slot j while i logs in, in its round k.
Greet(i, j, k) ==
    (IF j = i /\ k \in Occupied \ {i} THEN <<NewClient(k, name[k])>> ELSE <<>>)
        \o (IF nes_controllers[k] # None
              THEN <<Pickup(nes_controllers[k], k)>> ELSE <<>>)

\* N_LOGIN
ReadLogin(i) ==
    LET nm == IF UniqueName(i, Nick[conn[i]]) THEN Nick[conn[i]] ELSE DefaultName[i]
    IN  /\ Reads(i, "LOGIN", Piece("LOGIN"))
        /\ name' = [name EXCEPT ![i] = nm]
        /\ Tell([j \in Slots |-> <<NewClient(i, nm)>> \o
                    FlattenSeq([k \in 1..N |-> Greet(i, j, k-1)])])
        /\ Expect(i, "UPDATEDATA")
        /\ UNCHANGED <<nes_controllers, joybuf>>

\* N_UPDATEDATA, escape byte
ReadEscape(i) ==
    /\ Reads(i, "UPDATEDATA", Piece("ESC"))
    /\ Expect(i, "COMMAND")
    /\ UNCHANGED <<down, name, nes_controllers, joybuf>>

\* N_UPDATEDATA, a byte for the client's controllers; a second controller would
\* get what an earlier piece left in in_buffer.
ReadInput(i) ==
    \E p \in Buttons :
        /\ Reads(i, "UPDATEDATA", p)
        /\ \E stale \in Pads :
            joybuf' = [n \in Slots |->
                CASE nes_controllers[n] # i -> joybuf[n]
                  [] \E k \in Slots : k < n /\ nes_controllers[k] = i -> stale
                  [] OTHER -> p.byte]
        /\ UNCHANGED <<down, command_type, name, nes_controllers>>

\* N_COMMAND
ReadHeader(i) ==
    \E cmd \in Headers :
        /\ Reads(i, "COMMAND", Piece(cmd))
        /\ Expect(i, cmd)
        /\ UNCHANGED <<down, name, nes_controllers, joybuf>>

\* A command without payload is complete with the next read, of no bytes.
CompletesEmpty(i, cmd) ==
    /\ turn = i /\ i \in Occupied /\ command_type[i] = cmd
    /\ Expect(i, "UPDATEDATA")
    /\ NextTurn
    /\ UNCHANGED <<con, up, conn, name, joybuf, disconnecting, shut>>

\* Wrong: the sender already knows.
BadReadRelay(i) ==
    /\ CompletesEmpty(i, "RELAY")
    /\ Tell([j \in Slots |-> IF j = i THEN <<>> ELSE <<Relay>>])
    /\ UNCHANGED nes_controllers

\* RESET, POWER and the VS-System commands
ReadRelay(i) ==
    /\ CompletesEmpty(i, "RELAY")
    /\ TellAll(Relay)
    /\ UNCHANGED nes_controllers

\* FCEUNPCMD_ANYCONTROLLER
ReadAnyController(i) ==
    LET free == {n \in Slots : nes_controllers[n] = None}
    IN  /\ CompletesEmpty(i, "ANYCONTROLLER")
        /\ IF free = {} THEN UNCHANGED <<down, nes_controllers>>
           ELSE \E n \in free :
                /\ \A k \in free : n <= k
                /\ nes_controllers' = [nes_controllers EXCEPT ![n] = i]
                /\ TellAll(Pickup(i, n))

\* Wrong: does not go back to N_UPDATEDATA.
BadReadDrop(i) ==
    \E p \in Buttons :
        /\ Reads(i, "DROPCONTROLLER", p)
        /\ p.byte \in Slots
        /\ IF nes_controllers[p.byte] = i
             THEN /\ nes_controllers' = [nes_controllers EXCEPT ![p.byte] = None]
                  /\ TellAll(DropPort(p.byte))
             ELSE UNCHANGED <<down, nes_controllers>>
        /\ UNCHANGED <<command_type, name, joybuf>>

\* FCEUNPCMD_DROPCONTROLLER: the byte that comes next is the controller, be it
\* the command's payload or a byte of the netplay thread.
ReadDrop(i) ==
    \E p \in Buttons :
        /\ Reads(i, "DROPCONTROLLER", p)
        /\ p.byte \in Slots
        /\ IF nes_controllers[p.byte] = i
             THEN /\ nes_controllers' = [nes_controllers EXCEPT ![p.byte] = None]
                  /\ TellAll(DropPort(p.byte))
             ELSE UNCHANGED <<down, nes_controllers>>
        /\ Expect(i, "UPDATEDATA")
        /\ UNCHANGED <<name, joybuf>>

\* Its number is over 3: the client is disconnected.
ReadBadPort(i) ==
    \E p \in Buttons :
        /\ Arrives(i, "DROPCONTROLLER", p)
        /\ p.byte \notin Slots
        /\ Disconnect(i)
        /\ UNCHANGED <<down, command_type, name, nes_controllers, joybuf>>

Read(i) ==
    \/ ReadLoginLen(i) \/ ReadLogin(i) \/ ReadEscape(i) \/ ReadInput(i)
    \/ ReadHeader(i) \/ ReadRelay(i) \/ ReadAnyController(i) \/ ReadDrop(i)
    \/ ReadBadPort(i)

-----------------------------------------------------------------------------
(* Server::send and handle_disconnects *)

\* Wrong: the controllers stay with the slot.
BadFreed == nes_controllers

Freed == [n \in Slots |->
            IF \E i \in Slots : nes_controllers[n] = i /\ disconnecting[i]
              THEN None ELSE nes_controllers[n]]

\* The frame for everybody, and the announcement of every client that is gone.
SendFrames ==
    /\ turn = Sending /\ turn' = Accepting
    /\ LET gone(i) == IF disconnecting[i] THEN <<ClientGone(i)>> ELSE <<>>
       IN  Tell([j \in Slots |-> <<Frame(joybuf)>> \o
                    FlattenSeq([k \in 1..N |-> gone(k-1)])])
    /\ nes_controllers' = Freed
    /\ disconnecting' = [i \in Slots |-> FALSE]
    /\ UNCHANGED <<con, up, conn, command_type, name, joybuf, shut>>

-----------------------------------------------------------------------------
ClientClick(c) ==
    /\ Click(c)
    /\ UNCHANGED server

Update(c) == UpdateSend(c) \/ UpdateHear(c) \/ UpdateFrame(c)

ClientStep(c) ==
    /\ \/ Connect(c) \/ Connected(c, c \in shut) \/ QuitClicked(c) \/ Quit(c)
       \/ SwitchScreen(c) \/ Update(c) \/ UpdateFails(c, c \in shut)
       \/ ToggleHeader(c) \/ TogglePayload(c) \/ SimpleCommand(c)
    /\ UNCHANGED server

ServerStep ==
    \/ AcceptNobody \/ ReadNothing \/ SendFrames
    \/ \E c \in Consoles : Accept(c) \/ Refuse(c)
    \/ \E i \in Slots : Read(i) \/ ReadClosed(i)

Next == ServerStep \/ \E c \in Consoles : ClientStep(c) \/ ClientClick(c)

Spec == Init /\ [][Next]_vars

\* The server's loop and the netplay threads go on, what was sent is read some
\* time, a wait for a frame ends with RECV_TIMEOUT, and the menu finishes what it
\* has begun.
Fairness ==
    /\ WF_vars(ServerStep)
    /\ \A i \in Slots : SF_vars(Read(i) \/ ReadClosed(i))
    /\ \A c \in Consoles :
        /\ WF_vars(/\ UNCHANGED server
                   /\ Update(c) \/ UpdateFails(c, c \in shut))
        /\ WF_vars(/\ UNCHANGED server
                   /\ \/ Connected(c, c \in shut) \/ Quit(c)
                      \/ ToggleHeader(c) \/ TogglePayload(c))

FairSpec == Spec /\ Fairness

-----------------------------------------------------------------------------
(* Properties. *)

\* Every variable is in its range.
TypeOK ==
    /\ con \in [Consoles -> Console]
    /\ up \in [Consoles -> Seq(Pieces)]
    /\ down \in [Consoles -> Seq(Sent)]
    /\ conn \in [Slots -> Consoles \cup {Nobody}]
    /\ \A i, j \in Occupied : conn[i] = conn[j] => i = j
    /\ command_type \in
          [Slots -> {"LOGINLEN", "LOGIN", "UPDATEDATA", "COMMAND"} \cup Headers]
    /\ name \in [Slots -> SlotNames]
    /\ nes_controllers \in [Slots -> Slots \cup {None}]
    /\ joybuf \in [Slots -> Bytes]
    /\ disconnecting \in [Slots -> BOOLEAN]
    /\ turn \in Accepting .. Sending
    /\ shut \subseteq Consoles

\* What session c will make of all that is on its way to it.
Heeded(v, m) == IF m \in Messages THEN Hear(v, m) ELSE v
Drained(c) == Along(Heeded, con[c].view, down[c])

\* Once a player that goes on reading has read what is on its way to it, it knows
\* who holds which controller and the name of every player (netplay.cpp:283-346
\* against the announcements of server.cpp).
PicturesAgree ==
    \A i \in Slots : LoggedIn(i) /\ ~Deaf(con[conn[i]]) =>
        /\ Drained(conn[i]).ctrl = nes_controllers
        /\ \A j \in Slots : LoggedIn(j) => Drained(conn[i]).name[j] = name[j]

\* No player has a controller that its session never asked for: what an earlier
\* session in its slot held is free before this one plays (server.cpp:450-467).
HoldsByAsking == \A c \in Consoles : Plays(c) /\ Holds(c) => con[c].clicks > 0

\* Of any two connected consoles that go on reading one is behind the other, or
\* neither is: they play the same frames, with the same resets and coins between
\* the same two of them (send_all and Server::send treat every client alike).
Playing(q, m) == IF m.cmd \in {"FRAME", "RELAY"} THEN Append(q, m) ELSE q
ToPlay(c) == Along(Playing, <<>>, down[c])
SameGame ==
    \A i, j \in {k \in Occupied : ~Deaf(con[conn[k]])} :
        \/ IsSuffix(ToPlay(conn[i]), ToPlay(conn[j]))
        \/ IsSuffix(ToPlay(conn[j]), ToPlay(conn[i]))

\* A delay is for good: the server reads one piece of input in a pass and sends
\* a frame in every pass (server.cpp:183-207, 418-425), the console answers each
\* frame with one byte, so that neither ever catches up while it goes on reading.
DelayNeverFalls ==
    [][\A i \in {k \in Occupied : ~Deaf(con[conn[k]])} :
          LoggedIn(i) /\ conn'[i] = conn[i] /\ Online(conn[i]) /\ Online(conn[i])'
              => Delay(i)' >= Delay(i)]_vars

\* When a player leaves, every player that stays forgets its name and thinks of
\* no controller as held by somebody it does not know (handle_disconnects and the
\* CLIENTDISCONNECT case of NetplayUpdate), when the frame divisor is 1.
Forgotten(c, d) ==
    LET v == con[d].view
    IN  /\ \A i \in Slots : v.name[i] # Nick[c]
        /\ \A n \in Slots : v.ctrl[n] # None => v.name[v.ctrl[n]] # NoOne
LeaverForgotten ==
    \A c \in Leavers : \A d \in Consoles \ {c} :
        con[c].link = "closed" /\ con[d].divisor = 1
            ~> ~Online(d) \/ Forgotten(c, d)

\* Every command a player sends is served and answered, as long as it plays: it
\* does not get stuck half read, nor does the menu in the loop that sends it.
\* With a frame divisor over 1 the answer is never read, see KeepsPlaying.
RequestsSettle ==
    \A c \in {d \in Consoles : Clicks[d] > 0} :
        Plays(c) /\ con[c].divisor = 1 ~> Settled(c) \/ ~Plays(c)

\* As long as its connection is open, a console goes on sending its pad and
\* getting frames when the server's frame divisor is 1, its default.  With every
\* other divisor it takes one frame and no more: netdcount, which is to let
\* updates pass (netplay.cpp:241-249), is counted in one of them (418), and stays
\* at 1.
KeepsPlaying ==
    \A c \in Consoles :
        <>[](con[c].link = "open") =>
            /\ con[c].divisor = 1 => []<><<con'[c].waiting # con[c].waiting>>_con
            /\ con[c].divisor > 1 => <>[](~con[c].waiting)
=============================================================================
