---------------------------- MODULE NetplayServer ----------------------------
(***************************************************************************)
(* The netplay server, fceultra/server.cpp: four client slots, four NES    *)
(* controllers, and the loop of ServerUpdate, which accepts at most one    *)
(* connection, gives every client the chance to complete one piece of      *)
(* input, sends every client the frame's controller bytes, and announces   *)
(* the clients that went away.                                             *)
(*                                                                         *)
(* The server is one thread: its steps are the iterations of its loops, so *)
(* that a client that disconnects half way through a pass is seen there.   *)
(* What arrives on a socket is chosen by the environment at the moment of  *)
(* the read.  An output buffer is its fill level (out_buffer_used); what   *)
(* the announcements queued since a connection was accepted tell its       *)
(* client is kept in the history variable view.  A client takes the first  *)
(* byte it gets for the frame divisor (fceunetwork.cpp:145-149).  When     *)
(* the slot's buffer still held announcements made to a connection lost    *)
(* while it was greeted, those come first, and the client finds no         *)
(* announcement where one begins: framed tells such connections from the   *)
(* others, and nothing is said of what they know.                          *)
(*                                                                         *)
(* Of the clients it is assumed that the lengths they announce are not     *)
(* negative and that a login is as long as its fixed fields, as the logins *)
(* of fceunetwork.cpp:118 are: receive() copies what is left of a login's  *)
(* length after them (server.cpp:252-257), and reset_buffer (108-113)      *)
(* refuses long messages only.                                             *)
(***************************************************************************)
EXTENDS NetplayProtocol

CONSTANTS
    OutMax,          \* out_buffer_max
    FrameLen,        \* what the five joybuf bytes take of it
    CmdLen,          \* what an announcement takes of it
    Pads,            \* the controller bytes a client sends (never 0xFF)
    Nicknames        \* the nicknames that clients choose from

\* (N-1) private announcements and the frame divisor fit in an empty buffer:
\* 3 * 27 + 1 < 16384 in the code.
ASSUME BufferAssumption ==
    /\ OutMax \in Nat /\ FrameLen \in Nat \ {0} /\ CmdLen \in Nat \ {0}
    /\ (N-1) * CmdLen + 1 < OutMax

ASSUME InputAssumption == 0 \in Pads /\ Nicknames \subseteq Names

VARIABLES
    socket,           \* socket[i]: Client::socket is not null
    disconnecting,    \* Client::disconnecting
    out_buffer_used,  \* Client::out_buffer_used
    command_type,     \* Client::command_type: what the next input completes
    name,             \* Client::name
    nes_controllers,  \* Server::nes_controllers, None for a null pointer
    joybuf,           \* Server::joybuf[0..3]
    pc,               \* the loop of ServerUpdate (or of N_LOGIN) that runs
    at,               \* its client index
    greet,            \* the loop index of the N_LOGIN case
    view,             \* history: what the connection in slot i has been told
    framed,           \* history: its frame divisor is the first byte it gets
    own               \* history: the holder's connection is the one that took n

vars == <<socket, disconnecting, out_buffer_used, command_type, name,
          nes_controllers, joybuf, pc, at, greet, view, framed, own>>

Phases == {"accept", "receive", "greet_client", "greet_controller",
           "send", "disconnects", "crashed"}

\* The commands whose payload, be it empty, is still to come once N_COMMAND was
\* handled.  RELAY stands for all that are handed on: texts, resets and the like.
Payloads == {"ANYCONTROLLER", "PICKUPCONTROLLER", "DROPCONTROLLER", "RELAY", "INVALID"}

Types == {"LOGINLEN", "LOGIN", "UPDATEDATA", "COMMAND"} \cup Payloads

Connected == {i \in Slots : socket[i]}

LoggedIn(i) == socket[i] /\ command_type[i] \notin {"LOGINLEN", "LOGIN"}

-----------------------------------------------------------------------------
(* Queuing output and losing clients. *)

Fits(i, len) == out_buffer_used[i] + len < OutMax

\* Client::send_cmd(m) to every client of S: it is queued where it fits, and
\* "send buffer full" disconnects where it does not.  send_cmd does not ask
\* whether the client still has a socket.  flags is disconnecting as it is when
\* the sending starts.
SendCmdAfter(flags, S, m) ==
    LET full == {i \in S : ~Fits(i, CmdLen)}
    IN  /\ socket' = [i \in Slots |-> socket[i] /\ i \notin full]
        /\ disconnecting' = [i \in Slots |-> flags[i] \/ i \in full]
        /\ out_buffer_used' = [i \in Slots |->
              CASE i \in full     -> 0
                [] i \in S \ full -> out_buffer_used[i] + CmdLen
                [] OTHER          -> out_buffer_used[i]]
        /\ view' = [i \in Slots |->
              IF i \in full THEN FreshView
              ELSE IF i \in S /\ socket[i] THEN Hear(view[i], m) ELSE view[i]]
        /\ framed' = [i \in Slots |-> framed[i] \/ i \in full]

SendCmd(S, m) == SendCmdAfter(disconnecting, S, m)

\* Server::send_all
SendAll(m) == SendCmd(Connected, m)

\* Wrong: forgets the output still queued.
BadDrop(i) ==
    /\ socket' = [socket EXCEPT ![i] = FALSE]
    /\ disconnecting' = [disconnecting EXCEPT ![i] = TRUE]
    /\ view' = [view EXCEPT ![i] = FreshView]
    /\ framed' = [framed EXCEPT ![i] = TRUE]
    /\ UNCHANGED out_buffer_used

\* Client::disconnect for client i alone, nothing being sent.
Drop(i) ==
    /\ socket' = [socket EXCEPT ![i] = FALSE]
    /\ disconnecting' = [disconnecting EXCEPT ![i] = TRUE]
    /\ out_buffer_used' = [out_buffer_used EXCEPT ![i] = 0]
    /\ view' = [view EXCEPT ![i] = FreshView]
    /\ framed' = [framed EXCEPT ![i] = TRUE]

Quiet == UNCHANGED <<socket, disconnecting, out_buffer_used, view, framed>>

\* Client::reset_buffer
Expect(i, type) == command_type' = [command_type EXCEPT ![i] = type]

-----------------------------------------------------------------------------
Init ==
    /\ socket = [i \in Slots |-> FALSE]
    /\ disconnecting = [i \in Slots |-> FALSE]
    /\ out_buffer_used = [i \in Slots |-> 0]
    /\ command_type = [i \in Slots |-> "LOGINLEN"]
    /\ name = [i \in Slots |-> Blank]
    /\ nes_controllers = [n \in Slots |-> None]
    /\ joybuf = [n \in Slots |-> 0]
    /\ pc = "accept" /\ at = 0 /\ greet = 0
    /\ view = [i \in Slots |-> FreshView]
    /\ framed = [i \in Slots |-> TRUE]
    /\ own = [n \in Slots |-> TRUE]

-----------------------------------------------------------------------------
(* check_for_connections: one accept a pass. *)

\* Nobody is waiting; or every slot is taken and the new socket is closed.
AcceptNobody ==
    /\ pc = "accept"
    /\ pc' = "receive" /\ at' = 0
    /\ Quiet
    /\ UNCHANGED <<command_type, name, nes_controllers, joybuf, greet, own>>

\* Wrong: a new connection wipes the slot's pending disconnect.
BadAccept ==
    /\ pc = "accept"
    /\ \E i \in Slots \ Connected :
        /\ Expect(i, "LOGINLEN")
        /\ socket' = [socket EXCEPT ![i] = TRUE]
        /\ out_buffer_used' = [out_buffer_used EXCEPT ![i] = 1]
        /\ disconnecting' = [disconnecting EXCEPT ![i] = FALSE]
        /\ view' = [view EXCEPT ![i] = FreshView]
        /\ framed' = [framed EXCEPT ![i] = (out_buffer_used[i] = 0)]
        /\ own' = [n \in Slots |-> own[n] /\ nes_controllers[n] # i]
    /\ pc' = "receive" /\ at' = 0
    /\ UNCHANGED <<name, nes_controllers, joybuf, greet>>

\* The first slot without a socket takes the new one and queues the frame
\* divisor, behind whatever the slot's buffer still holds.
Accept ==
    /\ pc = "accept"
    /\ \E i \in Slots \ Connected :
        /\ \A j \in Slots : j < i => socket[j]
        /\ Expect(i, "LOGINLEN")
        /\ IF Fits(i, 1)
             THEN /\ socket' = [socket EXCEPT ![i] = TRUE]
                  /\ out_buffer_used' = [out_buffer_used EXCEPT ![i] = @ + 1]
                  /\ UNCHANGED disconnecting
             ELSE /\ disconnecting' = [disconnecting EXCEPT ![i] = TRUE]
                  /\ out_buffer_used' = [out_buffer_used EXCEPT ![i] = 0]
                  /\ UNCHANGED socket
        /\ view' = [view EXCEPT ![i] = FreshView]
        /\ framed' = [framed EXCEPT ![i] = (out_buffer_used[i] = 0)]
        /\ own' = [n \in Slots |-> own[n] /\ nes_controllers[n] # i]
    /\ pc' = "receive" /\ at' = 0
    /\ UNCHANGED <<name, nes_controllers, joybuf, greet>>

-----------------------------------------------------------------------------
(* receive(client): one read, and at most one completed piece of input.     *)

\* On to the next client of the receive loop, or to the next loop.
NextReceive ==
    /\ IF at < N-1 THEN at' = at + 1 /\ pc' = "receive"
                   ELSE at' = 0 /\ pc' = "send"
    /\ UNCHANGED greet

\* Client at has a socket and the piece of input it was reading is complete.
Completes(type) == pc = "receive" /\ socket[at] /\ command_type[at] = type

\* No socket, nothing there, or not yet all of command_length.
ReceivePart ==
    /\ pc = "receive"
    /\ NextReceive /\ Quiet
    /\ UNCHANGED <<command_type, name, nes_controllers, joybuf, own>>

\* The read fails or the peer closed; or reset_buffer refuses the length a
\* header announces.
ReceiveError ==
    /\ pc = "receive" /\ socket[at]
    /\ Drop(at)
    /\ NextReceive
    /\ UNCHANGED <<command_type, name, nes_controllers, joybuf, own>>

ReceiveLoginLen ==
    /\ Completes("LOGINLEN")
    /\ Expect(at, "LOGIN")
    /\ NextReceive /\ Quiet
    /\ UNCHANGED <<name, nes_controllers, joybuf, own>>

\* Wrong: compares with the slots below only.
BadUniqueName(i, nick) == \A j \in Connected : j < i => name[j] # nick

\* unique_name: no other connected client, logged in or not, has this name.
UniqueName(i, nick) == \A j \in Connected \ {i} : name[j] # nick

\* N_LOGIN up to the announcement.  Server::password is null from the
\* constructor on and nothing assigns it, so that any password will do; a
\* login without a nickname, or with one in use, gets the default name.
ReceiveLogin ==
    /\ Completes("LOGIN")
    /\ \E nick \in Nicknames \cup {NoOne} :
        LET nm == IF nick # NoOne /\ UniqueName(at, nick)
                  THEN nick ELSE DefaultName[at]
        IN  /\ name' = [name EXCEPT ![at] = nm]
            /\ SendAll(NewClient(at, nm))
    /\ pc' = "greet_client" /\ greet' = 0
    /\ UNCHANGED <<at, command_type, nes_controllers, joybuf, own>>

\* Wrong: the new client hears only of the slots below its own.
BadGreetClient ==
    /\ pc = "greet_client"
    /\ IF socket[greet] /\ greet < at
         THEN SendCmd({at}, NewClient(greet, name[greet]))
         ELSE Quiet
    /\ pc' = "greet_controller"
    /\ UNCHANGED <<at, greet, command_type, name, nes_controllers, joybuf, own>>

\* The loop of N_LOGIN, client half: tell the new client who is connected.
\* Its own announcement may have cost it its socket; it is told all the same.
GreetClient ==
    /\ pc = "greet_client"
    /\ IF socket[greet] /\ greet # at
         THEN SendCmd({at}, NewClient(greet, name[greet]))
         ELSE Quiet
    /\ pc' = "greet_controller"
    /\ UNCHANGED <<at, greet, command_type, name, nes_controllers, joybuf, own>>

\* The loop of N_LOGIN, controller half: everybody hears who holds controller
\* greet.  After the last one the client is logged in.
GreetController ==
    /\ pc = "greet_controller"
    /\ IF nes_controllers[greet] # None
         THEN SendAll(Pickup(nes_controllers[greet], greet))
         ELSE Quiet
    /\ IF greet < N-1
         THEN greet' = greet + 1 /\ pc' = "greet_client"
              /\ UNCHANGED <<at, command_type>>
         ELSE NextReceive /\ Expect(at, "UPDATEDATA")
    /\ UNCHANGED <<name, nes_controllers, joybuf, own>>

\* N_UPDATEDATA, escape byte: a command header follows.
ReceiveEscape ==
    /\ Completes("UPDATEDATA")
    /\ Expect(at, "COMMAND")
    /\ NextReceive /\ Quiet
    /\ UNCHANGED <<name, nes_controllers, joybuf, own>>

\* N_UPDATEDATA, a controller byte.  Only one byte was read, so that a second
\* controller of the same client gets what an earlier, longer piece of input
\* left in in_buffer.
ReceiveInput ==
    LET mine == {n \in Slots : nes_controllers[n] = at}
    IN  /\ Completes("UPDATEDATA")
        /\ joybuf' \in {jb \in [Slots -> Pads] :
                          \A n \in Slots \ mine : jb[n] = joybuf[n]}
        /\ NextReceive /\ Quiet
        /\ UNCHANGED <<command_type, name, nes_controllers, own>>

\* N_COMMAND: the header names the command whose payload is read next.
ReceiveCommand ==
    /\ Completes("COMMAND")
    /\ \E type \in Payloads : Expect(at, type)
    /\ NextReceive /\ Quiet
    /\ UNCHANGED <<name, nes_controllers, joybuf, own>>

\* FCEUNPCMD_TEXT, RESET, POWER and the VS-System commands go to everybody.
ReceiveRelay ==
    /\ Completes("RELAY")
    /\ SendAll(Relay)
    /\ Expect(at, "UPDATEDATA")
    /\ NextReceive
    /\ UNCHANGED <<name, nes_controllers, joybuf, own>>

\* Wrong: only the taker hears of it.
BadTakeController(n) ==
    /\ nes_controllers[n] = None
    /\ nes_controllers' = [nes_controllers EXCEPT ![n] = at]
    /\ own' = [own EXCEPT ![n] = TRUE]
    /\ SendCmd({at}, Pickup(at, n))

\* The client at gets controller n, which nobody holds.
TakeController(n) ==
    /\ nes_controllers[n] = None
    /\ nes_controllers' = [nes_controllers EXCEPT ![n] = at]
    /\ own' = [own EXCEPT ![n] = TRUE]
    /\ SendAll(Pickup(at, n))

\* FCEUNPCMD_ANYCONTROLLER: the first free controller, if there is one.
ReceiveAnyController ==
    LET free == {n \in Slots : nes_controllers[n] = None}
    IN  /\ Completes("ANYCONTROLLER")
        /\ IF free = {}
             THEN Quiet /\ UNCHANGED <<nes_controllers, own>>
             ELSE \E n \in free : (\A k \in free : n <= k) /\ TakeController(n)
        /\ Expect(at, "UPDATEDATA")
        /\ NextReceive
        /\ UNCHANGED <<name, joybuf>>

\* Wrong: takes the controller out of its holder's hands.
BadReceivePickup ==
    /\ Completes("PICKUPCONTROLLER")
    /\ \E n \in Slots :
        /\ nes_controllers' = [nes_controllers EXCEPT ![n] = at]
        /\ own' = [own EXCEPT ![n] = TRUE]
        /\ SendAll(Pickup(at, n))
    /\ Expect(at, "UPDATEDATA")
    /\ NextReceive
    /\ UNCHANGED <<name, joybuf>>

\* FCEUNPCMD_PICKUPCONTROLLER: controller n if it is free.
ReceivePickup ==
    /\ Completes("PICKUPCONTROLLER")
    /\ \E n \in Slots :
        IF nes_controllers[n] = None
          THEN TakeController(n)
          ELSE Quiet /\ UNCHANGED <<nes_controllers, own>>
    /\ Expect(at, "UPDATEDATA")
    /\ NextReceive
    /\ UNCHANGED <<name, joybuf>>

\* Wrong: does not ask who holds the controller.
BadReceiveDrop ==
    /\ Completes("DROPCONTROLLER")
    /\ \E n \in Slots :
        /\ nes_controllers' = [nes_controllers EXCEPT ![n] = None]
        /\ own' = [own EXCEPT ![n] = TRUE]
        /\ SendAll(DropPort(n))
    /\ Expect(at, "UPDATEDATA")
    /\ NextReceive
    /\ UNCHANGED <<name, joybuf>>

\* FCEUNPCMD_DROPCONTROLLER: controller n if the sender holds it.
ReceiveDrop ==
    /\ Completes("DROPCONTROLLER")
    /\ \E n \in Slots :
        IF nes_controllers[n] = at
          THEN /\ nes_controllers' = [nes_controllers EXCEPT ![n] = None]
               /\ own' = [own EXCEPT ![n] = TRUE]
               /\ SendAll(DropPort(n))
          ELSE Quiet /\ UNCHANGED <<nes_controllers, own>>
    /\ Expect(at, "UPDATEDATA")
    /\ NextReceive
    /\ UNCHANGED <<name, joybuf>>

\* A command the switch does not know, or a controller number over 3.
ReceiveInvalid ==
    /\ \E type \in {"INVALID", "PICKUPCONTROLLER", "DROPCONTROLLER"} : Completes(type)
    /\ Drop(at)
    /\ NextReceive
    /\ UNCHANGED <<command_type, name, nes_controllers, joybuf, own>>

Receive ==
    \/ ReceivePart \/ ReceiveError \/ ReceiveLoginLen \/ ReceiveLogin
    \/ GreetClient \/ GreetController
    \/ ReceiveEscape \/ ReceiveInput \/ ReceiveCommand \/ ReceiveRelay
    \/ ReceiveAnyController \/ ReceivePickup \/ ReceiveDrop \/ ReceiveInvalid

-----------------------------------------------------------------------------
(* Server::send: the frame for every connected client. *)

NextSend ==
    /\ IF at < N-1 THEN at' = at + 1 /\ pc' = "send"
                   ELSE at' = 0 /\ pc' = "disconnects"
    /\ UNCHANGED <<command_type, name, nes_controllers, joybuf, greet, own>>

SendSkip ==
    /\ pc = "send" /\ ~socket[at]
    /\ Quiet
    /\ NextSend

\* joybuf is queued and the socket takes some of what the buffer holds, down
\* to left bytes.
SendFrame ==
    /\ pc = "send" /\ socket[at] /\ Fits(at, FrameLen)
    /\ \E left \in 0 .. out_buffer_used[at] + FrameLen :
          out_buffer_used' = [out_buffer_used EXCEPT ![at] = left]
    /\ UNCHANGED <<socket, disconnecting, view, framed>>
    /\ NextSend

\* joybuf is queued and the socket reports an error.
SendError ==
    /\ pc = "send" /\ socket[at] /\ Fits(at, FrameLen)
    /\ Drop(at)
    /\ NextSend

\* The buffer is full: send(joybuf, 5) disconnects the client, and send() goes
\* through the null socket that is left.
SendCrash ==
    /\ pc = "send" /\ socket[at] /\ ~Fits(at, FrameLen)
    /\ Drop(at)
    /\ pc' = "crashed"
    /\ UNCHANGED <<at, command_type, name, nes_controllers, joybuf, greet, own>>

Send == SendSkip \/ SendFrame \/ SendError \/ SendCrash

-----------------------------------------------------------------------------
(* handle_disconnects; delay, which only waits, ends the pass. *)

NextDisconnect ==
    /\ IF at < N-1 THEN at' = at + 1 /\ pc' = "disconnects"
                   ELSE at' = 0 /\ pc' = "accept"
    /\ UNCHANGED <<command_type, name, joybuf, greet>>

StillHere ==
    /\ pc = "disconnects" /\ ~disconnecting[at]
    /\ Quiet /\ UNCHANGED <<nes_controllers, own>>
    /\ NextDisconnect

\* Wrong: stops at the first controller it frees.
BadHandleDisconnect ==
    LET held == {n \in Slots : nes_controllers[n] = at}
    IN  /\ pc = "disconnects" /\ disconnecting[at]
        /\ nes_controllers' = [n \in Slots |->
              IF n \in held /\ \A k \in held : n <= k THEN None ELSE nes_controllers[n]]
        /\ UNCHANGED own
        /\ SendCmdAfter([disconnecting EXCEPT ![at] = FALSE], Connected, ClientGone(at))
        /\ NextDisconnect

\* Free the controllers of a client that went away and tell everybody, the
\* slot's next connection included if there is one already.
HandleDisconnect ==
    /\ pc = "disconnects" /\ disconnecting[at]
    /\ nes_controllers' = [n \in Slots |->
          IF nes_controllers[n] = at THEN None ELSE nes_controllers[n]]
    /\ own' = [n \in Slots |-> own[n] \/ nes_controllers[n] = at]
    /\ SendCmdAfter([disconnecting EXCEPT ![at] = FALSE], Connected, ClientGone(at))
    /\ NextDisconnect

-----------------------------------------------------------------------------
\* ServerUpdate, over and over.  A crashed server takes no more steps.
Next == AcceptNobody \/ Accept \/ Receive \/ Send \/ StillHere \/ HandleDisconnect

Spec == Init /\ [][Next]_vars

-----------------------------------------------------------------------------
(* Properties. *)

\* Every variable is in its range; the loop indices stay below N.
TypeOK ==
    /\ socket \in [Slots -> BOOLEAN]
    /\ disconnecting \in [Slots -> BOOLEAN]
    /\ out_buffer_used \in [Slots -> 0 .. OutMax - 1]
    /\ command_type \in [Slots -> Types]
    /\ name \in [Slots -> SlotNames]
    /\ nes_controllers \in [Slots -> Slots \cup {None}]
    /\ joybuf \in [Slots -> Pads]
    /\ pc \in Phases
    /\ at \in Slots /\ greet \in Slots
    /\ view \in [Slots -> Views]
    /\ framed \in [Slots -> BOOLEAN]
    /\ own \in [Slots -> BOOLEAN]

\* A player that can make out what it is told.
Follows(i) == LoggedIn(i) /\ framed[i]

\* Who holds which controller is the same on the server and for every player
\* whose connection began with the frame divisor, whatever disconnects are still
\* to be announced: the announcements of server.cpp:284-289, 336-339, 360-363,
\* 384-386 and 450-467 leave none with a stale NetplayControllers.
ToldControllers == \A i \in Slots : Follows(i) => view[i].ctrl = nes_controllers

\* Every player whose connection began with the frame divisor knows every player
\* by the name it has on the server, and believes in nobody who is not connected
\* and whose disconnect is not about to be announced (server.cpp:270-282,
\* 450-467).
ToldRoster ==
    \A i, j \in Slots : Follows(i) =>
        /\ LoggedIn(j) => view[i].name[j] = name[j]
        /\ view[i].name[j] # NoOne => socket[j] \/ disconnecting[j]

\* A client never plays with a controller that the slot's previous connection
\* took: handle_disconnects has freed it before the new one can log in
\* (server.cpp:212-222, 450-467).
NoInheritedController ==
    \A i, n \in Slots : LoggedIn(i) /\ nes_controllers[n] = i => own[n]

\* A controller is held by a connected client or by one whose disconnect
\* handle_disconnects is still to see; no controller is lost for good.
HeldByPresent ==
    \A i, n \in Slots : nes_controllers[n] = i => socket[i] \/ disconnecting[i]

\* Two players have the same name only when one of them was given its default
\* name, which unique_name (server.cpp:164-173) does not look at.
NamesDistinct ==
    \A i, j \in Slots : LoggedIn(i) /\ LoggedIn(j) /\ i # j /\ name[i] = name[j]
        => name[i] \in {DefaultName[i], DefaultName[j]}

\* A login that loses its own client half way (server.cpp:270-290) goes on
\* queuing into a slot without a socket, where the slot's next connection finds
\* it.  What is left there is never enough to fill the buffer: no announcement of
\* the greeting disconnects a client that is not there (server.cpp:76-84, 99-106
\* would call net_close on a null pointer), and the next connection is not
\* refused for the one byte it is sent first.
LeftoverFits ==
    \A i \in Slots : ~socket[i] => out_buffer_used[i] <= (N-1) * CmdLen

\* A controller's byte changes only on input from the logged-in client that
\* holds it (server.cpp:303-309).
InputAuthority ==
    [][\A n \in Slots : joybuf'[n] # joybuf[n] =>
          pc = "receive" /\ LoggedIn(at) /\ nes_controllers[n] = at]_vars

\* A controller never goes from one holder to another without having been free
\* and announced as such in between (server.cpp:333-334, 357-358,
\* 381-382, 456-460).
NoHandOver ==
    [][\A n \in Slots : nes_controllers'[n] # nes_controllers[n] =>
          None \in {nes_controllers[n], nes_controllers'[n]}]_vars

\* server.cpp:82 says that a client whose send buffer is full is disconnected:
\* the server itself goes on.
FullBufferDisconnects == pc # "crashed"

-----------------------------------------------------------------------------
(* The inductive invariants behind the first of these properties. *)

Greeting == pc \in {"greet_client", "greet_controller"}

\* The client being greeted has sent its login and is not logged in yet.
GreetedLogsIn == Greeting => command_type[at] = "LOGIN"

\* A connection that took over a slot before the disconnect of the previous one
\* was announced has, until that happens, at most sent its login's length.
ReusedSlot ==
    \A i \in Slots : socket[i] /\ disconnecting[i] =>
        /\ command_type[i] \in {"LOGINLEN", "LOGIN"}
        /\ pc # "accept"
        /\ (pc = "receive" \/ Greeting) /\ at <= i => command_type[i] = "LOGINLEN"
        /\ pc = "disconnects" => at <= i

\* Only the controllers of a slot whose disconnect is still to be announced may
\* have been taken by a connection that is not there any more.
OwnOrPending ==
    \A n \in Slots : own[n] \/ \E i \in Slots : nes_controllers[n] = i /\ disconnecting[i]

SlotInv == TypeOK /\ GreetedLogsIn /\ ReusedSlot /\ HeldByPresent /\ OwnOrPending

\* A client has its name for good as soon as its login is being announced.
Named(i) == LoggedIn(i) \/ (Greeting /\ i = at /\ socket[i])

NamedInv ==
    \A i, j \in Slots : Named(i) /\ Named(j) /\ i # j /\ name[i] = name[j]
        => name[i] \in {DefaultName[i], DefaultName[j]}

\* A client that is not logged in yet may know less about the controllers than
\* the server, but nothing that is wrong.
NothingWrongTold ==
    \A i, n \in Slots : socket[i] => view[i].ctrl[n] \in {None, nes_controllers[n]}

\* The greeting has told its client about the controllers the loop has passed.
GreetingTold ==
    Greeting /\ socket[at] =>
        \A n \in Slots : n < greet => view[at].ctrl[n] = nes_controllers[n]

\* What was queued for a player names the holders of all controllers.
AllTold == \A i \in Slots : LoggedIn(i) => view[i].ctrl = nes_controllers

ToldInv == NothingWrongTold /\ GreetingTold /\ AllTold

-----------------------------------------------------------------------------
(* The lobby this server implements: logging in is joining, losing the      *)
(* socket is leaving, and a controller whose holder left counts as free.    *)

lobbyMember == [i \in Slots |-> IF LoggedIn(i) THEN name[i] ELSE NoOne]
lobbyHolder ==
    [n \in Slots |-> IF \E i \in Slots : nes_controllers[n] = i /\ LoggedIn(i)
                     THEN nes_controllers[n] ELSE None]

L == INSTANCE Lobby
        WITH actor <- at, member <- lobbyMember, holder <- lobbyHolder, pad <- joybuf

\* Every step of ServerUpdate is a step of the lobby, or invisible there:
\* players join with a name of their own, take only free controllers, give back
\* only their own, move only their own, and leave with all they hold.
ImplementsLobby == L!Spec
=============================================================================
