-------------------------- MODULE NetplayServerProofs --------------------------
(***************************************************************************)
(* What holds of NetplayServer for every number of clients, every buffer   *)
(* size and every set of names.                                            *)
(*                                                                         *)
(* Slots, controllers and buffers come first, then the refinement: the     *)
(* server implements Lobby, whose players join with a name of their own,   *)
(* take only free controllers, give back and move only their own, and      *)
(* leave with all they hold.  Last is what the players know of each other, *)
(* and that a greeting that loses its client leaves room in its buffer.    *)
(***************************************************************************)
EXTENDS NetplayServer, TLAPS

-----------------------------------------------------------------------------
(* Lemmas about the protocol's operators. *)

\* There is a first and a last slot, and None is not one.
LEMMA SlotFacts ==
    /\ 0 \in Slots /\ N-1 \in Slots /\ N \in Nat
    /\ None \notin Slots
    /\ Slots \subseteq Int
BY ProtocolAssumption DEF Slots, None

\* An empty buffer has room for the frame divisor.
LEMMA BufferFacts ==
    /\ OutMax \in Nat /\ CmdLen \in Nat /\ FrameLen \in Nat
    /\ 1 < OutMax
    /\ (N-1) * CmdLen \in Nat
<1>1. (N-1) \in Nat /\ CmdLen \in Nat
  BY ProtocolAssumption, BufferAssumption
<1>2. (N-1) * CmdLen \in Nat
  BY <1>1
<1> QED
  BY <1>1, <1>2, BufferAssumption

\* What a client makes of an announcement is again a picture of the session.
LEMMA HearType ==
    ASSUME NEW v \in Views, NEW m \in Messages
    PROVE  Hear(v, m) \in Views
<1>1. CASE m \in [cmd : {"NEWCLIENT"}, id : Slots, name : SlotNames]
  BY <1>1 DEF Hear, Views
<1>2. CASE m \in [cmd : {"PICKUPCONTROLLER"}, id : Slots, port : Slots]
  BY <1>2 DEF Hear, Views
<1>3. CASE m \in [cmd : {"DROPCONTROLLER"}, port : Slots]
  BY <1>3 DEF Hear, Views
<1>4. CASE m \in [cmd : {"CLIENTDISCONNECT"}, id : Slots]
  BY <1>4 DEF Hear, Views
<1>5. CASE m = Relay
  BY <1>5 DEF Hear, Relay
<1> QED
  BY <1>1, <1>2, <1>3, <1>4, <1>5 DEF Messages

\* The announcements the server makes are messages of the protocol.
LEMMA MessageTypes ==
    ASSUME NEW i \in Slots, NEW n \in Slots, NEW nm \in SlotNames
    PROVE  /\ NewClient(i, nm) \in Messages
           /\ Pickup(i, n) \in Messages
           /\ DropPort(n) \in Messages
           /\ ClientGone(i) \in Messages
           /\ Relay \in Messages
BY DEF Messages, NewClient, Pickup, DropPort, ClientGone, Relay

\* Someone who knows nothing yet has a picture, too.
LEMMA FreshType == FreshView \in Views
BY DEF FreshView, Views

-----------------------------------------------------------------------------
(* Type correctness. *)

\* Sending an announcement leaves the variables it touches in their ranges.
LEMMA SendType ==
    ASSUME TypeOK, NEW flags \in [Slots -> BOOLEAN], NEW S \in SUBSET Slots,
           NEW m \in Messages, SendCmdAfter(flags, S, m)
    PROVE  /\ socket' \in [Slots -> BOOLEAN]
           /\ disconnecting' \in [Slots -> BOOLEAN]
           /\ out_buffer_used' \in [Slots -> 0 .. OutMax - 1]
           /\ view' \in [Slots -> Views]
           /\ framed' \in [Slots -> BOOLEAN]
<1> USE DEF SendCmdAfter, TypeOK
<1>1. socket' \in [Slots -> BOOLEAN] /\ disconnecting' \in [Slots -> BOOLEAN]
  OBVIOUS
<1>2. out_buffer_used' \in [Slots -> 0 .. OutMax - 1]
  BY BufferFacts DEF Fits
<1>3. view' \in [Slots -> Views]
  BY HearType, FreshType
<1> QED
  BY <1>1, <1>2, <1>3

\* The variables Quiet leaves alone, and what Drop does to them.
LEMMA QuietType ==
    ASSUME TypeOK, NEW i \in Slots, Quiet \/ Drop(i)
    PROVE  /\ socket' \in [Slots -> BOOLEAN]
           /\ disconnecting' \in [Slots -> BOOLEAN]
           /\ out_buffer_used' \in [Slots -> 0 .. OutMax - 1]
           /\ view' \in [Slots -> Views]
           /\ framed' \in [Slots -> BOOLEAN]
<1>1. CASE Quiet
  BY <1>1 DEF Quiet, TypeOK
<1>2. CASE Drop(i)
  <2>1. 0 \in 0 .. OutMax - 1
    BY BufferFacts
  <2> QED
    BY <1>2, <2>1, FreshType DEF Drop, TypeOK
<1> QED
  BY <1>1, <1>2

\* The loops keep their indices in range.
LEMMA NextType ==
    ASSUME TypeOK, NextReceive \/ NextSend \/ NextDisconnect
    PROVE  at' \in Slots /\ pc' \in Phases
BY SlotFacts DEF NextReceive, NextSend, NextDisconnect, TypeOK, Slots, Phases

\* No step of the loop takes a variable out of its range.
LEMMA TypeStep ==
    ASSUME TypeOK, [Next]_vars
    PROVE  TypeOK'
<1>0. at \in Slots /\ greet \in Slots
  BY DEF TypeOK
<1>1. CASE UNCHANGED vars
  BY <1>1 DEF vars, TypeOK
<1>2. CASE AcceptNobody
  BY <1>2, SlotFacts DEF AcceptNobody, Quiet, TypeOK, Phases
<1>3. CASE Accept
  <2>1. PICK i \in Slots \ Connected :
          /\ Expect(i, "LOGINLEN")
          /\ IF Fits(i, 1)
               THEN /\ socket' = [socket EXCEPT ![i] = TRUE]
                    /\ out_buffer_used' = [out_buffer_used EXCEPT ![i] = @ + 1]
                    /\ UNCHANGED disconnecting
               ELSE /\ disconnecting' = [disconnecting EXCEPT ![i] = TRUE]
                    /\ out_buffer_used' = [out_buffer_used EXCEPT ![i] = 0]
                    /\ UNCHANGED socket
          /\ view' = [view EXCEPT ![i] = FreshView]
          /\ framed' = [framed EXCEPT ![i] = (out_buffer_used[i] = 0)]
          /\ own' = [n \in Slots |-> own[n] /\ nes_controllers[n] # i]
    BY <1>3 DEF Accept
  <2>2. /\ socket' \in [Slots -> BOOLEAN]
        /\ disconnecting' \in [Slots -> BOOLEAN]
    BY <2>1 DEF TypeOK
  <2>3. out_buffer_used' \in [Slots -> 0 .. OutMax - 1]
    <3>1. out_buffer_used[i] \in 0 .. OutMax - 1
      BY DEF TypeOK
    <3>2. 0 \in 0 .. OutMax - 1
      BY BufferFacts
    <3>3. Fits(i, 1) => out_buffer_used[i] + 1 \in 0 .. OutMax - 1
      BY <3>1, BufferFacts DEF Fits
    <3> QED
      BY <2>1, <3>2, <3>3 DEF TypeOK
  <2>4. /\ view' \in [Slots -> Views]
        /\ framed' \in [Slots -> BOOLEAN]
        /\ own' \in [Slots -> BOOLEAN]
        /\ command_type' \in [Slots -> Types]
    BY <2>1, FreshType DEF Expect, TypeOK, Types
  <2> QED
    BY <1>3, <2>2, <2>3, <2>4, SlotFacts DEF Accept, TypeOK, Phases
<1>4. CASE ReceivePart
  BY <1>0, <1>4, NextType, QuietType DEF ReceivePart, NextReceive, TypeOK
<1>5. CASE ReceiveError
  BY <1>0, <1>5, NextType, QuietType DEF ReceiveError, NextReceive, TypeOK
<1>6. CASE ReceiveLoginLen
  BY <1>0, <1>6, NextType, QuietType
  DEF ReceiveLoginLen, NextReceive, Expect, TypeOK, Types
<1>7. CASE ReceiveLogin
  <2>1. PICK nick \in Nicknames \cup {NoOne} :
          LET nm == IF nick # NoOne /\ UniqueName(at, nick)
                    THEN nick ELSE DefaultName[at]
          IN  /\ name' = [name EXCEPT ![at] = nm]
              /\ SendAll(NewClient(at, nm))
    BY <1>7 DEF ReceiveLogin
  <2> DEFINE nm == IF nick # NoOne /\ UniqueName(at, nick)
                   THEN nick ELSE DefaultName[at]
  <2>2. nm \in SlotNames
    BY <1>0, ProtocolAssumption, InputAssumption DEF SlotNames
  <2>3. NewClient(at, nm) \in Messages
    BY <1>0, <2>2, MessageTypes
  <2>4. SendCmdAfter(disconnecting, Connected, NewClient(at, nm))
    BY <2>1 DEF SendAll, SendCmd
  <2>5. Connected \in SUBSET Slots /\ disconnecting \in [Slots -> BOOLEAN]
    BY DEF Connected, TypeOK
  <2> HIDE DEF nm
  <2>6. /\ socket' \in [Slots -> BOOLEAN]
        /\ disconnecting' \in [Slots -> BOOLEAN]
        /\ out_buffer_used' \in [Slots -> 0 .. OutMax - 1]
        /\ view' \in [Slots -> Views]
        /\ framed' \in [Slots -> BOOLEAN]
    BY <2>3, <2>4, <2>5, SendType
  <2>7. name' \in [Slots -> SlotNames]
    BY <2>1, <2>2 DEF TypeOK, nm
  <2> QED
    BY <1>7, <2>6, <2>7, SlotFacts DEF ReceiveLogin, TypeOK, Phases
<1>8. CASE GreetClient
  <2>1. CASE socket[greet] /\ greet # at
    <3>1. NewClient(greet, name[greet]) \in Messages
      BY <1>0, MessageTypes DEF TypeOK
    <3>2. SendCmdAfter(disconnecting, {at}, NewClient(greet, name[greet]))
      BY <1>8, <2>1 DEF GreetClient, SendCmd
    <3>3. {at} \in SUBSET Slots /\ disconnecting \in [Slots -> BOOLEAN]
      BY <1>0 DEF TypeOK
    <3> QED
      BY <1>8, <3>1, <3>2, <3>3, SendType DEF GreetClient, TypeOK, Phases
  <2>2. CASE ~(socket[greet] /\ greet # at)
    BY <1>0, <1>8, <2>2, QuietType DEF GreetClient, TypeOK, Phases
  <2> QED
    BY <2>1, <2>2
<1>9. CASE GreetController
  <2>1. /\ socket' \in [Slots -> BOOLEAN]
        /\ disconnecting' \in [Slots -> BOOLEAN]
        /\ out_buffer_used' \in [Slots -> 0 .. OutMax - 1]
        /\ view' \in [Slots -> Views]
        /\ framed' \in [Slots -> BOOLEAN]
    <3>1. CASE nes_controllers[greet] # None
      <4>1. Pickup(nes_controllers[greet], greet) \in Messages
        BY <1>0, <3>1 DEF TypeOK, Pickup, Messages
      <4>2. SendCmdAfter(disconnecting, Connected, Pickup(nes_controllers[greet], greet))
        BY <1>9, <3>1 DEF GreetController, SendAll, SendCmd
      <4> QED
        BY <4>1, <4>2, SendType DEF Connected, TypeOK
    <3>2. CASE nes_controllers[greet] = None
      BY <1>0, <1>9, <3>2, QuietType DEF GreetController
    <3> QED
      BY <3>1, <3>2
  <2>2. at' \in Slots /\ greet' \in Slots /\ pc' \in Phases
    BY <1>0, <1>9, SlotFacts DEF GreetController, NextReceive, Slots, Phases
  <2>3. command_type' \in [Slots -> Types]
    BY <1>0, <1>9 DEF GreetController, Expect, TypeOK, Types
  <2> QED
    BY <1>9, <2>1, <2>2, <2>3 DEF GreetController, TypeOK
<1>10. CASE ReceiveEscape
  BY <1>0, <1>10, NextType, QuietType
  DEF ReceiveEscape, NextReceive, Expect, TypeOK, Types
<1>11. CASE ReceiveInput
  BY <1>0, <1>11, NextType, QuietType DEF ReceiveInput, NextReceive, TypeOK
<1>12. CASE ReceiveCommand
  BY <1>0, <1>12, NextType, QuietType
  DEF ReceiveCommand, NextReceive, Expect, TypeOK, Types
<1>13. CASE ReceiveRelay
  <2>1. SendCmdAfter(disconnecting, Connected, Relay)
    BY <1>13 DEF ReceiveRelay, SendAll, SendCmd
  <2>2. /\ socket' \in [Slots -> BOOLEAN]
        /\ disconnecting' \in [Slots -> BOOLEAN]
        /\ out_buffer_used' \in [Slots -> 0 .. OutMax - 1]
        /\ view' \in [Slots -> Views]
        /\ framed' \in [Slots -> BOOLEAN]
    BY <2>1, SendType DEF Connected, TypeOK, Messages
  <2> QED
    BY <1>0, <1>13, <2>2, NextType
    DEF ReceiveRelay, NextReceive, Expect, TypeOK, Types
<1>14. ASSUME NEW n \in Slots, TakeController(n)
       PROVE  /\ socket' \in [Slots -> BOOLEAN]
              /\ disconnecting' \in [Slots -> BOOLEAN]
              /\ out_buffer_used' \in [Slots -> 0 .. OutMax - 1]
              /\ view' \in [Slots -> Views]
              /\ framed' \in [Slots -> BOOLEAN]
              /\ nes_controllers' \in [Slots -> Slots \cup {None}]
              /\ own' \in [Slots -> BOOLEAN]
  <2>1. SendCmdAfter(disconnecting, Connected, Pickup(at, n))
    BY <1>14 DEF TakeController, SendAll, SendCmd
  <2>2. Pickup(at, n) \in Messages
    BY <1>0, <1>14 DEF Pickup, Messages
  <2>3. /\ socket' \in [Slots -> BOOLEAN]
        /\ disconnecting' \in [Slots -> BOOLEAN]
        /\ out_buffer_used' \in [Slots -> 0 .. OutMax - 1]
        /\ view' \in [Slots -> Views]
        /\ framed' \in [Slots -> BOOLEAN]
    BY <2>1, <2>2, SendType DEF Connected, TypeOK
  <2> QED
    BY <1>0, <1>14, <2>3 DEF TakeController, TypeOK
<1>15. ASSUME Quiet, UNCHANGED <<nes_controllers, own>>
       PROVE  /\ socket' \in [Slots -> BOOLEAN]
              /\ disconnecting' \in [Slots -> BOOLEAN]
              /\ out_buffer_used' \in [Slots -> 0 .. OutMax - 1]
              /\ view' \in [Slots -> Views]
              /\ framed' \in [Slots -> BOOLEAN]
              /\ nes_controllers' \in [Slots -> Slots \cup {None}]
              /\ own' \in [Slots -> BOOLEAN]
  BY <1>15 DEF Quiet, TypeOK
<1>16. CASE ReceiveAnyController
  <2>1. /\ socket' \in [Slots -> BOOLEAN]
        /\ disconnecting' \in [Slots -> BOOLEAN]
        /\ out_buffer_used' \in [Slots -> 0 .. OutMax - 1]
        /\ view' \in [Slots -> Views]
        /\ framed' \in [Slots -> BOOLEAN]
        /\ nes_controllers' \in [Slots -> Slots \cup {None}]
        /\ own' \in [Slots -> BOOLEAN]
    BY <1>14, <1>15, <1>16 DEF ReceiveAnyController
  <2> QED
    BY <1>0, <1>16, <2>1, NextType
    DEF ReceiveAnyController, NextReceive, Expect, TypeOK, Types
<1>17. CASE ReceivePickup
  <2>1. /\ socket' \in [Slots -> BOOLEAN]
        /\ disconnecting' \in [Slots -> BOOLEAN]
        /\ out_buffer_used' \in [Slots -> 0 .. OutMax - 1]
        /\ view' \in [Slots -> Views]
        /\ framed' \in [Slots -> BOOLEAN]
        /\ nes_controllers' \in [Slots -> Slots \cup {None}]
        /\ own' \in [Slots -> BOOLEAN]
    BY <1>14, <1>15, <1>17 DEF ReceivePickup
  <2> QED
    BY <1>0, <1>17, <2>1, NextType
    DEF ReceivePickup, NextReceive, Expect, TypeOK, Types
<1>18. CASE ReceiveDrop
  <2>1. ASSUME NEW n \in Slots,
               nes_controllers' = [nes_controllers EXCEPT ![n] = None],
               own' = [own EXCEPT ![n] = TRUE],
               SendAll(DropPort(n))
        PROVE  /\ socket' \in [Slots -> BOOLEAN]
               /\ disconnecting' \in [Slots -> BOOLEAN]
               /\ out_buffer_used' \in [Slots -> 0 .. OutMax - 1]
               /\ view' \in [Slots -> Views]
               /\ framed' \in [Slots -> BOOLEAN]
               /\ nes_controllers' \in [Slots -> Slots \cup {None}]
               /\ own' \in [Slots -> BOOLEAN]
    <3>1. SendCmdAfter(disconnecting, Connected, DropPort(n))
      BY <2>1 DEF SendAll, SendCmd
    <3>2. DropPort(n) \in Messages
      BY <2>1 DEF DropPort, Messages
    <3>3. /\ socket' \in [Slots -> BOOLEAN]
          /\ disconnecting' \in [Slots -> BOOLEAN]
          /\ out_buffer_used' \in [Slots -> 0 .. OutMax - 1]
          /\ view' \in [Slots -> Views]
          /\ framed' \in [Slots -> BOOLEAN]
      BY <3>1, <3>2, SendType DEF Connected, TypeOK
    <3> QED
      BY <2>1, <3>3 DEF TypeOK
  <2>2. /\ socket' \in [Slots -> BOOLEAN]
        /\ disconnecting' \in [Slots -> BOOLEAN]
        /\ out_buffer_used' \in [Slots -> 0 .. OutMax - 1]
        /\ view' \in [Slots -> Views]
        /\ framed' \in [Slots -> BOOLEAN]
        /\ nes_controllers' \in [Slots -> Slots \cup {None}]
        /\ own' \in [Slots -> BOOLEAN]
    BY <1>15, <1>18, <2>1 DEF ReceiveDrop
  <2> QED
    BY <1>0, <1>18, <2>2, NextType
    DEF ReceiveDrop, NextReceive, Expect, TypeOK, Types
<1>19. CASE ReceiveInvalid
  BY <1>0, <1>19, NextType, QuietType DEF ReceiveInvalid, NextReceive, TypeOK
<1>20. CASE SendSkip
  BY <1>0, <1>20, NextType, QuietType DEF SendSkip, NextSend, TypeOK
<1>21. CASE SendFrame
  <2>1. at' \in Slots /\ pc' \in Phases
    BY <1>21, NextType DEF SendFrame
  <2>2. out_buffer_used' \in [Slots -> 0 .. OutMax - 1]
    BY <1>0, <1>21, BufferFacts DEF SendFrame, Fits, TypeOK
  <2> QED
    BY <1>21, <2>1, <2>2 DEF SendFrame, NextSend, TypeOK
<1>22. CASE SendError
  BY <1>0, <1>22, NextType, QuietType DEF SendError, NextSend, TypeOK
<1>23. CASE SendCrash
  BY <1>0, <1>23, QuietType DEF SendCrash, TypeOK, Phases
<1>24. CASE StillHere
  BY <1>0, <1>24, NextType, QuietType DEF StillHere, NextDisconnect, TypeOK
<1>25. CASE HandleDisconnect
  <2>1. /\ [disconnecting EXCEPT ![at] = FALSE] \in [Slots -> BOOLEAN]
        /\ Connected \in SUBSET Slots
        /\ ClientGone(at) \in Messages
    BY <1>0, MessageTypes DEF Connected, TypeOK, ClientGone, Messages
  <2>2. /\ socket' \in [Slots -> BOOLEAN]
        /\ disconnecting' \in [Slots -> BOOLEAN]
        /\ out_buffer_used' \in [Slots -> 0 .. OutMax - 1]
        /\ view' \in [Slots -> Views]
        /\ framed' \in [Slots -> BOOLEAN]
    BY <1>25, <2>1, SendType DEF HandleDisconnect
  <2>3. /\ nes_controllers' \in [Slots -> Slots \cup {None}]
        /\ own' \in [Slots -> BOOLEAN]
    BY <1>25 DEF HandleDisconnect, TypeOK
  <2> QED
    BY <1>25, <2>2, <2>3, NextType DEF HandleDisconnect, NextDisconnect, TypeOK
<1> QED
  BY <1>1, <1>2, <1>3, <1>4, <1>5, <1>6, <1>7, <1>8, <1>9, <1>10, <1>11,
     <1>12, <1>13, <1>16, <1>17, <1>18, <1>19, <1>20, <1>21, <1>22, <1>23,
     <1>24, <1>25
  DEF Next, Receive, Send

\* Every variable stays in its range, however the passes of ServerUpdate, the
\* clients and the network interleave.
THEOREM TypeCorrect == Spec => []TypeOK
<1>1. Init => TypeOK
  BY SlotFacts, FreshType, InputAssumption, BufferFacts
  DEF Init, TypeOK, Phases, Types, SlotNames
<1>2. TypeOK /\ [Next]_vars => TypeOK'
  BY TypeStep
<1> QED
  BY <1>1, <1>2, PTL DEF Spec

-----------------------------------------------------------------------------
(* Slots, disconnects and controllers. *)

\* Between accepting and announcing, sockets are only lost, each loss is marked
\* as a disconnect, and no disconnect that flags marks is forgotten or made up.
Loses(flags) ==
    \A i \in Slots :
        /\ socket'[i] => socket[i]
        /\ socket[i] /\ ~socket'[i] => disconnecting'[i]
        /\ flags[i] => disconnecting'[i]
        /\ socket'[i] /\ disconnecting'[i] => flags[i]

\* That is all that sending does to sockets and disconnects,
LEMMA SendLoses ==
    ASSUME TypeOK, NEW flags \in [Slots -> BOOLEAN], NEW S \in SUBSET Slots,
           NEW m, SendCmdAfter(flags, S, m)
    PROVE  Loses(flags)
BY DEF SendCmdAfter, Loses, TypeOK

\* or sending to everybody who is connected,
LEMMA SendAllLoses ==
    ASSUME TypeOK, NEW m, SendAll(m)
    PROVE  Loses(disconnecting)
<1>1. Connected \in SUBSET Slots /\ disconnecting \in [Slots -> BOOLEAN]
  BY DEF Connected, TypeOK
<1> QED
  BY <1>1, SendLoses DEF SendAll, SendCmd

\* or doing nothing, or losing one client.
LEMMA QuietLoses ==
    ASSUME TypeOK, NEW i \in Slots, Quiet \/ Drop(i)
    PROVE  Loses(disconnecting)
BY DEF Quiet, Drop, Loses, TypeOK

\* What a completed or partial read does to the reader's slot and to its
\* controllers.
LEMMA ReceiveFacts ==
    ASSUME TypeOK,
           \/ ReceivePart \/ ReceiveError \/ ReceiveLoginLen \/ ReceiveEscape
           \/ ReceiveInput \/ ReceiveCommand \/ ReceiveRelay \/ ReceiveAnyController
           \/ ReceivePickup \/ ReceiveDrop \/ ReceiveInvalid
    PROVE  /\ pc = "receive" /\ NextReceive
           /\ Loses(disconnecting)
           /\ \A i \in Slots \ {at} : command_type'[i] = command_type[i]
           /\ command_type[at] = "LOGINLEN" => command_type'[at] \in {"LOGINLEN", "LOGIN"}
           /\ \A n \in Slots :
                \/ nes_controllers'[n] = nes_controllers[n] /\ own'[n] = own[n]
                \/ nes_controllers'[n] \in {at, None} /\ own'[n] /\ socket[at]
<1>0. at \in Slots
  BY DEF TypeOK
<1>1. CASE ReceivePart \/ ReceiveError \/ ReceiveInvalid
  <2>1. Loses(disconnecting)
    BY <1>0, <1>1, QuietLoses DEF ReceivePart, ReceiveError, ReceiveInvalid
  <2> QED
    BY <1>1, <2>1 DEF ReceivePart, ReceiveError, ReceiveInvalid, Completes
<1>2. CASE ReceiveLoginLen \/ ReceiveEscape \/ ReceiveInput \/ ReceiveCommand
  <2>1. Loses(disconnecting)
    BY <1>0, <1>2, QuietLoses
    DEF ReceiveLoginLen, ReceiveEscape, ReceiveInput, ReceiveCommand
  <2> QED
    BY <1>0, <1>2, <2>1
    DEF ReceiveLoginLen, ReceiveEscape, ReceiveInput, ReceiveCommand,
        Completes, Expect, TypeOK
<1>3. CASE ReceiveRelay
  <2>1. Loses(disconnecting)
    BY <1>3, SendAllLoses DEF ReceiveRelay
  <2> QED
    BY <1>0, <1>3, <2>1 DEF ReceiveRelay, Completes, Expect, TypeOK
<1>4. ASSUME NEW n \in Slots, TakeController(n)
      PROVE  /\ Loses(disconnecting)
             /\ \A k \in Slots :
                  \/ nes_controllers'[k] = nes_controllers[k] /\ own'[k] = own[k]
                  \/ nes_controllers'[k] = at /\ own'[k]
  BY <1>4, SendAllLoses DEF TakeController, TypeOK
<1>5. ASSUME Quiet, UNCHANGED <<nes_controllers, own>>
      PROVE  /\ Loses(disconnecting)
             /\ \A k \in Slots :
                  nes_controllers'[k] = nes_controllers[k] /\ own'[k] = own[k]
  BY <1>0, <1>5, QuietLoses
<1>6. CASE ReceiveAnyController
  BY <1>0, <1>4, <1>5, <1>6 DEF ReceiveAnyController, Completes, Expect, TypeOK
<1>7. CASE ReceivePickup
  BY <1>0, <1>4, <1>5, <1>7 DEF ReceivePickup, Completes, Expect, TypeOK
<1>8. CASE ReceiveDrop
  <2>1. ASSUME NEW n \in Slots,
               nes_controllers' = [nes_controllers EXCEPT ![n] = None],
               own' = [own EXCEPT ![n] = TRUE],
               SendAll(DropPort(n))
        PROVE  /\ Loses(disconnecting)
               /\ \A k \in Slots :
                    \/ nes_controllers'[k] = nes_controllers[k] /\ own'[k] = own[k]
                    \/ nes_controllers'[k] = None /\ own'[k]
    BY <2>1, SendAllLoses DEF TypeOK
  <2> QED
    BY <1>0, <1>5, <1>8, <2>1 DEF ReceiveDrop, Completes, Expect, TypeOK
<1> QED
  BY <1>1, <1>2, <1>3, <1>6, <1>7, <1>8

\* The four parts of SlotInv besides type correctness survive every step.
LEMMA SlotStep ==
    ASSUME SlotInv, [Next]_vars
    PROVE  SlotInv'
<1> USE SlotFacts
<1>0. TypeOK /\ TypeOK' /\ at \in Slots /\ greet \in Slots
  BY TypeStep DEF SlotInv, TypeOK
<1>1. CASE UNCHANGED vars
  BY <1>0, <1>1
  DEF vars, SlotInv, GreetedLogsIn, Greeting, ReusedSlot, HeldByPresent, OwnOrPending
<1>2. CASE AcceptNobody
  BY <1>0, <1>2
  DEF AcceptNobody, Quiet, SlotInv, GreetedLogsIn, Greeting, ReusedSlot,
      HeldByPresent, OwnOrPending
<1>3. CASE Accept
  <2>1. PICK i \in Slots \ Connected :
          /\ Expect(i, "LOGINLEN")
          /\ \/ /\ socket' = [socket EXCEPT ![i] = TRUE]
                /\ UNCHANGED disconnecting
             \/ /\ disconnecting' = [disconnecting EXCEPT ![i] = TRUE]
                /\ UNCHANGED socket
          /\ own' = [n \in Slots |-> own[n] /\ nes_controllers[n] # i]
    BY <1>3 DEF Accept
  <2>2. ~socket[i] /\ pc = "accept"
    BY <1>3, <2>1 DEF Connected, Accept
  <2>3. pc' = "receive" /\ UNCHANGED <<nes_controllers>>
    BY <1>3 DEF Accept
  <2>4. GreetedLogsIn'
    BY <2>3 DEF GreetedLogsIn, Greeting
  <2>5. ReusedSlot'
    BY <1>0, <2>1, <2>2, <2>3
    DEF SlotInv, ReusedSlot, Greeting, Expect, TypeOK
  <2>6. HeldByPresent'
    BY <1>0, <2>1, <2>2, <2>3 DEF SlotInv, HeldByPresent, TypeOK
  <2>7. OwnOrPending'
    BY <1>0, <2>1, <2>2, <2>3 DEF SlotInv, HeldByPresent, OwnOrPending, TypeOK
  <2> QED
    BY <1>0, <2>4, <2>5, <2>6, <2>7 DEF SlotInv
<1>4. CASE \/ ReceivePart \/ ReceiveError \/ ReceiveLoginLen \/ ReceiveEscape
           \/ ReceiveInput \/ ReceiveCommand \/ ReceiveRelay \/ ReceiveAnyController
           \/ ReceivePickup \/ ReceiveDrop \/ ReceiveInvalid
  <2>1. /\ pc = "receive" /\ NextReceive
        /\ Loses(disconnecting)
        /\ \A i \in Slots \ {at} : command_type'[i] = command_type[i]
        /\ command_type[at] = "LOGINLEN" => command_type'[at] \in {"LOGINLEN", "LOGIN"}
        /\ \A n \in Slots :
             \/ nes_controllers'[n] = nes_controllers[n] /\ own'[n] = own[n]
             \/ nes_controllers'[n] \in {at, None} /\ own'[n] /\ socket[at]
    BY <1>0, <1>4, ReceiveFacts
  <2>2. GreetedLogsIn'
    BY <2>1 DEF GreetedLogsIn, Greeting, NextReceive
  <2>3. ReusedSlot'
    BY <1>0, <2>1
    DEF SlotInv, ReusedSlot, Greeting, NextReceive, Loses, Slots
  <2>4. HeldByPresent'
    BY <1>0, <2>1 DEF SlotInv, HeldByPresent, Loses
  <2>5. OwnOrPending'
    BY <1>0, <2>1 DEF SlotInv, OwnOrPending, Loses
  <2> QED
    BY <1>0, <2>2, <2>3, <2>4, <2>5 DEF SlotInv
<1>5. CASE ReceiveLogin
  <2>1. /\ pc = "receive" /\ socket[at] /\ command_type[at] = "LOGIN"
        /\ pc' = "greet_client" /\ at' = at
        /\ UNCHANGED <<command_type, nes_controllers, own>>
    BY <1>5 DEF ReceiveLogin, Completes
  <2>2. Loses(disconnecting)
    BY <1>0, <1>5, SendAllLoses DEF ReceiveLogin
  <2>3. GreetedLogsIn'
    BY <2>1 DEF GreetedLogsIn
  <2>4. ReusedSlot'
    BY <1>0, <2>1, <2>2 DEF SlotInv, ReusedSlot, Greeting, Loses
  <2>5. HeldByPresent' /\ OwnOrPending'
    BY <1>0, <2>1, <2>2 DEF SlotInv, HeldByPresent, OwnOrPending, Loses
  <2> QED
    BY <1>0, <2>3, <2>4, <2>5 DEF SlotInv
<1>6. CASE GreetClient
  <2>1. /\ pc = "greet_client" /\ pc' = "greet_controller" /\ at' = at
        /\ UNCHANGED <<command_type, nes_controllers, own>>
    BY <1>6 DEF GreetClient
  <2>2. Loses(disconnecting)
    <3>1. {at} \in SUBSET Slots /\ disconnecting \in [Slots -> BOOLEAN]
      BY <1>0 DEF TypeOK
    <3> QED
      BY <1>0, <1>6, <3>1, SendLoses, QuietLoses DEF GreetClient, SendCmd
  <2>3. GreetedLogsIn' /\ ReusedSlot'
    BY <1>0, <2>1, <2>2 DEF SlotInv, GreetedLogsIn, ReusedSlot, Greeting, Loses
  <2>4. HeldByPresent' /\ OwnOrPending'
    BY <1>0, <2>1, <2>2 DEF SlotInv, HeldByPresent, OwnOrPending, Loses
  <2> QED
    BY <1>0, <2>3, <2>4 DEF SlotInv
<1>7. CASE GreetController
  <2>1. /\ pc = "greet_controller"
        /\ UNCHANGED <<nes_controllers, own>>
        /\ \/ pc' = "greet_client" /\ UNCHANGED <<at, command_type>>
           \/ NextReceive /\ Expect(at, "UPDATEDATA")
    BY <1>7 DEF GreetController
  <2>2. Loses(disconnecting)
    BY <1>0, <1>7, SendAllLoses, QuietLoses DEF GreetController
  <2>3. GreetedLogsIn'
    BY <2>1 DEF SlotInv, GreetedLogsIn, Greeting, NextReceive
  <2>4. ReusedSlot'
    <3>1. ~(socket[at] /\ disconnecting[at])
      BY <1>0, <2>1 DEF SlotInv, GreetedLogsIn, ReusedSlot, Greeting, Slots
    <3>2. \A i \in Slots : socket'[i] /\ disconnecting'[i] =>
            i # at /\ socket[i] /\ disconnecting[i] /\ command_type'[i] = command_type[i]
      BY <1>0, <2>1, <2>2, <3>1 DEF Loses, Expect, TypeOK
    <3>3. CASE pc' = "greet_client" /\ UNCHANGED <<at, command_type>>
      BY <1>0, <2>1, <3>2, <3>3 DEF SlotInv, ReusedSlot, Greeting
    <3>4. CASE NextReceive
      BY <1>0, <2>1, <3>2, <3>4 DEF SlotInv, ReusedSlot, Greeting, NextReceive, Slots
    <3> QED
      BY <2>1, <3>3, <3>4
  <2>5. HeldByPresent' /\ OwnOrPending'
    BY <1>0, <2>1, <2>2 DEF SlotInv, HeldByPresent, OwnOrPending, Loses
  <2> QED
    BY <1>0, <2>3, <2>4, <2>5 DEF SlotInv
<1>8. CASE Send
  <2>1. /\ pc = "send"
        /\ UNCHANGED <<command_type, nes_controllers, own>>
        /\ \/ at' = at + 1 /\ pc' = "send"
           \/ at' = 0 /\ pc' = "disconnects"
           \/ pc' = "crashed"
    BY <1>8 DEF Send, SendSkip, SendFrame, SendError, SendCrash, NextSend
  <2>2. Loses(disconnecting)
    <3>1. CASE SendFrame
      BY <3>1 DEF SendFrame, Loses
    <3>2. CASE SendSkip \/ SendError \/ SendCrash
      BY <1>0, <3>2, QuietLoses DEF SendSkip, SendError, SendCrash
    <3> QED
      BY <1>8, <3>1, <3>2 DEF Send
  <2>3. GreetedLogsIn' /\ ReusedSlot'
    BY <1>0, <2>1, <2>2
    DEF SlotInv, GreetedLogsIn, ReusedSlot, Greeting, Loses, Slots
  <2>4. HeldByPresent' /\ OwnOrPending'
    BY <1>0, <2>1, <2>2 DEF SlotInv, HeldByPresent, OwnOrPending, Loses
  <2> QED
    BY <1>0, <2>3, <2>4 DEF SlotInv
<1>9. CASE StillHere
  <2>1. /\ pc = "disconnects" /\ ~disconnecting[at] /\ NextDisconnect
        /\ UNCHANGED <<socket, disconnecting, nes_controllers, own, command_type>>
    BY <1>9 DEF StillHere, Quiet, NextDisconnect
  <2>2. GreetedLogsIn' /\ ReusedSlot'
    BY <1>0, <2>1
    DEF SlotInv, GreetedLogsIn, ReusedSlot, Greeting, NextDisconnect, Slots
  <2>3. HeldByPresent' /\ OwnOrPending'
    BY <1>0, <2>1 DEF SlotInv, HeldByPresent, OwnOrPending
  <2> QED
    BY <1>0, <2>2, <2>3 DEF SlotInv
<1>10. CASE HandleDisconnect
  <2> DEFINE flags == [disconnecting EXCEPT ![at] = FALSE]
  <2>1. /\ pc = "disconnects" /\ NextDisconnect
        /\ UNCHANGED command_type
        /\ nes_controllers' = [n \in Slots |->
              IF nes_controllers[n] = at THEN None ELSE nes_controllers[n]]
        /\ own' = [n \in Slots |-> own[n] \/ nes_controllers[n] = at]
    BY <1>10 DEF HandleDisconnect, NextDisconnect
  <2>2. Loses(flags)
    <3>1. flags \in [Slots -> BOOLEAN] /\ Connected \in SUBSET Slots
      BY <1>0 DEF TypeOK, Connected
    <3> QED
      BY <1>0, <1>10, <3>1, SendLoses DEF HandleDisconnect
  <2>3. \A i \in Slots : flags[i] <=> disconnecting[i] /\ i # at
    BY <1>0 DEF TypeOK
  <2> HIDE DEF flags
  <2>4. GreetedLogsIn' /\ ReusedSlot'
    BY <1>0, <2>1, <2>2, <2>3
    DEF SlotInv, GreetedLogsIn, ReusedSlot, Greeting, NextDisconnect, Loses, Slots
  <2>5. HeldByPresent'
    BY <1>0, <2>1, <2>2, <2>3 DEF SlotInv, HeldByPresent, Loses
  <2>6. OwnOrPending'
    BY <1>0, <2>1, <2>2, <2>3 DEF SlotInv, OwnOrPending, Loses, TypeOK
  <2> QED
    BY <1>0, <2>4, <2>5, <2>6 DEF SlotInv
<1> QED
  BY <1>1, <1>2, <1>3, <1>4, <1>5, <1>6, <1>7, <1>8, <1>9, <1>10
  DEF Next, Receive

\* The invariant of slots, disconnects and ownership holds throughout.
THEOREM SlotCorrect == Spec => []SlotInv
<1>1. Init => SlotInv
  <2>1. Init => TypeOK
    BY SlotFacts, FreshType, InputAssumption, BufferFacts
    DEF Init, TypeOK, Phases, Types, SlotNames
  <2> QED
    BY <2>1, SlotFacts
    DEF Init, SlotInv, GreetedLogsIn, Greeting, ReusedSlot, HeldByPresent, OwnOrPending
<1>2. SlotInv /\ [Next]_vars => SlotInv'
  BY SlotStep
<1> QED
  BY <1>1, <1>2, PTL DEF Spec

\* A client never plays with a controller that the slot's previous connection
\* took, whatever order connections, disconnects and announcements come in.
THEOREM NoInheritance == Spec => []NoInheritedController
<1>1. SlotInv => NoInheritedController
  BY DEF SlotInv, NoInheritedController, OwnOrPending, ReusedSlot, LoggedIn, TypeOK
<1> QED
  BY <1>1, SlotCorrect, PTL

\* No controller is lost: its holder is connected, or handle_disconnects is
\* about to free it.
THEOREM NoLostController == Spec => []HeldByPresent
<1>1. SlotInv => HeldByPresent
  BY DEF SlotInv
<1> QED
  BY <1>1, SlotCorrect, PTL

-----------------------------------------------------------------------------
(* What a step may do to the controllers. *)

\* nes_controllers changes only where a controller is free, or becomes free.
LEMMA HandOverStep ==
    ASSUME TypeOK, [Next]_vars, NEW n \in Slots, nes_controllers'[n] # nes_controllers[n]
    PROVE  None \in {nes_controllers[n], nes_controllers'[n]}
<1>1. ASSUME NEW k \in Slots, TakeController(k)
      PROVE  None \in {nes_controllers[n], nes_controllers'[n]}
  BY <1>1 DEF TakeController, TypeOK
<1>2. CASE ReceiveAnyController
  BY <1>1, <1>2 DEF ReceiveAnyController
<1>3. CASE ReceivePickup
  BY <1>1, <1>3 DEF ReceivePickup
<1>4. CASE ReceiveDrop
  <2>1. PICK k \in Slots :
          \/ nes_controllers' = [nes_controllers EXCEPT ![k] = None]
          \/ UNCHANGED nes_controllers
    BY <1>4 DEF ReceiveDrop
  <2> QED
    BY <2>1 DEF TypeOK
<1>5. CASE HandleDisconnect
  BY <1>5 DEF HandleDisconnect
<1>6. CASE ReceivePart \/ ReceiveError \/ ReceiveLoginLen \/ ReceiveLogin
           \/ GreetClient \/ GreetController \/ ReceiveEscape \/ ReceiveInput
           \/ ReceiveCommand \/ ReceiveRelay \/ ReceiveInvalid
  BY <1>6
  DEF ReceivePart, ReceiveError, ReceiveLoginLen, ReceiveLogin, GreetClient,
      GreetController, ReceiveEscape, ReceiveInput, ReceiveCommand, ReceiveRelay,
      ReceiveInvalid
<1>7. CASE AcceptNobody \/ Accept \/ StillHere \/ UNCHANGED vars
  BY <1>7 DEF AcceptNobody, Accept, StillHere, vars
<1>8. CASE Send
  BY <1>8 DEF Send, SendSkip, SendFrame, SendError, SendCrash, NextSend
<1> QED
  BY <1>2, <1>3, <1>4, <1>5, <1>6, <1>7, <1>8 DEF Next, Receive

\* A controller that changes hands was free, and announced as free, in between.
THEOREM NoControllerHandOver == Spec => NoHandOver
<1>1. TypeOK /\ [Next]_vars =>
        [\A n \in Slots : nes_controllers'[n] # nes_controllers[n] =>
            None \in {nes_controllers[n], nes_controllers'[n]}]_vars
  BY HandOverStep
<1> QED
  BY <1>1, TypeCorrect, PTL DEF Spec, NoHandOver

\* joybuf changes only when a logged-in client's byte arrives, and only for the
\* controllers that client holds.
LEMMA InputStep ==
    ASSUME TypeOK, [Next]_vars, NEW n \in Slots, joybuf'[n] # joybuf[n]
    PROVE  pc = "receive" /\ LoggedIn(at) /\ nes_controllers[n] = at
<1>1. CASE ReceiveInput
  BY <1>1 DEF ReceiveInput, Completes, LoggedIn
<1>2. CASE ReceivePart \/ ReceiveError \/ ReceiveLoginLen \/ ReceiveLogin
           \/ GreetClient \/ GreetController \/ ReceiveEscape \/ ReceiveCommand
           \/ ReceiveRelay \/ ReceiveAnyController \/ ReceivePickup \/ ReceiveDrop
           \/ ReceiveInvalid
  BY <1>2
  DEF ReceivePart, ReceiveError, ReceiveLoginLen, ReceiveLogin, GreetClient,
      GreetController, ReceiveEscape, ReceiveCommand, ReceiveRelay,
      ReceiveAnyController, ReceivePickup, ReceiveDrop, ReceiveInvalid
<1>3. CASE AcceptNobody \/ Accept \/ StillHere \/ HandleDisconnect \/ UNCHANGED vars
  BY <1>3 DEF AcceptNobody, Accept, StillHere, HandleDisconnect, NextDisconnect, vars
<1>4. CASE Send
  BY <1>4 DEF Send, SendSkip, SendFrame, SendError, SendCrash, NextSend
<1> QED
  BY <1>1, <1>2, <1>3, <1>4 DEF Next, Receive

\* Nobody but the logged-in holder of a controller moves it, for any number of
\* clients and any set of controller bytes.
THEOREM OnlyHolderMoves == Spec => InputAuthority
<1>1. TypeOK /\ [Next]_vars =>
        [\A n \in Slots : joybuf'[n] # joybuf[n] =>
            pc = "receive" /\ LoggedIn(at) /\ nes_controllers[n] = at]_vars
  BY InputStep
<1> QED
  BY <1>1, TypeCorrect, PTL DEF Spec, InputAuthority

-----------------------------------------------------------------------------
(* What the clients have been told about the controllers. *)

\* Who keeps its socket has heard what was sent to it, and nothing else.
LEMMA SendHears ==
    ASSUME TypeOK, NEW flags, NEW S \in SUBSET Slots,
           NEW m, SendCmdAfter(flags, S, m), NEW i \in Slots, socket'[i]
    PROVE  /\ socket[i]
           /\ view'[i] = IF i \in S THEN Hear(view[i], m) ELSE view[i]
BY DEF SendCmdAfter, TypeOK

\* Everybody who is still connected hears what is sent to all.
LEMMA SendAllHears ==
    ASSUME TypeOK, NEW m, SendAll(m), NEW i \in Slots, socket'[i]
    PROVE  socket[i] /\ view'[i] = Hear(view[i], m)
<1>1. Connected \in SUBSET Slots
  BY DEF Connected
<1> QED
  BY <1>1, SendHears DEF SendAll, SendCmd, Connected

\* Nobody hears anything when nothing is sent.
LEMMA QuietHears ==
    ASSUME TypeOK, NEW k \in Slots, Quiet \/ Drop(k), NEW i \in Slots, socket'[i]
    PROVE  socket[i] /\ view'[i] = view[i]
BY DEF Quiet, Drop, TypeOK

\* Nobody becomes a player but by the end of the greeting.
LEMMA NoNewLogin ==
    ASSUME TypeOK,
           \/ ReceivePart \/ ReceiveError \/ ReceiveLoginLen \/ ReceiveEscape
           \/ ReceiveInput \/ ReceiveCommand \/ ReceiveRelay \/ ReceiveAnyController
           \/ ReceivePickup \/ ReceiveDrop \/ ReceiveInvalid,
           NEW i \in Slots, LoggedIn(i)'
    PROVE  LoggedIn(i)
<1>1. socket[i]
  BY ReceiveFacts DEF Loses, LoggedIn
<1>2. CASE i # at
  BY <1>1, <1>2, ReceiveFacts DEF LoggedIn
<1>3. CASE i = at
  BY <1>1, <1>3
  DEF LoggedIn, TypeOK, ReceivePart, ReceiveError, ReceiveLoginLen, ReceiveEscape,
      ReceiveInput, ReceiveCommand, ReceiveRelay, ReceiveAnyController,
      ReceivePickup, ReceiveDrop, ReceiveInvalid, Completes, Expect
<1> QED
  BY <1>2, <1>3

\* ToldInv without the greeting's progress: that is all that matters outside it.
Told ==
    \A i \in Slots : socket[i] =>
        /\ \A n \in Slots : view[i].ctrl[n] \in {None, nes_controllers[n]}
        /\ LoggedIn(i) => view[i].ctrl = nes_controllers

\* After a step that ends outside the greeting, Told is all of ToldInv.
LEMMA ToldOutside == ASSUME Told', ~Greeting' PROVE ToldInv'
BY DEF Told, ToldInv, NothingWrongTold, GreetingTold, AllTold, LoggedIn

\* A step after which everybody still connected has the picture it had before,
\* with the same holders and no new player, leaves nobody misinformed.
LEMMA SamePicture ==
    ASSUME ToldInv, UNCHANGED nes_controllers,
           \A i \in Slots : socket'[i] => socket[i] /\ view'[i].ctrl = view[i].ctrl,
           \A i \in Slots : LoggedIn(i)' => LoggedIn(i)
    PROVE  Told'
BY DEF ToldInv, NothingWrongTold, AllTold, Told

\* Every step of the loop leaves the clients rightly informed.
LEMMA ToldStep ==
    ASSUME SlotInv, ToldInv, [Next]_vars
    PROVE  ToldInv'
<1> USE SlotFacts
<1>0. TypeOK /\ TypeOK' /\ at \in Slots /\ greet \in Slots
  BY TypeStep DEF SlotInv, TypeOK
<1>1. CASE UNCHANGED vars
  BY <1>0, <1>1
  DEF vars, ToldInv, NothingWrongTold, GreetingTold, AllTold, LoggedIn, Greeting
<1>2. CASE AcceptNobody
  <2>1. Told'
    BY <1>0, <1>2, SamePicture DEF AcceptNobody, Quiet, LoggedIn
  <2> QED
    BY <1>0, <1>2, <2>1, ToldOutside DEF AcceptNobody, Greeting
<1>3. CASE Accept
  <2>1. PICK i \in Slots \ Connected :
          /\ Expect(i, "LOGINLEN")
          /\ \/ socket' = [socket EXCEPT ![i] = TRUE]
             \/ UNCHANGED socket
          /\ view' = [view EXCEPT ![i] = FreshView]
    BY <1>3 DEF Accept
  <2>2. UNCHANGED nes_controllers /\ pc' = "receive" /\ ~Greeting'
    BY <1>3 DEF Accept, Greeting
  <2>3. Told'
    BY <1>0, <2>1, <2>2
    DEF ToldInv, NothingWrongTold, AllTold, Told, LoggedIn, Expect,
        FreshView, TypeOK
  <2> QED
    BY <1>0, <2>2, <2>3, ToldOutside
<1>4. ASSUME \/ ReceivePart \/ ReceiveError \/ ReceiveLoginLen \/ ReceiveEscape
             \/ ReceiveInput \/ ReceiveCommand \/ ReceiveRelay \/ ReceiveAnyController
             \/ ReceivePickup \/ ReceiveDrop \/ ReceiveInvalid
      PROVE  /\ ~Greeting'
             /\ \A i \in Slots : LoggedIn(i)' => LoggedIn(i)
             /\ \A i \in Slots : view[i] \in Views
  BY <1>0, <1>4, ReceiveFacts, NoNewLogin DEF Greeting, NextReceive, TypeOK
<1>5. CASE \/ ReceivePart \/ ReceiveError \/ ReceiveLoginLen \/ ReceiveEscape
           \/ ReceiveInput \/ ReceiveCommand \/ ReceiveInvalid
  <2>1. /\ UNCHANGED nes_controllers
        /\ \A i \in Slots : socket'[i] => socket[i] /\ view'[i] = view[i]
    BY <1>0, <1>5, QuietHears
    DEF ReceivePart, ReceiveError, ReceiveLoginLen, ReceiveEscape, ReceiveInput,
        ReceiveCommand, ReceiveInvalid
  <2> QED
    BY <1>0, <1>4, <1>5, <2>1, SamePicture, ToldOutside
<1>6. CASE ReceiveRelay
  <2>1. /\ UNCHANGED nes_controllers
        /\ \A i \in Slots : socket'[i] => socket[i] /\ view'[i] = view[i]
    <3>1. \A v : Hear(v, Relay) = v
      BY DEF Hear, Relay
    <3> QED
      BY <1>0, <1>6, <3>1, SendAllHears DEF ReceiveRelay
  <2> QED
    BY <1>0, <1>4, <1>6, <2>1, SamePicture, ToldOutside
<1>7. ASSUME NEW k \in Slots \cup {None}, NEW n \in Slots, NEW m,
             nes_controllers' = [nes_controllers EXCEPT ![n] = k],
             \A v \in Views : Hear(v, m).ctrl = [v.ctrl EXCEPT ![n] = k],
             SendAll(m),
             \A i \in Slots : LoggedIn(i)' => LoggedIn(i),
             \A i \in Slots : view[i] \in Views
      PROVE  Told'
  <2>1. \A i \in Slots : socket'[i] =>
          socket[i] /\ view'[i].ctrl = [view[i].ctrl EXCEPT ![n] = k]
    BY <1>0, <1>7, SendAllHears
  <2> SUFFICES ASSUME NEW i \in Slots, socket'[i]
               PROVE  /\ \A p \in Slots : view'[i].ctrl[p] \in {None, nes_controllers'[p]}
                      /\ LoggedIn(i)' => view'[i].ctrl = nes_controllers'
    BY DEF Told
  <2>2. /\ view[i].ctrl \in [Slots -> Slots \cup {None}]
        /\ nes_controllers \in [Slots -> Slots \cup {None}]
    BY <1>0, <1>7 DEF Views, TypeOK
  <2>3. \A p \in Slots : view[i].ctrl[p] \in {None, nes_controllers[p]}
    BY <2>1 DEF ToldInv, NothingWrongTold
  <2>4. \A p \in Slots : view'[i].ctrl[p] \in {None, nes_controllers'[p]}
    BY <1>7, <2>1, <2>2, <2>3
  <2>5. LoggedIn(i) => view[i].ctrl = nes_controllers
    BY DEF ToldInv, AllTold
  <2>6. LoggedIn(i)' => view'[i].ctrl = nes_controllers'
    BY <1>7, <2>1, <2>5
  <2> QED
    BY <2>4, <2>6
<1>8. ASSUME NEW n \in Slots, TakeController(n),
             \A i \in Slots : LoggedIn(i)' => LoggedIn(i),
             \A i \in Slots : view[i] \in Views
      PROVE  Told'
  <2>1. \A v \in Views : Hear(v, Pickup(at, n)).ctrl = [v.ctrl EXCEPT ![n] = at]
    BY DEF Hear, Pickup, Views
  <2> QED
    BY <1>0, <1>7, <1>8, <2>1 DEF TakeController
<1>9. ASSUME Quiet, UNCHANGED nes_controllers,
             \A i \in Slots : LoggedIn(i)' => LoggedIn(i)
      PROVE  Told'
  BY <1>0, <1>9, QuietHears, SamePicture
<1>10. CASE ReceiveAnyController
  <2>1. Told'
    BY <1>4, <1>8, <1>9, <1>10 DEF ReceiveAnyController
  <2> QED
    BY <1>0, <1>4, <1>10, <2>1, ToldOutside
<1>11. CASE ReceivePickup
  <2>1. Told'
    BY <1>4, <1>8, <1>9, <1>11 DEF ReceivePickup
  <2> QED
    BY <1>0, <1>4, <1>11, <2>1, ToldOutside
<1>12. CASE ReceiveDrop
  <2>1. \A n \in Slots : \A v \in Views :
          Hear(v, DropPort(n)).ctrl = [v.ctrl EXCEPT ![n] = None]
    BY DEF Hear, DropPort, Views
  <2>2. Told'
    BY <1>4, <1>7, <1>9, <1>12, <2>1 DEF ReceiveDrop
  <2> QED
    BY <1>0, <1>4, <1>12, <2>2, ToldOutside
<1>13. CASE ReceiveLogin
  <2>1. PICK nm : SendAll(NewClient(at, nm))
    BY <1>13 DEF ReceiveLogin
  <2>2. UNCHANGED <<nes_controllers, command_type, at>> /\ greet' = 0
    BY <1>13 DEF ReceiveLogin
  <2>3. \A i \in Slots : socket'[i] => socket[i] /\ view'[i].ctrl = view[i].ctrl
    <3>1. \A v \in Views : Hear(v, NewClient(at, nm)).ctrl = v.ctrl
      BY DEF Hear, NewClient, Views
    <3> QED
      BY <1>0, <2>1, <3>1, SendAllHears DEF TypeOK
  <2>4. Told'
    BY <2>2, <2>3, SamePicture DEF LoggedIn
  <2>5. GreetingTold'
    BY <2>2 DEF GreetingTold, Slots
  <2> QED
    BY <2>4, <2>5 DEF Told, ToldInv, NothingWrongTold, AllTold, LoggedIn
<1>14. CASE GreetClient
  <2>1. /\ UNCHANGED <<nes_controllers, command_type, at, greet>>
        /\ pc = "greet_client"
    BY <1>14 DEF GreetClient
  <2>2. \A i \in Slots : socket'[i] => socket[i] /\ view'[i].ctrl = view[i].ctrl
    <3>1. CASE Quiet
      BY <1>0, <3>1, QuietHears
    <3>2. CASE SendCmd({at}, NewClient(greet, name[greet]))
      <4>1. {at} \in SUBSET Slots
        BY <1>0
      <4>2. \A v \in Views : Hear(v, NewClient(greet, name[greet])).ctrl = v.ctrl
        BY DEF Hear, NewClient, Views
      <4>3. SendCmdAfter(disconnecting, {at}, NewClient(greet, name[greet]))
        BY <3>2 DEF SendCmd
      <4>4. \A i \in Slots : socket'[i] =>
              /\ socket[i]
              /\ \/ view'[i] = view[i]
                 \/ view'[i] = Hear(view[i], NewClient(greet, name[greet]))
        BY <1>0, <4>1, <4>3, SendHears
      <4> QED
        BY <1>0, <4>2, <4>4 DEF TypeOK
    <3> QED
      BY <1>14, <3>1, <3>2 DEF GreetClient
  <2>3. Told'
    BY <2>1, <2>2, SamePicture DEF LoggedIn
  <2>4. GreetingTold'
    BY <1>0, <2>1, <2>2 DEF ToldInv, GreetingTold, Greeting
  <2> QED
    BY <2>3, <2>4 DEF Told, ToldInv, NothingWrongTold, AllTold, LoggedIn
<1>15. CASE GreetController
  <2>1. UNCHANGED nes_controllers /\ pc = "greet_controller"
    BY <1>15 DEF GreetController
  \* Everybody now knows the holder of controller greet.
  <2>2. \A i \in Slots : socket'[i] =>
          /\ socket[i]
          /\ view'[i].ctrl[greet] = nes_controllers[greet]
          /\ \A n \in Slots \ {greet} : view'[i].ctrl[n] = view[i].ctrl[n]
    <3>1. CASE nes_controllers[greet] # None
      <4>1. SendAll(Pickup(nes_controllers[greet], greet))
        BY <1>15, <3>1 DEF GreetController
      <4>2. \A v \in Views : Hear(v, Pickup(nes_controllers[greet], greet)).ctrl =
                                 [v.ctrl EXCEPT ![greet] = nes_controllers[greet]]
        BY DEF Hear, Pickup, Views
      <4>3. \A i \in Slots : view[i] \in Views
        BY <1>0 DEF TypeOK
      <4>4. \A i \in Slots : socket'[i] =>
              /\ socket[i]
              /\ view'[i].ctrl = [view[i].ctrl EXCEPT ![greet] = nes_controllers[greet]]
        BY <1>0, <4>1, <4>2, <4>3, SendAllHears
      <4>5. \A i \in Slots : view[i].ctrl \in [Slots -> Slots \cup {None}]
        BY <4>3 DEF Views
      <4>6. ASSUME NEW i \in Slots, socket'[i]
            PROVE  /\ view'[i].ctrl[greet] = nes_controllers[greet]
                   /\ \A n \in Slots \ {greet} : view'[i].ctrl[n] = view[i].ctrl[n]
        <5> DEFINE f == view[i].ctrl
                   g == view'[i].ctrl
        <5>1. f \in [Slots -> Slots \cup {None}]
          BY <4>5
        <5>2. g = [f EXCEPT ![greet] = nes_controllers[greet]]
          BY <4>4, <4>6
        <5> HIDE DEF f, g
        <5>3. g[greet] = nes_controllers[greet] /\ \A n \in Slots \ {greet} : g[n] = f[n]
          BY <1>0, <5>1, <5>2
        <5> QED
          BY <5>3 DEF f, g
      <4> QED
        BY <4>4, <4>6
    <3>2. CASE nes_controllers[greet] = None
      <4>1. Quiet
        BY <1>15, <3>2 DEF GreetController
      <4>2. \A i \in Slots : socket'[i] => socket[i] /\ view'[i] = view[i]
        BY <1>0, <4>1, QuietHears
      <4>3. \A i \in Slots : socket[i] => view[i].ctrl[greet] = None
        BY <1>0, <3>2 DEF ToldInv, NothingWrongTold
      <4> QED
        BY <3>2, <4>2, <4>3
    <3> QED
      BY <3>1, <3>2
  <2>3. NothingWrongTold'
    <3> SUFFICES ASSUME NEW i \in Slots, NEW n \in Slots, socket'[i]
                 PROVE  view'[i].ctrl[n] \in {None, nes_controllers[n]}
      BY <2>1 DEF NothingWrongTold
    <3>1. view[i].ctrl[n] \in {None, nes_controllers[n]}
      BY <2>2 DEF ToldInv, NothingWrongTold
    <3>2. CASE n = greet
      BY <2>2, <3>2
    <3>3. CASE n # greet
      BY <2>2, <3>1, <3>3
    <3> QED
      BY <3>2, <3>3
  <2>4. socket'[at] => \A n \in Slots : n <= greet =>
          view'[at].ctrl[n] = nes_controllers[n]
    <3> SUFFICES ASSUME socket'[at], NEW n \in Slots, n <= greet
                 PROVE  view'[at].ctrl[n] = nes_controllers[n]
      OBVIOUS
    <3>1. /\ at \in Slots /\ socket[at]
          /\ view'[at].ctrl[greet] = nes_controllers[greet]
          /\ n # greet => view'[at].ctrl[n] = view[at].ctrl[n]
      BY <1>0, <2>2
    <3>2. n < greet => view[at].ctrl[n] = nes_controllers[n]
      BY <2>1, <3>1 DEF ToldInv, GreetingTold, Greeting
    <3>3. n = greet \/ n < greet
      BY <1>0 DEF Slots
    <3> QED
      BY <3>1, <3>2, <3>3, Zenon
  <2>7. ASSUME NEW i \in Slots, socket'[i], LoggedIn(i)
        PROVE  view'[i].ctrl = nes_controllers
    <3>1. view[i].ctrl = nes_controllers
      BY <2>7 DEF ToldInv, AllTold
    <3>2. /\ view'[i].ctrl \in [Slots -> Slots \cup {None}]
          /\ nes_controllers \in [Slots -> Slots \cup {None}]
      BY <1>0 DEF Views, TypeOK
    <3>3. \A n \in Slots : view'[i].ctrl[n] = nes_controllers[n]
      BY <1>0, <2>2, <2>7, <3>1
    <3>4. view'[i].ctrl = [n \in Slots |-> view'[i].ctrl[n]]
      BY <3>2, Zenon
    <3>5. nes_controllers = [n \in Slots |-> nes_controllers[n]]
      BY <3>2, Zenon
    <3>6. [n \in Slots |-> view'[i].ctrl[n]] = [n \in Slots |-> nes_controllers[n]]
      BY <3>3, Zenon
    <3> QED
      BY <3>4, <3>5, <3>6, Zenon
  <2>5. CASE greet < N-1
    <3>1. /\ greet' = greet + 1 /\ pc' = "greet_client"
          /\ UNCHANGED <<at, command_type>>
      BY <1>15, <2>5 DEF GreetController
    <3>2. GreetingTold'
      BY <1>0, <2>1, <2>4, <3>1 DEF GreetingTold, Slots
    <3>3. AllTold'
      BY <2>1, <2>2, <2>7, <3>1 DEF AllTold, LoggedIn
    <3> QED
      BY <2>3, <3>2, <3>3 DEF ToldInv
  <2>6. CASE ~(greet < N-1)
    <3>1. NextReceive /\ Expect(at, "UPDATEDATA")
      BY <1>15, <2>6 DEF GreetController
    <3>2. GreetingTold'
      BY <3>1 DEF GreetingTold, Greeting, NextReceive
    <3>3. socket'[at] => view'[at].ctrl = nes_controllers
      BY <1>0, <2>1, <2>4, <2>6 DEF Slots, Views, TypeOK
    <3>4. ASSUME NEW i \in Slots, i # at, LoggedIn(i)'
          PROVE  view'[i].ctrl = nes_controllers
      <4>1. LoggedIn(i)
        BY <1>0, <2>2, <3>1, <3>4 DEF LoggedIn, Expect, TypeOK
      <4> QED
        BY <2>7, <3>4, <4>1 DEF LoggedIn
    <3>5. AllTold'
      BY <2>1, <3>3, <3>4 DEF AllTold, LoggedIn
    <3> QED
      BY <2>3, <3>2, <3>5 DEF ToldInv
  <2> QED
    BY <2>5, <2>6
<1>16. CASE Send
  <2>1. /\ UNCHANGED <<nes_controllers, command_type>>
        /\ ~Greeting'
    BY <1>16
    DEF Send, SendSkip, SendFrame, SendError, SendCrash, NextSend, Greeting
  <2>2. \A i \in Slots : socket'[i] => socket[i] /\ view'[i] = view[i]
    <3>1. CASE SendFrame
      BY <3>1 DEF SendFrame
    <3>2. CASE SendSkip \/ SendError \/ SendCrash
      BY <1>0, <3>2, QuietHears DEF SendSkip, SendError, SendCrash
    <3> QED
      BY <1>16, <3>1, <3>2 DEF Send
  <2> QED
    BY <1>0, <2>1, <2>2, SamePicture, ToldOutside DEF LoggedIn
<1>17. CASE StillHere
  <2>1. /\ UNCHANGED <<nes_controllers, command_type, socket, view>>
        /\ ~Greeting'
    BY <1>17 DEF StillHere, Quiet, NextDisconnect, Greeting
  <2> QED
    BY <1>0, <2>1, SamePicture, ToldOutside DEF LoggedIn
<1>18. CASE HandleDisconnect
  <2>1. /\ UNCHANGED command_type /\ ~Greeting'
        /\ nes_controllers' = [n \in Slots |->
              IF nes_controllers[n] = at THEN None ELSE nes_controllers[n]]
    BY <1>18 DEF HandleDisconnect, NextDisconnect, Greeting
  <2>2. Connected \in SUBSET Slots
    BY DEF Connected
  <2>3. \A i \in Slots : socket'[i] =>
          /\ socket[i]
          /\ view'[i].ctrl = [n \in Slots |->
                IF view[i].ctrl[n] = at THEN None ELSE view[i].ctrl[n]]
    <3>1. \A v \in Views : Hear(v, ClientGone(at)).ctrl =
            [n \in Slots |-> IF v.ctrl[n] = at THEN None ELSE v.ctrl[n]]
      BY DEF Hear, ClientGone
    <3>2. \A i \in Slots : socket'[i] =>
            socket[i] /\ view'[i] = Hear(view[i], ClientGone(at))
      <4>1. PICK flags : SendCmdAfter(flags, Connected, ClientGone(at))
        BY <1>18 DEF HandleDisconnect
      <4>2. \A i \in Slots : socket'[i] => socket[i] /\ i \in Connected
        BY <1>0, <2>2, <4>1, SendHears DEF Connected
      <4> QED
        BY <1>0, <2>2, <4>1, <4>2, SendHears
    <3> QED
      BY <1>0, <3>1, <3>2 DEF TypeOK
  <2>4. Told'
    <3> SUFFICES ASSUME NEW i \in Slots, socket'[i]
                 PROVE  /\ \A p \in Slots : view'[i].ctrl[p] \in {None, nes_controllers'[p]}
                        /\ LoggedIn(i)' => view'[i].ctrl = nes_controllers'
      BY DEF Told
    <3>1. \A p \in Slots : view[i].ctrl[p] \in {None, nes_controllers[p]}
      BY <2>3 DEF ToldInv, NothingWrongTold
    <3>2. LoggedIn(i)' => view[i].ctrl = nes_controllers
      BY <2>1, <2>3 DEF ToldInv, AllTold, LoggedIn
    <3>3. \A p \in Slots : view'[i].ctrl[p] \in {None, nes_controllers'[p]}
      <4> SUFFICES ASSUME NEW p \in Slots
                   PROVE  view'[i].ctrl[p] \in {None, nes_controllers'[p]}
        OBVIOUS
      <4>1. view'[i].ctrl[p] = IF view[i].ctrl[p] = at THEN None ELSE view[i].ctrl[p]
        BY <2>3
      <4>2. nes_controllers'[p] = IF nes_controllers[p] = at THEN None ELSE nes_controllers[p]
        BY <2>1
      <4> QED
        BY <3>1, <4>1, <4>2
    <3>4. LoggedIn(i)' => view'[i].ctrl = nes_controllers'
      BY <2>1, <2>3, <3>2
    <3> QED
      BY <3>3, <3>4
  <2> QED
    BY <1>0, <2>1, <2>4, ToldOutside
<1> QED
  BY <1>1, <1>2, <1>3, <1>5, <1>6, <1>10, <1>11, <1>12, <1>13, <1>14, <1>15,
     <1>16, <1>17, <1>18
  DEF Next, Receive

\* The picture of who holds which controller is the server's own for every
\* player whose connection began with its frame divisor, for any number of
\* clients and any buffer size: no interleaving of logins, requests, disconnects
\* and full buffers makes these players disagree.
THEOREM ControllersAgree == Spec => []ToldControllers
<1>1. Init => ToldInv
  BY SlotFacts
  DEF Init, ToldInv, NothingWrongTold, GreetingTold, AllTold, LoggedIn, Greeting
<1>2. SlotInv /\ ToldInv /\ [Next]_vars => ToldInv'
  BY ToldStep
<1>3. ToldInv => ToldControllers
  BY DEF ToldInv, AllTold, ToldControllers, Follows
<1> QED
  BY <1>1, <1>2, <1>3, SlotCorrect, PTL DEF Spec

-----------------------------------------------------------------------------
(* The players' names. *)

\* No step but a login gives or changes a name.
LEMMA NameKept ==
    ASSUME TypeOK, [Next]_vars, ~ReceiveLogin
    PROVE  /\ UNCHANGED name
           /\ \A i \in Slots : Named(i)' => Named(i)
<1>0. at \in Slots /\ greet \in Slots
  BY DEF TypeOK
<1>1. CASE UNCHANGED vars
  BY <1>1 DEF vars, Named, LoggedIn, Greeting
<1>2. CASE AcceptNobody
  BY <1>2 DEF AcceptNobody, Quiet, Named, LoggedIn, Greeting
<1>3. CASE Accept
  <2>1. PICK i \in Slots \ Connected :
          /\ Expect(i, "LOGINLEN")
          /\ \A j \in Slots \ {i} : socket'[j] = socket[j]
    BY <1>3 DEF Accept, TypeOK
  <2>2. ~Greeting' /\ UNCHANGED name
    BY <1>3 DEF Accept, Greeting
  <2> QED
    BY <2>1, <2>2 DEF Named, LoggedIn, Expect, TypeOK
<1>4. CASE \/ ReceivePart \/ ReceiveError \/ ReceiveLoginLen \/ ReceiveEscape
           \/ ReceiveInput \/ ReceiveCommand \/ ReceiveRelay \/ ReceiveAnyController
           \/ ReceivePickup \/ ReceiveDrop \/ ReceiveInvalid
  <2>1. ~Greeting'
    BY <1>4, ReceiveFacts DEF NextReceive, Greeting
  <2>2. UNCHANGED name
    BY <1>4
    DEF ReceivePart, ReceiveError, ReceiveLoginLen, ReceiveEscape, ReceiveInput,
        ReceiveCommand, ReceiveRelay, ReceiveAnyController, ReceivePickup,
        ReceiveDrop, ReceiveInvalid
  <2> QED
    BY <1>4, <2>1, <2>2, NoNewLogin DEF Named
<1>5. CASE GreetClient
  <2>1. Loses(disconnecting)
    <3>1. {at} \in SUBSET Slots /\ disconnecting \in [Slots -> BOOLEAN]
      BY <1>0 DEF TypeOK
    <3> QED
      BY <1>0, <1>5, <3>1, SendLoses, QuietLoses DEF GreetClient, SendCmd
  <2> QED
    BY <1>5, <2>1 DEF GreetClient, Loses, Named, LoggedIn, Greeting
<1>6. CASE GreetController
  <2>1. Loses(disconnecting)
    BY <1>0, <1>6, SendAllLoses, QuietLoses DEF GreetController
  <2>2. /\ Greeting /\ UNCHANGED name
        /\ \/ Greeting' /\ UNCHANGED <<at, command_type>>
           \/ ~Greeting' /\ Expect(at, "UPDATEDATA")
    BY <1>6 DEF GreetController, NextReceive, Greeting
  <2> QED
    BY <1>0, <2>1, <2>2 DEF Loses, Named, LoggedIn, Expect, TypeOK
<1>7. CASE Send
  <2>1. \A i \in Slots : socket'[i] => socket[i]
    <3>1. CASE SendFrame
      BY <3>1 DEF SendFrame
    <3>2. CASE SendSkip \/ SendError \/ SendCrash
      BY <1>0, <3>2, QuietLoses DEF SendSkip, SendError, SendCrash, Loses
    <3> QED
      BY <1>7, <3>1, <3>2 DEF Send
  <2>2. ~Greeting' /\ UNCHANGED <<name, command_type>>
    BY <1>7
    DEF Send, SendSkip, SendFrame, SendError, SendCrash, NextSend, Greeting
  <2> QED
    BY <2>1, <2>2 DEF Named, LoggedIn
<1>8. CASE StillHere
  BY <1>8 DEF StillHere, Quiet, NextDisconnect, Named, LoggedIn, Greeting
<1>9. CASE HandleDisconnect
  <2>1. \A i \in Slots : socket'[i] => socket[i]
    BY <1>9 DEF HandleDisconnect, SendCmdAfter
  <2> QED
    BY <1>9, <2>1 DEF HandleDisconnect, NextDisconnect, Named, LoggedIn, Greeting
<1> QED
  BY <1>1, <1>2, <1>3, <1>4, <1>5, <1>6, <1>7, <1>8, <1>9 DEF Next, Receive

\* A login takes a name that no connected client has, or its slot's own.
LEMMA NameGiven ==
    ASSUME TypeOK, NamedInv, ReceiveLogin
    PROVE  NamedInv'
<1>0. at \in Slots
  BY DEF TypeOK
<1>1. PICK nm \in Names :
        /\ name' = [name EXCEPT ![at] = nm]
        /\ nm = DefaultName[at] \/ UniqueName(at, nm)
        /\ SendAll(NewClient(at, nm))
  BY <1>0, ProtocolAssumption, InputAssumption DEF ReceiveLogin
<1>2. \A i \in Slots : socket'[i] => socket[i]
  BY <1>1, SendAllLoses DEF Loses
<1>3. \A i \in Slots \ {at} : Named(i)' => Named(i) /\ name'[i] = name[i]
  BY <1>0, <1>1, <1>2 DEF ReceiveLogin, Named, LoggedIn, TypeOK
<1>4. name'[at] = nm
  BY <1>0, <1>1 DEF TypeOK
<1>5. \A i \in Slots \ {at} : Named(i)' => name'[i] # nm \/ nm = DefaultName[at]
  BY <1>1, <1>2, <1>3 DEF UniqueName, Connected, Named, LoggedIn
<1> QED
  BY <1>3, <1>4, <1>5 DEF NamedInv

\* Two players have the same name only where one of them was given the default
\* name of its slot, for any number of clients and any nicknames.
THEOREM DistinctNames == Spec => []NamesDistinct
<1>1. Init => NamedInv
  BY DEF Init, NamedInv, Named, LoggedIn, Greeting
<1>2. TypeOK /\ NamedInv /\ [Next]_vars => NamedInv'
  <2> SUFFICES ASSUME TypeOK, NamedInv, [Next]_vars
               PROVE  NamedInv'
    OBVIOUS
  <2>1. CASE ReceiveLogin
    BY <2>1, NameGiven
  <2>2. CASE ~ReceiveLogin
    BY <2>2, NameKept DEF NamedInv
  <2> QED
    BY <2>1, <2>2
<1>3. NamedInv => NamesDistinct
  BY DEF NamedInv, NamesDistinct, Named
<1> QED
  BY <1>1, <1>2, <1>3, TypeCorrect, PTL DEF Spec

-----------------------------------------------------------------------------
(* The refinement of Lobby. *)

\* Only players hold controllers, and those whose disconnect is to come.
HeldByMember ==
    \A i, n \in Slots : nes_controllers[n] = i => LoggedIn(i) \/ disconnecting[i]

\* The name of the client being greeted is its slot's own, or no player has it.
GreetedName ==
    Greeting => /\ name[at] \in Names
                /\ \/ name[at] = DefaultName[at]
                   \/ \A j \in Slots : LoggedIn(j) => name[j] # name[at]

LobbyInv == SlotInv /\ HeldByMember /\ GreetedName

\* The steps that give or take controllers on a player's request.
Request == ReceiveAnyController \/ ReceivePickup \/ ReceiveDrop

\* The step that makes the client being greeted a player.
Joins == Greeting /\ \E i \in Slots : i = at /\ LoggedIn(i)'

-----------------------------------------------------------------------------
(* Who becomes and who stays a player. *)

\* Whoever is a player after a step was one before, with the same name, unless
\* it is the client being greeted.
LEMMA MembersStay ==
    ASSUME SlotInv, [Next]_vars, NEW i \in Slots, LoggedIn(i)', ~(Greeting /\ i = at)
    PROVE  LoggedIn(i) /\ name'[i] = name[i]
<1>0. TypeOK /\ at \in Slots
  BY DEF SlotInv, TypeOK
<1>1. CASE ReceiveLogin
  <2>1. /\ command_type[at] = "LOGIN" /\ UNCHANGED command_type
        /\ \A j \in Slots \ {at} : name'[j] = name[j]
    BY <1>0, <1>1 DEF ReceiveLogin, Completes, TypeOK
  <2>2. socket'[i] => socket[i]
    BY <1>0, <1>1, SendAllLoses DEF ReceiveLogin, Loses
  <2> QED
    BY <2>1, <2>2 DEF LoggedIn
<1>2. CASE ~ReceiveLogin
  BY <1>0, <1>2, NameKept DEF Named
<1> QED
  BY <1>1, <1>2

\* The client being greeted becomes a player only by the end of the greeting.
LEMMA GreetingEnds ==
    ASSUME SlotInv, [Next]_vars, Joins
    PROVE  GreetController
<1>1. command_type[at] = "LOGIN" /\ pc \in {"greet_client", "greet_controller"}
  BY DEF SlotInv, GreetedLogsIn, Greeting, Joins
<1>2. command_type' # command_type
  BY <1>1 DEF LoggedIn, Joins
<1> QED
  BY <1>1, <1>2
  DEF Next, vars, AcceptNobody, Accept, Receive, ReceivePart, ReceiveError, ReceiveLoginLen,
      ReceiveLogin, GreetClient, ReceiveEscape, ReceiveInput, ReceiveCommand, ReceiveRelay,
      ReceiveAnyController, ReceivePickup, ReceiveDrop, ReceiveInvalid, Completes, Send,
      SendSkip, SendFrame, SendError, SendCrash, StillHere, HandleDisconnect

\* Controllers change hands only on request, and when a disconnect is handled.
LEMMA HoldersKept ==
    ASSUME [Next]_vars, ~Request, ~HandleDisconnect
    PROVE  UNCHANGED nes_controllers
BY DEF Next, vars, Request, AcceptNobody, Accept, Receive, ReceivePart, ReceiveError,
       ReceiveLoginLen, ReceiveLogin, GreetClient, GreetController, ReceiveEscape, ReceiveInput,
       ReceiveCommand, ReceiveRelay, ReceiveInvalid, Send, SendSkip, SendFrame, SendError,
       SendCrash, StillHere, NextSend

\* The pads move only on input.
LEMMA PadsKept ==
    ASSUME [Next]_vars, ~ReceiveInput
    PROVE  UNCHANGED joybuf
BY DEF Next, vars, AcceptNobody, Accept, Receive, ReceivePart, ReceiveError,
       ReceiveLoginLen, ReceiveLogin, GreetClient, GreetController, ReceiveEscape,
       ReceiveCommand, ReceiveRelay, ReceiveAnyController, ReceivePickup, ReceiveDrop,
       ReceiveInvalid, Send, SendSkip, SendFrame, SendError, SendCrash, StillHere,
       HandleDisconnect, NextSend, NextDisconnect

\* Whoever stops being a player, and whoever was waiting for its disconnect to
\* be handled, waits for it after a step that is not that of its disconnect.
LEMMA LossIsMarked ==
    ASSUME SlotInv, [Next]_vars, NEW i \in Slots, LoggedIn(i) \/ disconnecting[i],
           ~LoggedIn(i)', ~(HandleDisconnect /\ i = at)
    PROVE  disconnecting'[i]
<1>0. TypeOK /\ at \in Slots /\ greet \in Slots
  BY DEF SlotInv, TypeOK
<1>1. CASE UNCHANGED vars \/ AcceptNobody \/ StillHere
  BY <1>1 DEF vars, AcceptNobody, StillHere, Quiet, NextDisconnect, LoggedIn
<1>2. CASE Accept
  <2>1. PICK j \in Slots \ Connected :
          /\ Expect(j, "LOGINLEN")
          /\ \/ socket' = [socket EXCEPT ![j] = TRUE] /\ UNCHANGED disconnecting
             \/ disconnecting' = [disconnecting EXCEPT ![j] = TRUE] /\ UNCHANGED socket
    BY <1>2 DEF Accept
  <2> QED
    BY <1>0, <2>1 DEF Connected, LoggedIn, Expect, TypeOK
<1>3. CASE Receive \/ Send
  <2>1. Loses(disconnecting)
    <3>1. {at} \in SUBSET Slots /\ disconnecting \in [Slots -> BOOLEAN]
      BY <1>0 DEF TypeOK
    <3>2. CASE ReceiveLogin \/ GreetController
      BY <1>0, <3>2, SendAllLoses, QuietLoses DEF ReceiveLogin, GreetController
    <3>3. CASE GreetClient
      BY <1>0, <3>1, <3>3, SendLoses, QuietLoses DEF GreetClient, SendCmd
    <3>4. CASE SendFrame
      BY <3>4 DEF SendFrame, Loses
    <3>5. CASE SendSkip \/ SendError \/ SendCrash
      BY <1>0, <3>5, QuietLoses DEF SendSkip, SendError, SendCrash
    <3> QED
      BY <1>0, <1>3, <3>2, <3>3, <3>4, <3>5, ReceiveFacts DEF Receive, Send
  <2>2. LoggedIn(i) /\ socket'[i] => LoggedIn(i)'
    BY <1>0, <1>3
    DEF Receive, ReceivePart, ReceiveError, ReceiveLoginLen, ReceiveLogin, GreetClient,
        GreetController, ReceiveEscape, ReceiveInput, ReceiveCommand, ReceiveRelay,
        ReceiveAnyController, ReceivePickup, ReceiveDrop, ReceiveInvalid, Completes, Expect,
        Send, SendSkip, SendFrame, SendError, SendCrash, NextSend, LoggedIn, TypeOK, Payloads
  <2> QED
    BY <1>0, <2>1, <2>2 DEF Loses, LoggedIn
<1>4. CASE HandleDisconnect
  <2> DEFINE flags == [disconnecting EXCEPT ![at] = FALSE]
  <2>1. Loses(flags)
    <3>1. flags \in [Slots -> BOOLEAN] /\ Connected \in SUBSET Slots
      BY <1>0 DEF TypeOK, Connected
    <3> QED
      BY <1>0, <1>4, <3>1, SendLoses DEF HandleDisconnect
  <2>2. i # at /\ flags[i] = disconnecting[i] /\ UNCHANGED command_type
    BY <1>0, <1>4 DEF TypeOK, HandleDisconnect, NextDisconnect
  <2> HIDE DEF flags
  <2> QED
    BY <2>1, <2>2 DEF Loses, LoggedIn
<1> QED
  BY <1>1, <1>2, <1>3, <1>4 DEF Next

-----------------------------------------------------------------------------
(* The inductive invariant. *)

\* What a request makes of the holders: a player's own, or what it was.
LEMMA RequestHolds ==
    ASSUME TypeOK, Request
    PROVE  /\ LoggedIn(at) /\ at \in Slots
           /\ \A n \in Slots : nes_controllers'[n] \in {nes_controllers[n], at, None}
BY DEF Request, ReceiveAnyController, ReceivePickup, ReceiveDrop, TakeController, Completes,
       LoggedIn, TypeOK

\* Whoever holds a controller is a player or is about to be announced as gone.
LEMMA HeldStep ==
    ASSUME SlotInv, HeldByMember, [Next]_vars
    PROVE  HeldByMember'
<1>0. TypeOK /\ at \in Slots /\ TypeOK'
  BY TypeStep DEF SlotInv, TypeOK
<1> SUFFICES ASSUME NEW i \in Slots, NEW n \in Slots, nes_controllers'[n] = i
             PROVE  LoggedIn(i)' \/ disconnecting'[i]
  BY DEF HeldByMember
<1>1. CASE HandleDisconnect
  <2>1. nes_controllers[n] = i /\ i # at
    BY <1>1, SlotFacts DEF HandleDisconnect
  <2> QED
    BY <2>1, LossIsMarked DEF HeldByMember
<1>2. CASE Request
  <2>1. nes_controllers[n] = i \/ i = at
    BY <1>0, <1>2, RequestHolds, SlotFacts
  <2>2. LoggedIn(i) \/ disconnecting[i]
    BY <1>0, <1>2, <2>1, RequestHolds DEF HeldByMember
  <2>3. ~HandleDisconnect
    BY <1>2 DEF Request, ReceiveAnyController, ReceivePickup, ReceiveDrop, Completes,
                HandleDisconnect
  <2> QED
    BY <2>2, <2>3, LossIsMarked
<1>3. CASE ~HandleDisconnect /\ ~Request
  BY <1>3, HoldersKept, LossIsMarked DEF HeldByMember
<1> QED
  BY <1>1, <1>2, <1>3

\* A login chooses a name that fits, and during the greeting nobody else joins.
LEMMA GreetedStep ==
    ASSUME SlotInv, GreetedName, [Next]_vars
    PROVE  GreetedName'
<1>0. TypeOK /\ at \in Slots
  BY DEF SlotInv, TypeOK
<1> SUFFICES ASSUME Greeting'
             PROVE  GreetedName'
  BY DEF GreetedName
<1>1. CASE ReceiveLogin
  <2>1. PICK nm \in Names :
          /\ name' = [name EXCEPT ![at] = nm]
          /\ nm = DefaultName[at] \/ UniqueName(at, nm)
          /\ SendAll(NewClient(at, nm))
    BY <1>0, <1>1, ProtocolAssumption, InputAssumption DEF ReceiveLogin
  <2>2. at' = at /\ UNCHANGED command_type /\ command_type[at] = "LOGIN" /\ ~Greeting
    BY <1>1 DEF ReceiveLogin, Completes, Greeting
  <2>3. name'[at] = nm
    BY <1>0, <2>1 DEF TypeOK
  <2>4. \A j \in Slots : LoggedIn(j)' => j # at /\ socket[j] /\ name'[j] = name[j]
    BY <2>2, MembersStay DEF LoggedIn
  <2> QED
    BY <2>1, <2>2, <2>3, <2>4 DEF GreetedName, UniqueName, Connected
<1>2. CASE ~ReceiveLogin
  <2>1. Greeting /\ at' = at /\ UNCHANGED <<name, command_type>>
    <3>1. CASE GreetClient \/ GreetController \/ UNCHANGED vars
      BY <3>1 DEF GreetClient, GreetController, NextReceive, vars, Greeting
    <3>2. CASE ~(GreetClient \/ GreetController \/ UNCHANGED vars)
      <4>1. ~Greeting'
        <5>1. CASE \/ ReceivePart \/ ReceiveError \/ ReceiveLoginLen \/ ReceiveEscape
                   \/ ReceiveInput \/ ReceiveCommand \/ ReceiveRelay \/ ReceiveAnyController
                   \/ ReceivePickup \/ ReceiveDrop \/ ReceiveInvalid
          BY <1>0, <5>1, ReceiveFacts DEF NextReceive, Greeting
        <5>2. CASE AcceptNobody \/ Accept \/ Send \/ StillHere \/ HandleDisconnect
          BY <5>2 DEF AcceptNobody, Accept, Send, SendSkip, SendFrame, SendError, SendCrash,
                      NextSend, StillHere, HandleDisconnect, NextDisconnect, Greeting
        <5> QED
          BY <1>2, <3>2, <5>1, <5>2 DEF Next, Receive
      <4> QED
        BY <4>1
    <3> QED
      BY <3>1, <3>2
  <2>2. \A j \in Slots : LoggedIn(j)' => LoggedIn(j)
    BY <1>0, <1>2, <2>1, NameKept DEF Named, SlotInv, GreetedLogsIn, LoggedIn
  <2> QED
    BY <2>1, <2>2 DEF GreetedName
<1> QED
  BY <1>1, <1>2

\* The invariant behind the refinement holds throughout.
LEMMA LobbyAlways == Spec => []LobbyInv
<1>1. Init => HeldByMember /\ GreetedName
  BY SlotFacts DEF Init, HeldByMember, GreetedName, Greeting
<1>2. SlotInv /\ HeldByMember /\ GreetedName /\ [Next]_vars => HeldByMember' /\ GreetedName'
  BY HeldStep, GreetedStep
<1> QED
  BY <1>1, <1>2, SlotCorrect, PTL DEF Spec, LobbyInv

-----------------------------------------------------------------------------
(* The refinement. *)

\* The lobby's slots are the server's.
LEMMA SameSlots == L!Slots = Slots /\ L!None = None
BY DEF L!Slots, Slots, L!None, None

\* Holder n of the lobby, without the quantifier.
LEMMA HolderIs ==
    ASSUME TypeOK, NEW n \in Slots
    PROVE  lobbyHolder[n] = IF nes_controllers[n] \in Slots /\ LoggedIn(nes_controllers[n])
                            THEN nes_controllers[n] ELSE None
BY SlotFacts DEF lobbyHolder, TypeOK

\* With members m and holders h before, those who are no players after the step
\* have left.
LEMMA Leaves ==
    ASSUME TypeOK, TypeOK', NEW m \in [Slots -> SlotNames \cup {NoOne}],
           NEW h \in [Slots -> Slots \cup {None}],
           \A i \in Slots : LoggedIn(i)' => m[i] = name'[i],
           \A n, i \in Slots : LoggedIn(i)' => (h[n] = i <=> nes_controllers'[n] = i)
    PROVE  L!Leaving({i \in Slots : ~LoggedIn(i)'}, m, h)
<1> DEFINE gone == {i \in Slots : ~LoggedIn(i)'}
<1>1. lobbyMember' = [i \in Slots |-> IF i \in gone THEN NoOne ELSE m[i]]
  BY DEF lobbyMember
<1>2. lobbyHolder' = [n \in Slots |-> IF h[n] \in gone THEN None ELSE h[n]]
  <2>1. ASSUME NEW n \in Slots
        PROVE  lobbyHolder'[n] = IF h[n] \in gone THEN None ELSE h[n]
    <3>1. h[n] \in Slots \cup {None} /\ nes_controllers'[n] \in Slots \cup {None}
      BY DEF TypeOK
    <3>2. lobbyHolder'[n] = IF \E i \in Slots : nes_controllers'[n] = i /\ LoggedIn(i)'
                            THEN nes_controllers'[n] ELSE None
      BY DEF lobbyHolder
    <3> QED
      BY <3>1, <3>2, SlotFacts
  <2> QED
    BY <2>1 DEF lobbyHolder
<1> QED
  BY <1>1, <1>2, SameSlots DEF L!Leaving

\* The lobby is typed as its variables are.
LEMMA LobbyTypes ==
    ASSUME TypeOK
    PROVE  /\ lobbyMember \in [Slots -> SlotNames \cup {NoOne}]
           /\ lobbyHolder \in [Slots -> Slots \cup {None}]
BY DEF lobbyMember, lobbyHolder, TypeOK

\* A request of a player is one of a member, and may cost members their place.
LEMMA RequestRefines ==
    ASSUME LobbyInv, [Next]_vars, Request
    PROVE  L!Leave \/ L!Take \/ L!Release
<1>0. TypeOK /\ TypeOK' /\ at \in Slots /\ SlotInv
  BY TypeStep DEF LobbyInv, SlotInv, TypeOK
<1>1. /\ LoggedIn(at) /\ ~Greeting /\ UNCHANGED joybuf
  BY <1>0, RequestHolds
  DEF Request, ReceiveAnyController, ReceivePickup, ReceiveDrop, Completes, Greeting
<1>2. lobbyMember[at] # NoOne
  BY <1>0, <1>1, ProtocolAssumption DEF lobbyMember, TypeOK
<1>3. \A i \in Slots : LoggedIn(i)' => LoggedIn(i) /\ lobbyMember[i] = name'[i]
  BY <1>0, <1>1, MembersStay DEF lobbyMember
<1>4. {i \in Slots : ~LoggedIn(i)'} \in SUBSET Slots
  OBVIOUS
<1>5. CASE UNCHANGED nes_controllers
  <2>1. \A n, i \in Slots : LoggedIn(i)' => (lobbyHolder[n] = i <=> nes_controllers'[n] = i)
    BY <1>0, <1>3, <1>5, HolderIs, SlotFacts
  <2> QED
    BY <1>0, <1>1, <1>3, <1>4, <2>1, Leaves, LobbyTypes, SameSlots DEF L!Leave
<1>6. ASSUME NEW n \in Slots, TakeController(n)
      PROVE  L!Take
  <2> DEFINE h == [lobbyHolder EXCEPT ![n] = at]
  <2>1. nes_controllers[n] = None /\ nes_controllers' = [nes_controllers EXCEPT ![n] = at]
    BY <1>6 DEF TakeController
  <2>2. lobbyHolder[n] = None
    BY <1>0, <2>1, HolderIs, SlotFacts
  <2>3. h \in [Slots -> Slots \cup {None}]
    BY <1>0, LobbyTypes
  <2>4. ASSUME NEW k \in Slots, NEW i \in Slots, LoggedIn(i)'
        PROVE  h[k] = i <=> nes_controllers'[k] = i
    <3>1. CASE k = n
      BY <1>0, <2>1, <3>1, LobbyTypes DEF TypeOK
    <3>2. CASE k # n
      <4>1. h[k] = lobbyHolder[k] /\ nes_controllers'[k] = nes_controllers[k]
        BY <1>0, <2>1, <3>2, LobbyTypes DEF TypeOK
      <4> QED
        BY <1>0, <1>3, <2>4, <4>1, HolderIs, SlotFacts
    <3> QED
      BY <3>1, <3>2
  <2> HIDE DEF h
  <2>5. L!Leaving({i \in Slots : ~LoggedIn(i)'}, lobbyMember, h)
    BY <1>0, <1>3, <2>3, <2>4, Leaves, LobbyTypes
  <2> QED
    BY <1>1, <1>2, <1>4, <2>2, <2>5, SameSlots DEF L!Take, h
<1>7. ASSUME NEW n \in Slots, nes_controllers[n] = at,
             nes_controllers' = [nes_controllers EXCEPT ![n] = None]
      PROVE  L!Release
  <2> DEFINE h == [lobbyHolder EXCEPT ![n] = None]
  <2>2. lobbyHolder[n] = at
    BY <1>0, <1>1, <1>7, HolderIs
  <2>3. h \in [Slots -> Slots \cup {None}]
    BY <1>0, LobbyTypes
  <2>4. ASSUME NEW k \in Slots, NEW i \in Slots, LoggedIn(i)'
        PROVE  h[k] = i <=> nes_controllers'[k] = i
    <3>1. CASE k = n
      BY <1>0, <1>7, <3>1, LobbyTypes, SlotFacts DEF TypeOK
    <3>2. CASE k # n
      <4>1. h[k] = lobbyHolder[k] /\ nes_controllers'[k] = nes_controllers[k]
        BY <1>0, <1>7, <3>2, LobbyTypes DEF TypeOK
      <4> QED
        BY <1>0, <1>3, <2>4, <4>1, HolderIs, SlotFacts
    <3> QED
      BY <3>1, <3>2
  <2> HIDE DEF h
  <2>5. L!Leaving({i \in Slots : ~LoggedIn(i)'}, lobbyMember, h)
    BY <1>0, <1>3, <2>3, <2>4, Leaves, LobbyTypes
  <2> QED
    BY <1>1, <1>2, <1>4, <2>2, <2>5, SameSlots DEF L!Release, h
<1> QED
  BY <1>5, <1>6, <1>7 DEF Request, ReceiveAnyController, ReceivePickup, ReceiveDrop

\* Input of a player moves its own controllers.
LEMMA InputRefines ==
    ASSUME LobbyInv, ReceiveInput
    PROVE  L!Input
<1>0. TypeOK /\ at \in Slots
  BY DEF LobbyInv, SlotInv, TypeOK
<1>1. LoggedIn(at) /\ UNCHANGED <<lobbyMember, lobbyHolder>>
  BY DEF ReceiveInput, Completes, Quiet, LoggedIn, lobbyMember, lobbyHolder
<1>2. lobbyMember[at] # NoOne
  BY <1>0, <1>1, ProtocolAssumption DEF lobbyMember, TypeOK
<1>3. \A n \in Slots : lobbyHolder[n] # at => nes_controllers[n] # at
  BY <1>0, <1>1, HolderIs
<1>4. /\ joybuf' \in [Slots -> Pads]
      /\ \A n \in Slots : nes_controllers[n] # at => joybuf'[n] = joybuf[n]
  BY DEF ReceiveInput
<1> QED
  BY <1>1, <1>2, <1>3, <1>4, SameSlots DEF L!Input

\* The end of a greeting makes a member, who holds nothing yet.
LEMMA JoinRefines ==
    ASSUME LobbyInv, [Next]_vars, Joins
    PROVE  L!Join
<1>0. TypeOK /\ TypeOK' /\ at \in Slots /\ SlotInv /\ Greeting
  BY TypeStep DEF LobbyInv, SlotInv, TypeOK, Joins
<1>1. GreetController
  BY <1>0, GreetingEnds
<1>2. /\ command_type[at] = "LOGIN" /\ ~LoggedIn(at) /\ lobbyMember[at] = NoOne
      /\ UNCHANGED <<name, nes_controllers, joybuf>>
  BY <1>0, <1>1
  DEF GreetController, SlotInv, GreetedLogsIn, LoggedIn, lobbyMember
<1>3. socket[at] /\ ~disconnecting[at]
  <2>1. socket[at]
    BY <1>0, <1>1, SendAllLoses, QuietLoses DEF GreetController, Loses, LoggedIn, Joins
  <2> QED
    BY <1>0, <1>2, <2>1 DEF SlotInv, ReusedSlot, Slots
<1>4. \A n \in Slots : nes_controllers[n] # at
  BY <1>0, <1>2, <1>3 DEF LobbyInv, HeldByMember
<1> DEFINE nm == name[at]
           m  == [lobbyMember EXCEPT ![at] = nm]
           gone == {i \in Slots : ~LoggedIn(i)'}
<1>5. nm \in Names /\ (nm = DefaultName[at] \/ \A j \in Slots : lobbyMember[j] # nm)
  <2>1. nm \in Names /\ nm # NoOne
    BY <1>0, ProtocolAssumption DEF LobbyInv, GreetedName, SlotNames
  <2> QED
    BY <1>0, <2>1 DEF LobbyInv, GreetedName, lobbyMember
<1>6. m \in [Slots -> SlotNames \cup {NoOne}]
  BY <1>0, <1>5, LobbyTypes DEF SlotNames
<1>7. ASSUME NEW i \in Slots, LoggedIn(i)'
      PROVE  m[i] = name'[i] /\ (i # at => LoggedIn(i))
  <2>1. CASE i = at
    BY <1>0, <1>2, <2>1, LobbyTypes
  <2>2. CASE i # at
    <3>1. m[i] = lobbyMember[i] /\ LoggedIn(i) /\ name'[i] = name[i]
      BY <1>0, <1>7, <2>2, LobbyTypes, MembersStay
    <3> QED
      BY <3>1 DEF lobbyMember
  <2> QED
    BY <2>1, <2>2
<1>8. \A n, i \in Slots : LoggedIn(i)' => (lobbyHolder[n] = i <=> nes_controllers'[n] = i)
  BY <1>0, <1>2, <1>4, <1>7, HolderIs, SlotFacts
<1> HIDE DEF nm, m
<1>9. L!Leaving(gone, m, lobbyHolder)
  BY <1>0, <1>6, <1>7, <1>8, Leaves, LobbyTypes
<1>10. gone \in SUBSET (Slots \ {at})
  BY DEF Joins
<1> QED
  BY <1>2, <1>5, <1>9, <1>10, SameSlots DEF L!Join, m

\* All the other steps are players leaving, or nobody.
LEMMA LeaveRefines ==
    ASSUME LobbyInv, [Next]_vars, ~Request, ~ReceiveInput, ~Joins
    PROVE  L!Leave
<1>0. TypeOK /\ TypeOK' /\ at \in Slots /\ SlotInv
  BY TypeStep DEF LobbyInv, SlotInv, TypeOK
<1>1. UNCHANGED joybuf
  BY PadsKept
<1>2. \A i \in Slots : LoggedIn(i)' => LoggedIn(i) /\ lobbyMember[i] = name'[i]
  BY <1>0, MembersStay DEF lobbyMember, Joins
<1>3. \A n, i \in Slots : LoggedIn(i)' => (nes_controllers[n] = i <=> nes_controllers'[n] = i)
  <2>1. CASE HandleDisconnect
    <3>1. disconnecting[at] /\ ~LoggedIn(at)
      BY <1>0, <2>1 DEF HandleDisconnect, SlotInv, ReusedSlot, LoggedIn
    <3> QED
      BY <1>0, <1>2, <2>1, <3>1, SlotFacts DEF HandleDisconnect, TypeOK
  <2>2. CASE ~HandleDisconnect
    BY <2>2, HoldersKept
  <2> QED
    BY <2>1, <2>2
<1>4. \A n, i \in Slots : LoggedIn(i)' => (lobbyHolder[n] = i <=> nes_controllers'[n] = i)
  BY <1>0, <1>2, <1>3, HolderIs, SlotFacts
<1>5. {i \in Slots : ~LoggedIn(i)'} \in SUBSET Slots
  OBVIOUS
<1>6. L!Leaving({i \in Slots : ~LoggedIn(i)'}, lobbyMember, lobbyHolder)
  BY <1>0, <1>2, <1>4, Leaves, LobbyTypes
<1> QED
  BY <1>1, <1>5, <1>6, SameSlots DEF L!Leave

\* Every step of every loop of ServerUpdate is a step of the lobby or invisible
\* there, whatever arrives and whoever is lost in the middle of it.
THEOREM IsALobby == Spec => ImplementsLobby
<1>1. Init => L!Init
  BY SameSlots, SlotFacts DEF Init, L!Init, lobbyMember, lobbyHolder, LoggedIn
<1>2. LobbyInv /\ [Next]_vars => [L!Next]_(L!lvars)
  <2> SUFFICES ASSUME LobbyInv, [Next]_vars
               PROVE  L!Next
    OBVIOUS
  <2>1. at' \in L!Slots
    BY TypeStep, SameSlots DEF LobbyInv, SlotInv, TypeOK
  <2>2. L!Leave \/ L!Join \/ L!Take \/ L!Release \/ L!Input
    BY RequestRefines, InputRefines, JoinRefines, LeaveRefines
  <2> QED
    BY <2>1, <2>2 DEF L!Next
<1> QED
  BY <1>1, <1>2, LobbyAlways, PTL DEF Spec, ImplementsLobby, L!Spec

-----------------------------------------------------------------------------
(* What is inductive about the players' pictures of each other. *)

\* Slot j is taken, or was and its disconnect is still to be announced.
Present(j) == socket[j] \/ disconnecting[j]

\* Nobody believes in a client that has gone and been announced as gone.
NoGhost == \A i, j \in Slots : socket[i] /\ view[i].name[j] # NoOne => Present(j)

\* The players know the name of a client from its announcement on, which is
\* before it is a player.
KnownNames == \A i, j \in Slots : LoggedIn(i) /\ Named(j) => view[i].name[j] = name[j]

\* The greeting has told its client about slot j.
Passed(j) == j < greet \/ (j = greet /\ pc = "greet_controller")

GreetingNames ==
    Greeting /\ socket[at] =>
        \A j \in Slots : Named(j) /\ (j = at \/ Passed(j)) => view[at].name[j] = name[j]

RosterInv == NoGhost /\ KnownNames /\ GreetingNames

\* What the announcements change of a picture's names: one becomes known,
LEMMA HearName ==
    ASSUME NEW v \in Views, NEW k \in Slots, NEW nm
    PROVE  Hear(v, NewClient(k, nm)).name = [v.name EXCEPT ![k] = nm]
BY DEF Hear, NewClient, Views

\* or is forgotten,
LEMMA HearGone ==
    ASSUME NEW v \in Views, NEW k \in Slots
    PROVE  Hear(v, ClientGone(k)).name = [v.name EXCEPT ![k] = NoOne]
BY DEF Hear, ClientGone

\* and what is about controllers, or relayed, changes none.
LEMMA HearPickup ==
    ASSUME NEW v \in Views, NEW k \in Slots, NEW n \in Slots
    PROVE  Hear(v, Pickup(k, n)).name = v.name
BY DEF Hear, Pickup, Views

\* (A controller given back.)
LEMMA HearDrop ==
    ASSUME NEW v \in Views, NEW n \in Slots
    PROVE  Hear(v, DropPort(n)).name = v.name
BY DEF Hear, DropPort, Views

\* (A relayed command.)
LEMMA HearRelay ==
    ASSUME NEW v \in Views
    PROVE  Hear(v, Relay).name = v.name
BY DEF Hear, Relay

\* Who loses its socket or its place meanwhile stays present until announced.
LEMMA StaysPresent ==
    ASSUME TypeOK, Loses(disconnecting), NEW j \in Slots, Present(j)
    PROVE  Present(j)'
BY DEF Loses, Present, TypeOK

\* A step that changes no name in any picture, makes nobody a player and loses
\* nobody from sight keeps what is known, greeting apart.
LEMMA NamesKept ==
    ASSUME RosterInv, UNCHANGED name,
           \A i \in Slots : socket'[i] => socket[i] /\ view'[i].name = view[i].name,
           \A i \in Slots : LoggedIn(i)' => LoggedIn(i),
           \A i \in Slots : Named(i)' => Named(i),
           \A j \in Slots : Present(j) => Present(j)'
    PROVE  NoGhost' /\ KnownNames'
<1>1. NoGhost'
  BY DEF RosterInv, NoGhost
<1>2. ASSUME NEW i \in Slots, NEW j \in Slots, LoggedIn(i)', Named(j)'
      PROVE  view'[i].name[j] = name'[j]
  <2>1. LoggedIn(i) /\ Named(j) /\ socket'[i]
    BY <1>2 DEF LoggedIn
  <2> QED
    BY <2>1 DEF RosterInv, KnownNames
<1> QED
  BY <1>1, <1>2 DEF KnownNames

\* A completed piece of input other than a login tells nobody a name.
LEMMA InputTellsNoName ==
    ASSUME TypeOK,
           \/ ReceivePart \/ ReceiveError \/ ReceiveLoginLen \/ ReceiveEscape
           \/ ReceiveInput \/ ReceiveCommand \/ ReceiveRelay \/ ReceiveAnyController
           \/ ReceivePickup \/ ReceiveDrop \/ ReceiveInvalid,
           NEW i \in Slots, socket'[i]
    PROVE  socket[i] /\ view'[i].name = view[i].name
<1>0. at \in Slots /\ view[i] \in Views
  BY DEF TypeOK
<1>1. CASE \/ ReceivePart \/ ReceiveError \/ ReceiveLoginLen \/ ReceiveEscape
           \/ ReceiveInput \/ ReceiveCommand \/ ReceiveInvalid
  BY <1>0, <1>1, QuietHears
  DEF ReceivePart, ReceiveError, ReceiveLoginLen, ReceiveEscape, ReceiveInput,
      ReceiveCommand, ReceiveInvalid
<1>2. CASE ReceiveRelay
  BY <1>0, <1>2, SendAllHears, HearRelay DEF ReceiveRelay
<1>3. ASSUME NEW n \in Slots, TakeController(n)
      PROVE  socket[i] /\ view'[i].name = view[i].name
  BY <1>0, <1>3, SendAllHears, HearPickup DEF TakeController
<1>4. ASSUME Quiet
      PROVE  socket[i] /\ view'[i].name = view[i].name
  BY <1>0, <1>4, QuietHears
<1>5. CASE ReceiveAnyController \/ ReceivePickup
  BY <1>3, <1>4, <1>5 DEF ReceiveAnyController, ReceivePickup
<1>6. CASE ReceiveDrop
  <2>1. ASSUME NEW n \in Slots, SendAll(DropPort(n))
        PROVE  socket[i] /\ view'[i].name = view[i].name
    BY <1>0, <2>1, SendAllHears, HearDrop
  <2> QED
    BY <1>4, <1>6, <2>1 DEF ReceiveDrop
<1> QED
  BY <1>1, <1>2, <1>5, <1>6

-----------------------------------------------------------------------------
(* One lemma for each of the steps that do tell names. *)

\* A login: everybody hears the new client's name, itself included, before
\* anybody can ask who it is.
LEMMA LoginTold ==
    ASSUME SlotInv, RosterInv, ReceiveLogin
    PROVE  RosterInv'
<1>0. TypeOK /\ at \in Slots
  BY DEF SlotInv, TypeOK
<1>1. PICK nm \in Names :
        /\ name' = [name EXCEPT ![at] = nm]
        /\ SendAll(NewClient(at, nm))
  BY <1>0, ProtocolAssumption, InputAssumption DEF ReceiveLogin
<1>2. /\ pc = "receive" /\ pc' = "greet_client" /\ greet' = 0
      /\ UNCHANGED <<at, command_type>>
      /\ socket[at] /\ command_type[at] = "LOGIN"
  BY DEF ReceiveLogin, Completes
<1>3. \A i \in Slots : view[i] \in Views /\ view[i].name \in [Slots -> SlotNames \cup {NoOne}]
  BY <1>0 DEF TypeOK, Views
<1>4. \A i \in Slots : socket'[i] =>
        socket[i] /\ view'[i].name = [view[i].name EXCEPT ![at] = nm]
  BY <1>0, <1>1, <1>3, SendAllHears, HearName
<1>5. \A i, j \in Slots : socket'[i] =>
        view'[i].name[j] = IF j = at THEN nm ELSE view[i].name[j]
  BY <1>0, <1>3, <1>4
<1>6. Loses(disconnecting)
  BY <1>0, <1>1, SendAllLoses
<1>7. name'[at] = nm /\ \A j \in Slots \ {at} : name'[j] = name[j]
  BY <1>0, <1>1 DEF TypeOK
<1>8. \A j \in Slots \ {at} : Named(j)' => Named(j)
  BY <1>2, <1>4 DEF Named, LoggedIn
<1>9. NoGhost'
  <2> SUFFICES ASSUME NEW i \in Slots, NEW j \in Slots, socket'[i], view'[i].name[j] # NoOne
               PROVE  Present(j)'
    BY DEF NoGhost
  <2>1. socket[i] /\ (j = at \/ view[i].name[j] # NoOne)
    BY <1>4, <1>5
  <2>2. Present(j)
    BY <1>2, <2>1 DEF RosterInv, NoGhost, Present
  <2> QED
    BY <1>0, <1>6, <2>2, StaysPresent
<1>10. KnownNames'
  <2> SUFFICES ASSUME NEW i \in Slots, NEW j \in Slots, LoggedIn(i)', Named(j)'
               PROVE  view'[i].name[j] = name'[j]
    BY DEF KnownNames
  <2>1. LoggedIn(i) /\ socket'[i]
    BY <1>2, <1>4 DEF LoggedIn
  <2>2. CASE j = at
    BY <1>5, <1>7, <2>1, <2>2
  <2>3. CASE j # at
    BY <1>5, <1>7, <1>8, <2>1, <2>3 DEF RosterInv, KnownNames
  <2> QED
    BY <2>2, <2>3
<1>11. GreetingNames'
  <2> SUFFICES ASSUME socket'[at], NEW j \in Slots, j = at \/ Passed(j)'
               PROVE  view'[at].name[j] = name'[j]
    BY <1>2 DEF GreetingNames
  <2>1. j = at
    BY <1>2 DEF Passed, Slots
  <2> QED
    BY <1>5, <1>7, <2>1
<1> QED
  BY <1>9, <1>10, <1>11 DEF RosterInv

\* The greeting tells its client the name of client greet.
LEMMA ClientTold ==
    ASSUME SlotInv, RosterInv, GreetClient
    PROVE  RosterInv'
<1>0. TypeOK /\ at \in Slots /\ greet \in Slots
  BY DEF SlotInv, TypeOK
<1>1. /\ pc = "greet_client" /\ pc' = "greet_controller"
      /\ UNCHANGED <<at, greet, command_type, name>>
      /\ Greeting /\ Greeting' /\ command_type[at] = "LOGIN"
  BY DEF GreetClient, Greeting, SlotInv, GreetedLogsIn
<1>2. \A i \in Slots : view[i] \in Views /\ view[i].name \in [Slots -> SlotNames \cup {NoOne}]
  BY <1>0 DEF TypeOK, Views
<1>3. {at} \in SUBSET Slots /\ disconnecting \in [Slots -> BOOLEAN]
  BY <1>0 DEF TypeOK
<1>4. Loses(disconnecting)
  BY <1>0, <1>3, SendLoses, QuietLoses DEF GreetClient, SendCmd
\* Only the picture of the client being greeted changes, and only at greet.
<1>5. ASSUME NEW i \in Slots, socket'[i]
      PROVE  /\ socket[i]
             /\ \/ view'[i].name = view[i].name
                \/ /\ i = at /\ socket[greet] /\ greet # at
                   /\ view'[i].name = [view[i].name EXCEPT ![greet] = name[greet]]
  <2>1. CASE socket[greet] /\ greet # at
    <3>1. SendCmdAfter(disconnecting, {at}, NewClient(greet, name[greet]))
      BY <2>1 DEF GreetClient, SendCmd
    <3>2. /\ socket[i]
          /\ view'[i] = IF i \in {at} THEN Hear(view[i], NewClient(greet, name[greet]))
                                      ELSE view[i]
      BY <1>0, <1>3, <1>5, <3>1, SendHears
    <3> QED
      BY <1>0, <1>2, <2>1, <3>2, HearName
  <2>2. CASE ~(socket[greet] /\ greet # at)
    BY <1>0, <1>5, <2>2, QuietHears DEF GreetClient
  <2> QED
    BY <2>1, <2>2
<1>6. \A j \in Slots : Named(j)' => Named(j) /\ socket[j]
  BY <1>1, <1>5 DEF Named, LoggedIn
<1>7. NoGhost'
  <2> SUFFICES ASSUME NEW i \in Slots, NEW j \in Slots, socket'[i], view'[i].name[j] # NoOne
               PROVE  Present(j)'
    BY DEF NoGhost
  <2>1. socket[i] /\ (view[i].name[j] # NoOne \/ (j = greet /\ socket[j]))
    <3>1. CASE view'[i].name = view[i].name
      BY <1>5, <3>1
    <3>2. CASE view'[i].name # view[i].name
      BY <1>0, <1>2, <1>5, <3>2
    <3> QED
      BY <3>1, <3>2
  <2>2. Present(j)
    BY <2>1 DEF RosterInv, NoGhost, Present
  <2> QED
    BY <1>0, <1>4, <2>2, StaysPresent
<1>8. KnownNames'
  <2> SUFFICES ASSUME NEW i \in Slots, NEW j \in Slots, LoggedIn(i)', Named(j)'
               PROVE  view'[i].name[j] = name'[j]
    BY DEF KnownNames
  <2>1. LoggedIn(i) /\ socket'[i] /\ i # at
    BY <1>1, <1>5 DEF LoggedIn
  <2>2. view'[i].name = view[i].name
    BY <1>5, <2>1
  <2> QED
    BY <1>1, <1>6, <2>1, <2>2 DEF RosterInv, KnownNames
<1>9. GreetingNames'
  <2> SUFFICES ASSUME socket'[at], NEW j \in Slots, Named(j)', j = at \/ Passed(j)'
               PROVE  view'[at].name[j] = name[j]
    BY <1>1 DEF GreetingNames
  <2>1. Named(j) /\ socket[j] /\ socket[at]
    BY <1>0, <1>5, <1>6
  <2>2. CASE j = greet /\ j # at
    <3>1. SendCmdAfter(disconnecting, {at}, NewClient(greet, name[greet]))
      BY <2>1, <2>2 DEF GreetClient, SendCmd
    <3>2. view'[at] = Hear(view[at], NewClient(greet, name[greet]))
      BY <1>0, <1>3, <3>1, SendHears
    <3>3. view'[at].name = [view[at].name EXCEPT ![greet] = name[greet]]
      BY <1>0, <1>2, <3>2, HearName
    <3> QED
      BY <1>0, <1>2, <2>2, <3>3
  <2>3. CASE j = at \/ j # greet
    <3>1. j = at \/ Passed(j)
      BY <1>1, <2>3 DEF Passed
    <3>2. view[at].name[j] = name[j]
      BY <1>1, <2>1, <3>1 DEF RosterInv, GreetingNames
    <3>3. view'[at].name[j] = view[at].name[j]
      BY <1>0, <1>2, <1>5, <2>3
    <3> QED
      BY <3>2, <3>3
  <2> QED
    BY <2>2, <2>3
<1> QED
  BY <1>7, <1>8, <1>9 DEF RosterInv

\* The greeting goes on, or its client becomes a player that knows everybody.
LEMMA ControllerTold ==
    ASSUME SlotInv, RosterInv, GreetController
    PROVE  RosterInv'
<1>0. TypeOK /\ at \in Slots /\ greet \in Slots
  BY DEF SlotInv, TypeOK
<1>1. /\ pc = "greet_controller" /\ UNCHANGED name
      /\ Greeting /\ command_type[at] = "LOGIN"
  BY DEF GreetController, Greeting, SlotInv, GreetedLogsIn
<1>2. Loses(disconnecting)
  BY <1>0, SendAllLoses, QuietLoses DEF GreetController
<1>3. ASSUME NEW i \in Slots, socket'[i]
      PROVE  socket[i] /\ view'[i].name = view[i].name
  <2>1. CASE nes_controllers[greet] # None
    <3>1. nes_controllers[greet] \in Slots /\ view[i] \in Views
      BY <1>0, <2>1 DEF TypeOK
    <3>2. SendAll(Pickup(nes_controllers[greet], greet))
      BY <2>1 DEF GreetController
    <3> QED
      BY <1>0, <1>3, <3>1, <3>2, SendAllHears, HearPickup
  <2>2. CASE nes_controllers[greet] = None
    BY <1>0, <1>3, <2>2, QuietHears DEF GreetController
  <2> QED
    BY <2>1, <2>2
<1>4. \A j \in Slots : Present(j) => Present(j)'
  BY <1>0, <1>2, StaysPresent
<1>5. CASE greet < N-1
  <2>1. /\ greet' = greet + 1 /\ pc' = "greet_client"
        /\ UNCHANGED <<at, command_type>>
    BY <1>5 DEF GreetController
  <2>2. \A i \in Slots : /\ LoggedIn(i)' => LoggedIn(i)
                         /\ Named(i)' => Named(i)
    BY <1>1, <1>3, <2>1 DEF LoggedIn, Named
  <2>3. NoGhost' /\ KnownNames'
    BY <1>1, <1>3, <1>4, <2>2, NamesKept
  <2>4. GreetingNames'
    <3> SUFFICES ASSUME socket'[at], NEW j \in Slots, Named(j)', j = at \/ Passed(j)'
                 PROVE  view'[at].name[j] = name[j]
      BY <1>1, <2>1 DEF GreetingNames
    <3>1. j = at \/ Passed(j)
      BY <1>0, <1>1, <2>1 DEF Passed, Slots
    <3> QED
      BY <1>0, <1>1, <1>3, <2>2, <3>1 DEF RosterInv, GreetingNames
  <2> QED
    BY <2>3, <2>4 DEF RosterInv
<1>6. CASE ~(greet < N-1)
  <2>1. NextReceive /\ Expect(at, "UPDATEDATA") /\ ~Greeting'
    BY <1>6 DEF GreetController, NextReceive, Greeting
  <2>2. \A i \in Slots \ {at} : LoggedIn(i)' => LoggedIn(i)
    BY <1>3, <2>1 DEF LoggedIn, Expect, TypeOK
  <2>3. \A j \in Slots : Named(j)' => Named(j)
    BY <1>1, <1>3, <2>1, <2>2 DEF Named, LoggedIn
  <2>4. \A j \in Slots : j = at \/ Passed(j)
    BY <1>0, <1>1, <1>6, SlotFacts DEF Passed, Slots
  <2>5. NoGhost'
    BY <1>3, <1>4 DEF RosterInv, NoGhost
  <2>6. KnownNames'
    <3> SUFFICES ASSUME NEW i \in Slots, NEW j \in Slots, LoggedIn(i)', Named(j)'
                 PROVE  view'[i].name[j] = name[j]
      BY <1>1 DEF KnownNames
    <3>1. socket'[i] /\ socket[i] /\ view'[i].name = view[i].name /\ Named(j)
      BY <1>3, <2>3 DEF LoggedIn
    <3>2. CASE i = at
      BY <1>1, <2>4, <3>1, <3>2 DEF RosterInv, GreetingNames
    <3>3. CASE i # at
      BY <2>2, <3>1, <3>3 DEF RosterInv, KnownNames
    <3> QED
      BY <3>2, <3>3
  <2> QED
    BY <2>1, <2>5, <2>6 DEF RosterInv, GreetingNames
<1> QED
  BY <1>5, <1>6

\* An announced disconnect: its slot's next connection cannot have logged in,
\* so that nobody forgets the name of a player.
LEMMA GoneTold ==
    ASSUME SlotInv, RosterInv, HandleDisconnect
    PROVE  RosterInv'
<1>0. TypeOK /\ at \in Slots
  BY DEF SlotInv, TypeOK
<1> DEFINE flags == [disconnecting EXCEPT ![at] = FALSE]
<1>1. /\ pc = "disconnects" /\ disconnecting[at] /\ ~Greeting /\ ~Greeting'
      /\ UNCHANGED <<command_type, name>>
      /\ SendCmdAfter(flags, Connected, ClientGone(at))
  BY DEF HandleDisconnect, NextDisconnect, Greeting
<1>2. flags \in [Slots -> BOOLEAN] /\ Connected \in SUBSET Slots
  BY <1>0 DEF Connected, TypeOK
<1>3. \A j \in Slots \ {at} : flags[j] = disconnecting[j]
  BY <1>0 DEF TypeOK
<1> HIDE DEF flags
<1>4. Loses(flags)
  BY <1>0, <1>1, <1>2, SendLoses
<1>5. \A i \in Slots : view[i] \in Views /\ view[i].name \in [Slots -> SlotNames \cup {NoOne}]
  BY <1>0 DEF TypeOK, Views
<1>6. \A i, j \in Slots : socket'[i] =>
        socket[i] /\ view'[i].name[j] = IF j = at THEN NoOne ELSE view[i].name[j]
  <2> SUFFICES ASSUME NEW i \in Slots, NEW j \in Slots, socket'[i]
               PROVE  socket[i] /\ view'[i].name[j] = IF j = at THEN NoOne ELSE view[i].name[j]
    OBVIOUS
  <2>1. socket[i] /\ i \in Connected
    BY <1>4 DEF Loses, Connected
  <2>2. view'[i] = Hear(view[i], ClientGone(at))
    BY <1>0, <1>1, <1>2, <2>1, SendHears
  <2>3. view'[i].name = [view[i].name EXCEPT ![at] = NoOne]
    BY <1>0, <1>5, <2>2, HearGone
  <2> QED
    BY <1>0, <1>5, <2>1, <2>3
<1>7. \A j \in Slots : Named(j)' => Named(j) /\ j # at
  <2>1. ~LoggedIn(at)
    BY <1>0, <1>1 DEF SlotInv, ReusedSlot, LoggedIn
  <2> QED
    BY <1>1, <1>6, <2>1 DEF Named, LoggedIn
<1>8. NoGhost'
  <2> SUFFICES ASSUME NEW i \in Slots, NEW j \in Slots, socket'[i], view'[i].name[j] # NoOne
               PROVE  Present(j)'
    BY DEF NoGhost
  <2>1. socket[i] /\ j # at /\ view[i].name[j] # NoOne
    BY <1>6
  <2>2. Present(j)
    BY <2>1 DEF RosterInv, NoGhost
  <2> QED
    BY <1>3, <1>4, <2>1, <2>2 DEF Loses, Present
<1>9. KnownNames'
  <2> SUFFICES ASSUME NEW i \in Slots, NEW j \in Slots, LoggedIn(i)', Named(j)'
               PROVE  view'[i].name[j] = name[j]
    BY <1>1 DEF KnownNames
  <2>1. LoggedIn(i) /\ Named(j) /\ j # at /\ socket'[i]
    BY <1>1, <1>6, <1>7 DEF LoggedIn
  <2> QED
    BY <1>6, <2>1 DEF RosterInv, KnownNames
<1> QED
  BY <1>1, <1>8, <1>9 DEF RosterInv, GreetingNames

\* Every step of the loop leaves the players rightly informed of each other.
LEMMA RosterStep ==
    ASSUME SlotInv, RosterInv, [Next]_vars
    PROVE  RosterInv'
<1>0. TypeOK /\ TypeOK' /\ at \in Slots /\ greet \in Slots
  BY TypeStep DEF SlotInv, TypeOK
<1>1. CASE UNCHANGED vars
  BY <1>1
  DEF vars, RosterInv, NoGhost, KnownNames, GreetingNames, Present, Named, Passed,
      LoggedIn, Greeting
<1>2. ASSUME UNCHANGED name, ~Greeting', Loses(disconnecting),
             \A i \in Slots : socket'[i] => view'[i].name = view[i].name,
             \A i \in Slots : LoggedIn(i)' => LoggedIn(i),
             \A i \in Slots : Named(i)' => Named(i)
      PROVE  RosterInv'
  <2>1. \A j \in Slots : Present(j) => Present(j)'
    BY <1>0, <1>2, StaysPresent
  <2>2. NoGhost' /\ KnownNames'
    BY <1>2, <2>1, NamesKept DEF Loses
  <2> QED
    BY <1>2, <2>2 DEF RosterInv, GreetingNames
<1>3. CASE AcceptNobody \/ StillHere
  <2>1. /\ UNCHANGED <<name, command_type, socket, disconnecting, view>> /\ ~Greeting'
        /\ \A i \in Slots : Named(i)' => Named(i)
    BY <1>3 DEF AcceptNobody, StillHere, Quiet, NextDisconnect, Greeting, Named, LoggedIn
  <2>2. Loses(disconnecting)
    BY <2>1 DEF Loses
  <2> QED
    BY <1>2, <2>1, <2>2 DEF LoggedIn
<1>4. CASE Accept
  <2>1. PICK i \in Slots \ Connected :
          /\ Expect(i, "LOGINLEN")
          /\ \/ socket' = [socket EXCEPT ![i] = TRUE] /\ UNCHANGED disconnecting
             \/ disconnecting' = [disconnecting EXCEPT ![i] = TRUE] /\ UNCHANGED socket
          /\ view' = [view EXCEPT ![i] = FreshView]
    BY <1>4 DEF Accept
  <2>2. ~Greeting' /\ UNCHANGED name
    BY <1>4 DEF Accept, Greeting
  <2>3. \A j \in Slots : Present(j) => Present(j)'
    BY <1>0, <2>1 DEF Present, TypeOK
  <2>4. \A j \in Slots : view'[i].name[j] = NoOne
    BY <1>0, <2>1 DEF FreshView, TypeOK
  <2>5. \A k \in Slots \ {i} : view'[k] = view[k] /\ socket'[k] = socket[k]
    BY <1>0, <2>1 DEF TypeOK
  <2>6. \A k \in Slots : LoggedIn(k)' => k # i /\ LoggedIn(k)
    BY <1>0, <2>1, <2>5 DEF LoggedIn, Expect, TypeOK
  <2>7. \A j \in Slots : Named(j)' => Named(j)
    BY <2>2, <2>6 DEF Named
  <2>8. NoGhost'
    BY <2>3, <2>4, <2>5 DEF RosterInv, NoGhost
  <2>9. KnownNames'
    BY <2>2, <2>5, <2>6, <2>7 DEF RosterInv, KnownNames
  <2> QED
    BY <2>2, <2>8, <2>9 DEF RosterInv, GreetingNames
<1>5. CASE \/ ReceivePart \/ ReceiveError \/ ReceiveLoginLen \/ ReceiveEscape
           \/ ReceiveInput \/ ReceiveCommand \/ ReceiveRelay \/ ReceiveAnyController
           \/ ReceivePickup \/ ReceiveDrop \/ ReceiveInvalid
  <2>1. ~ReceiveLogin
    BY <1>0, <1>5, ReceiveFacts DEF ReceiveLogin, NextReceive
  <2>2. UNCHANGED name /\ \A i \in Slots : Named(i)' => Named(i)
    BY <1>0, <2>1, NameKept
  <2>3. ~Greeting' /\ Loses(disconnecting)
    BY <1>0, <1>5, ReceiveFacts DEF Greeting, NextReceive
  <2> QED
    BY <1>0, <1>2, <1>5, <2>2, <2>3, InputTellsNoName, NoNewLogin
<1>6. CASE Send
  <2>1. UNCHANGED <<command_type, name>> /\ ~Greeting'
    BY <1>6 DEF Send, SendSkip, SendFrame, SendError, SendCrash, NextSend, Greeting
  <2>2. Loses(disconnecting) /\ \A i \in Slots : socket'[i] => view'[i] = view[i]
    <3>1. CASE SendFrame
      BY <3>1 DEF SendFrame, Loses
    <3>2. CASE SendSkip \/ SendError \/ SendCrash
      BY <1>0, <3>2, QuietLoses, QuietHears DEF SendSkip, SendError, SendCrash
    <3> QED
      BY <1>6, <3>1, <3>2 DEF Send
  <2> QED
    BY <1>2, <2>1, <2>2 DEF Loses, Named, LoggedIn
<1> QED
  BY <1>1, <1>3, <1>4, <1>5, <1>6, LoginTold, ClientTold, ControllerTold, GoneTold
  DEF Next, Receive

\* The players whose connections began with their frame divisors know the others
\* by the names the server has for them, and believe in nobody who is gone for
\* good, whatever logins, disconnects, reconnections and full buffers come
\* between two steps of a greeting.
THEOREM PlayersKnown == Spec => []ToldRoster
<1>1. Init => RosterInv
  BY DEF Init, RosterInv, NoGhost, KnownNames, GreetingNames, LoggedIn, Greeting
<1>2. SlotInv /\ RosterInv /\ [Next]_vars => RosterInv'
  BY RosterStep
<1>3. RosterInv => ToldRoster
  BY DEF RosterInv, NoGhost, KnownNames, Present, Named, LoggedIn, ToldRoster, Follows
<1> QED
  BY <1>1, <1>2, <1>3, SlotCorrect, PTL DEF Spec

-----------------------------------------------------------------------------
(* What a greeting leaves in the buffer of a slot without a socket. *)

\* The clients the greeting has passed on its way, and those it has announced.
Reached == IF pc = "greet_controller" THEN greet + 1 ELSE greet
Sent == IF at < Reached THEN Reached - 1 ELSE Reached

\* Once its client is lost, a greeting has queued at most one announcement for
\* each of them.
GreetSpare == Greeting /\ ~socket[at] => out_buffer_used[at] <= Sent * CmdLen

LeftoverInv == LeftoverFits /\ GreetSpare

\* Who has no socket after a step has an empty buffer, or what it had before.
NothingQueued ==
    \A i \in Slots : ~socket'[i] =>
        \/ out_buffer_used'[i] = 0
        \/ ~socket[i] /\ out_buffer_used'[i] = out_buffer_used[i]

\* One announcement more takes CmdLen more.
LEMMA CmdTimes ==
    ASSUME NEW k \in Nat
    PROVE  /\ k * CmdLen \in Nat
           /\ (k + 1) * CmdLen = k * CmdLen + CmdLen
<1>1. CmdLen \in Nat
  BY BufferAssumption
<1> QED
  BY <1>1

\* Announcements of at most N-1 others take at most what LeftoverFits allows.
LEMMA SentFits ==
    ASSUME NEW k \in Nat, k <= N-1
    PROVE  k * CmdLen <= (N-1) * CmdLen
<1>1. PICK d \in Nat : N-1 = k + d
  <2>1. (N-1) - k \in Nat /\ N-1 = k + ((N-1) - k)
    BY SlotFacts
  <2> QED
    BY <2>1
<1>2. CmdLen \in Nat
  BY BufferAssumption
<1>3. (k + d) * CmdLen = k * CmdLen + d * CmdLen
  BY <1>2
<1>4. k * CmdLen \in Nat /\ d * CmdLen \in Nat
  BY <1>2
<1> QED
  BY <1>1, <1>3, <1>4

\* What is sent to all goes to those with a socket.
LEMMA SendAllQueues ==
    ASSUME TypeOK, NEW flags, NEW m, SendCmdAfter(flags, Connected, m)
    PROVE  NothingQueued
BY DEF SendCmdAfter, NothingQueued, Connected, TypeOK

\* Sending nothing queues nothing, and who is lost loses its output.
LEMMA QuietQueues ==
    ASSUME TypeOK, NEW k \in Slots, Quiet \/ Drop(k)
    PROVE  NothingQueued
BY DEF Quiet, Drop, NothingQueued, TypeOK

\* All steps but one leave the slots without a socket alone.
LEMMA NothingQueuedBut ==
    ASSUME TypeOK, [Next]_vars, ~GreetClient
    PROVE  NothingQueued
<1>0. at \in Slots /\ greet \in Slots
  BY DEF TypeOK
<1>1. ASSUME NEW m, SendAll(m)
      PROVE  NothingQueued
  BY <1>1, SendAllQueues DEF SendAll, SendCmd
<1>2. ASSUME Quiet \/ Drop(at)
      PROVE  NothingQueued
  BY <1>0, <1>2, QuietQueues
<1>3. CASE AcceptNobody \/ StillHere
  BY <1>2, <1>3 DEF AcceptNobody, StillHere
<1>4. CASE Accept
  BY <1>4 DEF Accept, NothingQueued, TypeOK
<1>5. CASE \/ ReceivePart \/ ReceiveError \/ ReceiveLoginLen \/ ReceiveEscape
           \/ ReceiveInput \/ ReceiveCommand \/ ReceiveInvalid
  BY <1>2, <1>5
  DEF ReceivePart, ReceiveError, ReceiveLoginLen, ReceiveEscape, ReceiveInput,
      ReceiveCommand, ReceiveInvalid
<1>6. CASE ReceiveLogin \/ ReceiveRelay \/ GreetController
  BY <1>1, <1>2, <1>6 DEF ReceiveLogin, ReceiveRelay, GreetController
<1>7. CASE ReceiveAnyController \/ ReceivePickup \/ ReceiveDrop
  BY <1>1, <1>2, <1>7
  DEF ReceiveAnyController, ReceivePickup, ReceiveDrop, TakeController
<1>8. CASE SendFrame
  BY <1>8 DEF SendFrame, NothingQueued, TypeOK
<1>9. CASE SendSkip \/ SendError \/ SendCrash
  BY <1>2, <1>9 DEF SendSkip, SendError, SendCrash
<1>10. CASE HandleDisconnect
  BY <1>10, SendAllQueues DEF HandleDisconnect
<1>11. CASE UNCHANGED vars
  BY <1>2, <1>11 DEF vars, Quiet
<1> QED
  BY <1>3, <1>4, <1>5, <1>6, <1>7, <1>8, <1>9, <1>10, <1>11
  DEF Next, Receive, Send

\* The one that may queue for a slot without a socket.
LEMMA GreetingQueues ==
    ASSUME TypeOK, TypeOK', LeftoverInv, GreetClient
    PROVE  LeftoverInv'
<1>0. at \in Slots /\ greet \in Slots /\ CmdLen \in Nat
  BY BufferFacts DEF TypeOK
<1>1. /\ pc = "greet_client" /\ pc' = "greet_controller"
      /\ UNCHANGED <<at, greet>> /\ Greeting /\ Greeting'
  BY DEF GreetClient, Greeting
<1>2. Sent \in Nat /\ Sent' \in Nat /\ Sent' <= N-1
  BY <1>0, <1>1, SlotFacts DEF Sent, Reached, Slots
<1>3. \A i \in Slots : out_buffer_used[i] \in Nat /\ out_buffer_used'[i] \in Nat
  BY DEF TypeOK
<1>4. CASE socket[greet] /\ greet # at
  <2>1. SendCmdAfter(disconnecting, {at}, NewClient(greet, name[greet]))
    BY <1>4 DEF GreetClient, SendCmd
  <2>2. Sent' = Sent + 1
    BY <1>0, <1>1, <1>4 DEF Sent, Reached, Slots
  <2>3. GreetSpare'
    <3> SUFFICES ASSUME ~socket'[at]
                 PROVE  out_buffer_used'[at] <= Sent' * CmdLen
      BY <1>1 DEF GreetSpare
    <3>1. \/ out_buffer_used'[at] = 0
          \/ ~socket[at] /\ out_buffer_used'[at] = out_buffer_used[at] + CmdLen
      BY <1>0, <2>1 DEF SendCmdAfter, TypeOK
    <3>2. ~socket[at] => out_buffer_used[at] <= Sent * CmdLen
      BY <1>1 DEF LeftoverInv, GreetSpare
    <3>3. /\ Sent * CmdLen \in Nat
          /\ Sent' * CmdLen = Sent * CmdLen + CmdLen
      BY <1>2, <2>2, CmdTimes
    <3> QED
      BY <1>0, <1>3, <3>1, <3>2, <3>3
  <2>4. LeftoverFits'
    <3> SUFFICES ASSUME NEW i \in Slots, ~socket'[i]
                 PROVE  out_buffer_used'[i] <= (N-1) * CmdLen
      BY DEF LeftoverFits
    <3>1. CASE i = at
      <4>1. out_buffer_used'[i] <= Sent' * CmdLen
        BY <1>1, <2>3, <3>1 DEF GreetSpare
      <4>2. Sent' * CmdLen <= (N-1) * CmdLen /\ Sent' * CmdLen \in Nat
        BY <1>2, SentFits, CmdTimes
      <4> QED
        BY <1>3, <4>1, <4>2, BufferFacts
    <3>2. CASE i # at
      BY <2>1, <3>2 DEF LeftoverInv, LeftoverFits, SendCmdAfter, TypeOK
    <3> QED
      BY <3>1, <3>2
  <2> QED
    BY <2>3, <2>4 DEF LeftoverInv
<1>5. CASE ~(socket[greet] /\ greet # at)
  <2>1. UNCHANGED <<socket, out_buffer_used>>
    BY <1>5 DEF GreetClient, Quiet
  <2>2. Sent' = Sent \/ Sent' = Sent + 1
    BY <1>0, <1>1 DEF Sent, Reached, Slots
  <2>3. Sent * CmdLen <= Sent' * CmdLen
    <3>1. (Sent + 1) * CmdLen = Sent * CmdLen + CmdLen /\ Sent * CmdLen \in Nat
      BY <1>2, CmdTimes
    <3> QED
      BY <1>0, <2>2, <3>1
  <2>4. GreetSpare'
    <3>1. Sent * CmdLen \in Nat /\ Sent' * CmdLen \in Nat
      BY <1>2, CmdTimes
    <3> QED
      BY <1>0, <1>1, <1>3, <2>1, <2>3, <3>1 DEF LeftoverInv, GreetSpare
  <2> QED
    BY <2>1, <2>4 DEF LeftoverInv, LeftoverFits
<1> QED
  BY <1>4, <1>5

\* All others keep what GreetSpare says, as the loop's index moves on or starts.
LEMMA OthersQueue ==
    ASSUME TypeOK, TypeOK', LeftoverInv, [Next]_vars, ~GreetClient
    PROVE  LeftoverInv'
<1>0. at \in Slots /\ greet \in Slots /\ CmdLen \in Nat
  BY BufferFacts DEF TypeOK
<1>1. NothingQueued
  BY NothingQueuedBut
<1>2. LeftoverFits'
  BY <1>1, BufferFacts DEF NothingQueued, LeftoverInv, LeftoverFits
<1>3. Sent \in Nat
  BY <1>0, SlotFacts DEF Sent, Reached, Slots
<1>4. GreetSpare'
  <2> SUFFICES ASSUME Greeting', ~socket'[at']
               PROVE  out_buffer_used'[at'] <= Sent' * CmdLen
    BY DEF GreetSpare
  <2>1. CASE ReceiveLogin
    <3>1. UNCHANGED at /\ socket[at] /\ greet' = 0 /\ pc' = "greet_client"
      BY <2>1 DEF ReceiveLogin, Completes
    <3>2. out_buffer_used'[at'] = 0
      BY <1>0, <1>1, <3>1 DEF NothingQueued
    <3>3. Sent' = 0
      BY <1>0, <3>1 DEF Sent, Reached, Slots
    <3> QED
      BY <1>0, <3>2, <3>3
  <2>2. CASE ~ReceiveLogin
    <3>1. /\ Greeting /\ UNCHANGED at
          /\ \/ UNCHANGED <<pc, greet>>
             \/ pc = "greet_controller" /\ pc' = "greet_client" /\ greet' = greet + 1
      BY <2>2
      DEF Next, vars, AcceptNobody, Accept, Receive, ReceivePart, ReceiveError,
          ReceiveLoginLen, GreetController, ReceiveEscape, ReceiveInput, ReceiveCommand,
          ReceiveRelay, ReceiveAnyController, ReceivePickup, ReceiveDrop, ReceiveInvalid,
          NextReceive, Send, SendSkip, SendFrame, SendError, SendCrash, NextSend,
          StillHere, HandleDisconnect, NextDisconnect, Greeting
    <3>2. Sent' = Sent
      BY <1>0, <3>1 DEF Sent, Reached, Slots
    <3>3. \/ out_buffer_used'[at'] = 0
          \/ ~socket[at] /\ out_buffer_used'[at'] = out_buffer_used[at]
      BY <1>0, <1>1, <3>1 DEF NothingQueued
    <3>4. Sent * CmdLen \in Nat
      BY <1>3, CmdTimes
    <3> QED
      BY <3>1, <3>2, <3>3, <3>4 DEF LeftoverInv, GreetSpare
  <2> QED
    BY <2>1, <2>2
<1> QED
  BY <1>2, <1>4 DEF LeftoverInv

\* However a greeting goes on without its client (server.cpp:270-290), it never
\* fills the buffer of the slot, and so never disconnects a client that is not
\* there, and the slot's next connection is not refused.
THEOREM LeftoverSmall == Spec => []LeftoverFits
<1>1. Init => LeftoverInv
  BY BufferFacts DEF Init, LeftoverInv, LeftoverFits, GreetSpare, Greeting
<1>2. TypeOK /\ LeftoverInv /\ [Next]_vars => LeftoverInv'
  BY TypeStep, GreetingQueues, OthersQueue
<1>3. LeftoverInv => LeftoverFits
  BY DEF LeftoverInv
<1> QED
  BY <1>1, <1>2, <1>3, TypeCorrect, PTL DEF Spec
=============================================================================
