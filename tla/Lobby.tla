-------------------------------- MODULE Lobby --------------------------------
(***************************************************************************)
(* What the netplay server promises its players, without sockets, buffers, *)
(* passes or half-finished logins: who is a member, who holds which NES    *)
(* controller, and what each controller sends.                             *)
(*                                                                         *)
(* The requests of one member at a time, the actor, are served.  An        *)
(* announcement may cost any set L of members their connection; leaving    *)
(* and giving back one's controllers is a single step here.                *)
(***************************************************************************)
EXTENDS NetplayProtocol

CONSTANTS Pads

VARIABLES
    actor,    \* whose turn it is
    member,   \* the name of the member in slot i, or NoOne
    holder,   \* who holds controller n, or None
    pad       \* what controller n sends

lvars == <<actor, member, holder, pad>>

Init ==
    /\ actor = 0
    /\ member = [i \in Slots |-> NoOne]
    /\ holder = [n \in Slots |-> None]
    /\ pad = [n \in Slots |-> 0]

\* The members of L leave, with members m and holders h as they are then.
Leaving(L, m, h) ==
    /\ member' = [i \in Slots |-> IF i \in L THEN NoOne ELSE m[i]]
    /\ holder' = [n \in Slots |-> IF h[n] \in L THEN None ELSE h[n]]

\* Members leave and what they hold becomes free; or it is just the next
\* member's turn.
Leave ==
    /\ \E L \in SUBSET Slots : Leaving(L, member, holder)
    /\ UNCHANGED pad

\* The actor becomes a member.  It holds nothing, and only its default name
\* may already be in use.
Join ==
    /\ member[actor] = NoOne
    /\ \E nm \in Names :
        /\ nm = DefaultName[actor] \/ \A j \in Slots : member[j] # nm
        /\ \E L \in SUBSET (Slots \ {actor}) :
            Leaving(L, [member EXCEPT ![actor] = nm], holder)
    /\ UNCHANGED pad

\* The actor takes a controller that nobody holds.
Take ==
    /\ member[actor] # NoOne
    /\ \E n \in Slots :
        /\ holder[n] = None
        /\ \E L \in SUBSET Slots :
            Leaving(L, member, [holder EXCEPT ![n] = actor])
    /\ UNCHANGED pad

\* The actor gives back a controller it holds.
Release ==
    /\ member[actor] # NoOne
    /\ \E n \in Slots :
        /\ holder[n] = actor
        /\ \E L \in SUBSET Slots :
            Leaving(L, member, [holder EXCEPT ![n] = None])
    /\ UNCHANGED pad

\* The actor moves the controllers it holds, and no others.
Input ==
    /\ member[actor] # NoOne
    /\ pad' \in {p \in [Slots -> Pads] :
                   \A n \in Slots : holder[n] # actor => p[n] = pad[n]}
    /\ UNCHANGED <<member, holder>>

Next == actor' \in Slots /\ (Leave \/ Join \/ Take \/ Release \/ Input)

Spec == Init /\ [][Next]_lvars
=============================================================================
