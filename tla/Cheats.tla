-------------------------------- MODULE Cheats --------------------------------
(***************************************************************************)
(* Cheats (fceultra/cheat.cpp, cheatmgr.cpp): the list, and the read       *)
(* handlers through which the active substitutions of it answer.           *)
(*                                                                         *)
(* An operation is an operator on a record of the module's static          *)
(* variables, and an action is the calls that the program makes in a row.  *)
(* Most are the main thread's.  In the menu the netplay thread ends a      *)
(* session, or powers the game on another player's command, beside the     *)
(* main thread: begin and end of that are two actions, and a list that the *)
(* main thread has or makes in between is raced for.                       *)
(***************************************************************************)
EXTENDS Integers, FiniteSets, Sequences

CONSTANTS
    Addrs,
    File,           \* File[g]: the cheat file of game g, a sequence of cheats
    Nsf,            \* the games that are music files, which have no cheats
    MaxSub,         \* length of the array SubCheats
    Loads           \* bound: how many games are loaded

Compares == {"none", "equal", "other"}      \* other: memory does not hold that value
Cheat    == [addr : Addrs, val : Nat, type : 0 .. 1, compare : Compares, status : BOOLEAN]

Games == DOMAIN File

NoGame == "none"

\* An address has 16 bits, and SubCheatsRead is no game.
ASSUME CheatsAssumption ==
    /\ MaxSub \in Nat /\ Loads \in Nat
    /\ Games # {} /\ Nsf \subseteq Games /\ {NoGame, "cheat"} \cap Games = {}
    /\ \A g \in Games : File[g] \in Seq(Cheat)

VARIABLES
    mem,            \* cheats, the first numsubcheats of SubCheats, ARead as the field
                    \* handler, and whether more were written than SubCheats has room for
    numcheats, game, online,
    busy,           \* what the netplay thread does to the cheats
    raced,          \* history: the main thread has used a list meanwhile
    loads           \* how many games have been loaded

vars == <<mem, numcheats, game, online, busy, raced, loads>>

Init ==
    /\ mem = [cheats |-> <<>>, SubCheats |-> {}, handler |-> [a \in Addrs |-> NoGame],
              overrun |-> FALSE]
    /\ numcheats = 0 /\ game = NoGame /\ online = FALSE /\ loads = 0
    /\ busy = "none" /\ raced = FALSE

-----------------------------------------------------------------------------
(* cheat.cpp.  handler[a] is "cheat" for SubCheatsRead, else the game whose *)
(* memory it reads.  SubCheats is a set: no two of its entries have the     *)
(* same address.                                                            *)

IsActive(c) == c.type = 1 /\ c.status

Restored(m) ==
    [a \in Addrs |-> IF \E s \in m.SubCheats : s.addr = a
                     THEN (CHOOSE s \in m.SubCheats : s.addr = a).PrevRead
                     ELSE m.handler[a]]

\* Wrong: installs a second cheat at an address, the catastrophe.
BadWanted(cheats, handler) == {i \in DOMAIN cheats : IsActive(cheats[i])}

\* The first active substitution of each address that has no handler of a
\* cheat yet.
Wanted(cheats, handler) ==
    {i \in DOMAIN cheats :
        /\ IsActive(cheats[i]) /\ handler[cheats[i].addr] # "cheat"
        /\ \A j \in 1 .. i - 1 : ~(IsActive(cheats[j]) /\ cheats[j].addr = cheats[i].addr)}

Substitution(c, handler) ==
    [addr |-> c.addr, val |-> c.val, compare |-> c.compare, PrevRead |-> handler[c.addr]]

\* Nothing keeps the entries within the array.  What is written behind its end
\* lies in other variables, and nothing is claimed of what follows.
Install(m, handler) ==
    LET subs == {Substitution(m.cheats[i], handler) : i \in Wanted(m.cheats, handler)}
    IN  [cheats    |-> m.cheats,
         SubCheats |-> subs,
         handler   |-> [a \in Addrs |-> IF \E s \in subs : s.addr = a
                                        THEN "cheat" ELSE handler[a]],
         overrun   |-> m.overrun \/ Cardinality(subs) > MaxSub]

\* Wrong: leaves the handlers of the last time.
BadRebuildSubCheats(m) == Install(m, m.handler)

RebuildSubCheats(m) == Install(m, Restored(m))

\* "Quick hack to prevent setting of ancient read addresses."
PowerCheats(m) == RebuildSubCheats([m EXCEPT !.SubCheats = {}])

AddCheatEntry(m, c) == [m EXCEPT !.cheats = Append(@, c)]

ToggleCheat(m, which) == RebuildSubCheats([m EXCEPT !.cheats[which].status = ~@])

\* On the console no file of cheats can be opened for writing: the list is
\* dropped, saved or not.
FlushGameCheats(m) == RebuildSubCheats([m EXCEPT !.cheats = <<>>])

\* Nor can one be opened for reading.
LoadGameCheats(m) == [m EXCEPT !.SubCheats = {}]

\* What the game reads at a.  Nothing there: the search goes on behind the end.
SubCheatsRead(m, a) ==
    LET hits == {x \in m.SubCheats : x.addr = a}
        s    == CHOOSE x \in hits : TRUE
    IN  IF hits = {} THEN [lost |-> a]
        ELSE IF s.compare = "other" THEN [memory |-> s.PrevRead] ELSE [value |-> s.val]

Reads(m, a) == IF m.handler[a] = "cheat" THEN SubCheatsRead(m, a) ELSE [memory |-> m.handler[a]]

-----------------------------------------------------------------------------
(* The calls. *)

PowerNES(m, g) == PowerCheats([m EXCEPT !.handler = [a \in Addrs |-> g]])

\* LoadCheats of cheatmgr.cpp: the k-th line's cheat is added, and the k-th
\* cheat of the list is toggled.
LoadCheats(m, lines) ==
    LET f[k \in 0 .. Len(lines)] ==
            IF k = 0 THEN m ELSE ToggleCheat(AddCheatEntry(f[k-1], lines[k]), k)
    IN  RebuildSubCheats(f[Len(lines)])

\* FCEU_CloseGame.
Closed == IF game \in {NoGame} \cup Nsf THEN mem ELSE FlushGameCheats(mem)

Undisturbed == UNCHANGED <<numcheats, game, online, loads>>

\* What the main thread does beside the netplay thread.  Of no list both find
\* nothing and leave nothing.
ByMain ==
    /\ raced' = (raced \/ (busy # "none" /\ {mem.cheats, mem'.cheats} # {<<>>}))
    /\ UNCHANGED busy

\* GCMemROM: ResetGameLoaded closes the game before.  Then PowerNES and
\* SetupCheats, whose file may not be there.  A player in a session loads no games.
LoadGame(g) ==
    /\ ~online /\ loads < Loads
    /\ LET m == PowerCheats(PowerNES(Closed, g))
       IN  \/ g \notin Nsf /\ mem' = LoadCheats(m, File[g]) /\ numcheats' = Len(File[g])
           \/ mem' = m /\ numcheats' = 0
    /\ game' = g /\ loads' = loads + 1
    /\ ByMain /\ UNCHANGED online

\* The file is no game.
LoadNothing ==
    /\ ~online /\ loads < Loads
    /\ mem' = Closed
    /\ game' = NoGame /\ loads' = loads + 1
    /\ ByMain /\ UNCHANGED <<numcheats, online>>

\* MenuGameCheats lists what is there of the first numcheats.
Toggle(which) ==
    /\ game # NoGame /\ which <= numcheats /\ which \in DOMAIN mem.cheats
    /\ mem' = ToggleCheat(mem, which)
    /\ ByMain /\ Undisturbed

\* By the menu, or in the game.
Reset ==
    /\ game # NoGame
    /\ mem' = PowerNES(mem, game)
    /\ ByMain /\ Undisturbed

\* FCEUI_NetplayStart.
NetplayStart ==
    /\ ~online
    /\ mem' = LoadGameCheats(FlushGameCheats(mem)) /\ online' = TRUE
    /\ ByMain /\ UNCHANGED <<numcheats, game, loads>>

\* FCEUI_NetplayStop in a game, when the netplay thread is suspended.
NetplayStop ==
    /\ online /\ busy = "none"
    /\ mem' = LoadGameCheats(FlushGameCheats(mem)) /\ online' = FALSE
    /\ UNCHANGED <<numcheats, game, busy, raced, loads>>

\* The disconnect button, which waits until the netplay thread is suspended, has
\* set OFFLINE itself, so that NetplayStop does nothing.
Disconnect ==
    /\ online /\ busy = "none"
    /\ online' = FALSE
    /\ UNCHANGED <<mem, numcheats, game, busy, raced, loads>>

\* In the menu the netplay thread begins a NetplayStop or a PowerNES,
ThreadBegins ==
    /\ online /\ busy = "none"
    /\ \/ busy' = "stop" /\ online' = FALSE
       \/ busy' = "power" /\ game # NoGame /\ UNCHANGED online
    /\ UNCHANGED <<mem, numcheats, game, raced, loads>>

\* and ends it.  Of a race it may leave the list or not, and handlers whose
\* substitutions are gone.
ThreadEnds ==
    /\ busy # "none" /\ busy' = "none"
    /\ IF raced
          THEN \E list \in {<<>>, mem.cheats}, stale \in SUBSET Addrs :
                  mem' = [mem EXCEPT !.cheats = list, !.SubCheats = {},
                          !.handler = [a \in Addrs |-> IF a \in stale THEN "cheat" ELSE Restored(mem)[a]]]
          ELSE mem' = IF busy = "stop" THEN LoadGameCheats(FlushGameCheats(mem)) ELSE PowerNES(mem, game)
    /\ UNCHANGED raced /\ Undisturbed

Next ==
    \/ \E g \in Games : LoadGame(g)
    \/ LoadNothing
    \/ \E which \in 1 .. numcheats : Toggle(which)
    \/ Reset \/ NetplayStart \/ NetplayStop \/ Disconnect
    \/ ThreadBegins \/ ThreadEnds

Spec == Init /\ [][Next]_vars

-----------------------------------------------------------------------------
\* The variables' types.  Until two threads race, no address has two substitutions,
\* the catastrophe that a check in RebuildSubCheats prevents.
TypeOK ==
    /\ numcheats \in Nat /\ game \in Games \cup {NoGame} /\ online \in BOOLEAN
    /\ busy \in {"none", "stop", "power"} /\ raced \in BOOLEAN /\ loads \in 0 .. Loads
    /\ ~raced =>
          /\ mem.cheats \in Seq(Cheat)
          /\ mem.handler \in [Addrs -> {"cheat", NoGame} \cup Games]
          /\ \A s \in mem.SubCheats : s.addr \in Addrs /\ s.PrevRead \in {NoGame} \cup Games
          /\ \A s, t \in mem.SubCheats : s.addr = t.addr => s = t

\* What the list says of an address: the first active substitution for it, or
\* the memory of the game that runs now.
Listed(a) ==
    LET firsts == {i \in DOMAIN mem.cheats : IsActive(mem.cheats[i]) /\ mem.cheats[i].addr = a}
        c      == mem.cheats[CHOOSE i \in firsts : \A j \in firsts : i <= j]
    IN  IF firsts = {} \/ c.compare = "other" THEN [memory |-> game] ELSE [value |-> c.val]

\* When the netplay thread rests, as it does while a game runs, that is what the
\* game reads there, through SubCheatsRead (cheat.cpp) or the game's own handler.
\* SubCheatsRead therefore never runs past its loop, where stands "We should never
\* get here."  There are two exceptions: the main thread has loaded a game with
\* cheats while the netplay thread was still ending a session, and more substitutions
\* were active than SubCheats has room for.
ReadsAsListed ==
    game # NoGame /\ busy = "none" /\ ~raced /\ ~mem.overrun =>
        \A a \in Addrs : Reads(mem, a) = Listed(a)
===============================================================================
