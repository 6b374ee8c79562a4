-------------------------------- MODULE Games --------------------------------
(***************************************************************************)
(* The game that runs and its progress: loading a game (filebrowser.cpp,   *)
(* fceuload.cpp, fceultra/ines.cpp, unif.cpp), saving and loading its      *)
(* battery RAM and states (fceuram.cpp, fceustate.cpp), the menu that does *)
(* so on its own (menu.cpp), and the end of the program (fceugx.cpp).      *)
(*                                                                         *)
(* Two threads: the main thread, in the menu or in the game, and the GUI   *)
(* thread, which ends the program wherever the main thread is in the menu. *)
(* The power may be cut at any time; the files are what remains.           *)
(***************************************************************************)
EXTENDS Integers

CONSTANTS
    Kind,               \* Kind[g]: the kind of game g, "ines", "vs", "unif" or "fds"
    Battery,            \* the games with a battery
    Settings,           \* the settings AutoLoad and AutoSave, in pairs
    Longest,            \* bound: how far a game is played
    Starts              \* bound: how many games are started

Game == DOMAIN Kind

ASSUME GamesAssumption ==
    /\ Kind \in [Game -> {"ines", "vs", "unif", "fds"}]
    /\ Battery \subseteq Game
    /\ Game \cap {"none", "junk", "cut"} = {}
    /\ Settings \subseteq (0 .. 2) \X (0 .. 3)
    /\ Longest \in Nat /\ Starts \in Nat

\* A content is how far a game has come, and which: freed memory is junk.
None == [of |-> "none", at |-> 0]
Junk == [of |-> "junk", at |-> 0]
Cut  == [of |-> "cut", at |-> 0]        \* a file whose writing did not end

New(g) == [of |-> g, at |-> 0]

\* The RAM files of a game: "Auto", with a number, and with neither.
Slots == {"auto", "one", "none"}

VARIABLES
    place,              \* of the main thread, or "off"
    game,               \* GameInfo
    romLoaded, romFilename,
    iNESCart, UNIFCart, \* whose battery memory the carts' SaveGame points to
    ram,                \* the battery memory of the game that runs
    files, states,      \* the RAM files, and the state, of each game
    AutoLoad, AutoSave,
    behind,             \* history: the player goes on from less than the file
                        \* holds, because it was not, or could not be, loaded
    starts

loaded == <<game, romLoaded, romFilename, iNESCart, UNIFCart>>
stored == <<files, states>>
settings == <<AutoLoad, AutoSave>>
vars == <<place, loaded, ram, stored, settings, behind, starts>>

Init ==
    /\ place = "select"
    /\ game = "none" /\ romLoaded = FALSE /\ romFilename = "none"
    /\ iNESCart = "none" /\ UNIFCart = "none"
    /\ ram = None
    /\ \E old \in {{}, Battery} :           \* files of an older program
           files = [g \in Game |-> [s \in Slots |-> IF g \in old /\ s = "none"
                                                    THEN New(g) ELSE None]]
    /\ states = [g \in Game |-> None]
    /\ \E s \in Settings : AutoLoad = s[1] /\ AutoSave = s[2]
    /\ behind = FALSE /\ starts = 0

-----------------------------------------------------------------------------
(* fceuram.cpp *)

\* Which cart's memory is saved: by the type, and the type of a UNIF game is
\* GIT_CART too.
CartOf == IF Kind[game] = "vs" THEN UNIFCart ELSE iNESCart

\* WiiFCEU_GameSave out of memory: that of another game was freed.
GameSave == IF CartOf = game THEN ram ELSE Junk

\* WiiFCEU_GameSave into memory.  What remains of a file cut off is no progress.
GameRestored(content) ==
    IF CartOf # game THEN ram
    ELSE IF content = Cut THEN New(game) ELSE content

HasRAM == Kind[game] # "fds" /\ CartOf # "none"

\* SaveFile: the file is truncated first, and a failure leaves it so.
Written(old, content) == {old, Cut, content}

SaveRAM(slot) ==
    IF HasRAM
    THEN \E content \in Written(files[romFilename][slot], GameSave) :
             files' = [files EXCEPT ![romFilename][slot] = content]
    ELSE UNCHANGED files

SaveState ==
    \E content \in Written(states[romFilename], ram) :
        states' = [states EXCEPT ![romFilename] = content]

\* What a content is worth to the player.
Progress(content) == IF content.of \in {"none", "cut", "junk"} THEN 0 ELSE content.at

\* Wrong: the file without a number first.
BadLoadRAMAuto ==
    LET auto == files[romFilename]["auto"]
        bare == files[romFilename]["none"]
    IN  \/ /\ bare # None /\ Kind[game] # "fds"
           /\ ram' = GameRestored(bare) /\ behind' = FALSE
           /\ files' = [files EXCEPT ![romFilename]["auto"] = bare,
                                     ![romFilename]["none"] = None]
        \/ /\ auto # None /\ Kind[game] # "fds"
           /\ ram' = GameRestored(auto) /\ behind' = FALSE
           /\ UNCHANGED files
        \/ ram' = ram /\ behind' = (auto # None \/ bare # None) /\ UNCHANGED files

\* The Auto file, else the file without a number, which becomes the Auto file.
\* A file may be there and not be read: that is silent.
LoadRAMAuto ==
    LET auto == files[romFilename]["auto"]
        bare == files[romFilename]["none"]
    IN  \/ /\ auto # None /\ Kind[game] # "fds"
           /\ ram' = GameRestored(auto) /\ behind' = FALSE
           /\ UNCHANGED files
        \/ /\ bare # None /\ Kind[game] # "fds"
           /\ ram' = GameRestored(bare)
           /\ files' = [files EXCEPT ![romFilename]["auto"] = bare,
                                     ![romFilename]["none"] = None]
           /\ behind' = (Progress(auto) > Progress(bare))
        \/ ram' = ram /\ behind' = (auto # None \/ bare # None) /\ UNCHANGED files

-----------------------------------------------------------------------------
(* The menu. *)

\* Wrong: the old game still counts as loaded.
BadBrowserLoadFile ==
    /\ place = "select" /\ place' = "reading"
    /\ starts < Starts /\ starts' = starts + 1
    /\ UNCHANGED <<loaded, ram, stored, settings, behind>>

BrowserLoadFile ==
    /\ place = "select" /\ place' = "reading"
    /\ starts < Starts /\ starts' = starts + 1
    /\ romLoaded' = FALSE
    /\ UNCHANGED <<game, romFilename, iNESCart, UNIFCart, ram, stored, settings, behind>>

\* The file is no game, or cannot be read.
NotRead ==
    /\ place = "reading" /\ place' = "select"
    /\ UNCHANGED <<loaded, ram, stored, settings, behind, starts>>

\* GCMemROM refuses the file: the game before is closed all the same, and a
\* UNIF file that fails half way clears its cart.
NoGame ==
    /\ place = "reading" /\ place' = "select"
    /\ romFilename' \in Game
    /\ game' = "none" /\ ram' = None /\ behind' = FALSE
    /\ UNIFCart' \in {UNIFCart, "none"}
    /\ UNCHANGED <<romLoaded, iNESCart, stored, settings, starts>>

Owner(g) == IF g \in Battery THEN g ELSE "none"

\* Wrong: iNESLoad without the memset.
BadCartsOf(g) ==
    CASE Kind[g] \in {"ines", "vs"} -> <<IF g \in Battery THEN g ELSE iNESCart, UNIFCart>>
      [] Kind[g] = "unif"           -> <<iNESCart, Owner(g)>>
      [] Kind[g] = "fds"            -> <<iNESCart, UNIFCart>>

\* iNESLoad and ResetUNIF clear the cart of their kind only.
CartsOf(g) ==
    CASE Kind[g] \in {"ines", "vs"} -> <<Owner(g), UNIFCart>>
      [] Kind[g] = "unif"           -> <<iNESCart, Owner(g)>>
      [] Kind[g] = "fds"            -> <<iNESCart, UNIFCart>>

\* romLoaded is set before PowerNES; what an ExitApp in between would save is the
\* same memory of a game that has not been played.
GCMemROM ==
    /\ place = "reading" /\ place' = "loaded"
    /\ \E g \in Game :
        /\ romFilename' = g /\ game' = g /\ romLoaded' = TRUE
        /\ iNESCart' = CartsOf(g)[1] /\ UNIFCart' = CartsOf(g)[2]
        /\ ram' = New(g)
    /\ behind' = FALSE
    /\ UNCHANGED <<stored, settings, starts>>

Behind(content) == Progress(files[game]["auto"]) > Progress(content)

\* The end of BrowserLoadFile.
AutoLoaded ==
    /\ place = "loaded" /\ place' = "play"
    /\ \/ AutoLoad = 0 /\ ram' = ram /\ UNCHANGED files /\ behind' = Behind(ram)
       \/ AutoLoad = 1 /\ LoadRAMAuto
       \/ /\ AutoLoad = 2 /\ UNCHANGED files
          /\ ram' \in {ram} \cup ({states[game]} \ {None, Cut})
          /\ behind' = Behind(ram')
    /\ UNCHANGED <<loaded, states, settings, starts>>

\* MenuGame, entered from the game: AutoSave.
EnterMenu ==
    /\ place = "play" /\ place' = "game"
    /\ \/ AutoSave \in {0, 2} /\ UNCHANGED stored
       \/ AutoSave = 1 /\ SaveRAM("auto") /\ UNCHANGED states
       \/ AutoSave = 2 /\ SaveState /\ UNCHANGED files
       \/ AutoSave = 3 /\ SaveRAM("auto") /\ SaveState
       \/ AutoSave = 3 /\ UNCHANGED stored
    /\ UNCHANGED <<loaded, ram, settings, behind, starts>>

\* MenuGameSaves.
SaveGame ==
    /\ place = "game"
    /\ \/ \E slot \in Slots \ {"none"} : SaveRAM(slot) /\ UNCHANGED states
       \/ SaveState /\ UNCHANGED files
    /\ UNCHANGED <<place, loaded, ram, settings, behind, starts>>

LoadGame ==
    /\ place = "game" /\ place' = "play"
    /\ \/ \E slot \in Slots \ {"none"} :
            /\ Kind[game] # "fds" /\ files[game][slot] # None
            /\ ram' = GameRestored(files[game][slot])
       \/ states[game] \notin {None, Cut} /\ ram' = states[game]
    /\ behind' = Behind(ram')
    /\ UNCHANGED <<loaded, stored, settings, starts>>

\* Back to the game, reset or not: the battery keeps the RAM.
Close ==
    /\ place = "game" /\ place' = "play"
    /\ UNCHANGED <<loaded, ram, stored, settings, behind, starts>>

Quit ==
    /\ place = "game" /\ place' = "select"
    /\ UNCHANGED <<loaded, ram, stored, settings, behind, starts>>

-----------------------------------------------------------------------------
Play ==
    /\ place = "play" /\ ram.of = game /\ ram.at < Longest
    /\ ram' = [ram EXCEPT !.at = @ + 1]
    /\ UNCHANGED <<place, loaded, stored, settings, behind, starts>>

\* From the game on the main thread, from the menu on the GUI thread.
ExitApp ==
    /\ place # "off" /\ place' = "off"
    /\ IF romLoaded /\ AutoSave = 1 THEN SaveRAM("auto") ELSE UNCHANGED files
    /\ UNCHANGED <<loaded, ram, states, settings, behind, starts>>

Start ==
    /\ place = "off" /\ place' = "select"
    /\ game' = "none" /\ romLoaded' = FALSE /\ romFilename' = "none"
    /\ iNESCart' = "none" /\ UNIFCart' = "none" /\ ram' = None /\ behind' = FALSE
    /\ UNCHANGED <<stored, settings, starts>>

PowerCut ==
    /\ place # "off" /\ place' = "off"
    /\ UNCHANGED <<loaded, ram, stored, settings, behind, starts>>

Next ==
    \/ BrowserLoadFile \/ NotRead \/ NoGame \/ GCMemROM \/ AutoLoaded
    \/ EnterMenu \/ SaveGame \/ LoadGame \/ Close \/ Quit
    \/ Play \/ ExitApp \/ Start \/ PowerCut

Spec == Init /\ [][Next]_vars

-----------------------------------------------------------------------------
Content == [of : Game, at : 0 .. Longest] \cup {None, Junk, Cut}

TypeOK ==
    /\ place \in {"select", "reading", "loaded", "play", "game", "off"}
    /\ {game, iNESCart, UNIFCart, romFilename} \subseteq Game \cup {"none"}
    /\ romLoaded \in BOOLEAN /\ ram \in Content
    /\ files \in [Game -> [Slots -> Content]] /\ states \in [Game -> Content]
    /\ <<AutoLoad, AutoSave>> \in Settings
    /\ behind \in BOOLEAN /\ starts \in 0 .. Starts

\* While a game counts as loaded, GameInfo is there, and its files are named
\* after it: whoever saves then, GUI thread or main thread, saves this game
\* under its name.
NamedAfterGame == romLoaded => game # "none" /\ romFilename = game

\* The RAM files of an iNES game hold this game's memory, whatever games, and of
\* what kind, were loaded before it.
OwnSaves ==
    \A g \in Game : Kind[g] = "ines" => \A slot \in Slots : files[g][slot].of \in {g, "none", "cut"}

\* The Auto file of an iNES game loses progress only when writing it fails, when
\* the player goes on from less than it holds, or when the program is ended
\* after the game was loaded and before its RAM was.
KeepsProgress ==
    [][\A g \in Game :
        /\ Kind[g] = "ines"
        /\ Progress(files'[g]["auto"]) < Progress(files[g]["auto"])
        => \/ files'[g]["auto"] = Cut \/ behind \/ behind'
           \/ place = "loaded" /\ place' = "off"]_vars
===============================================================================
