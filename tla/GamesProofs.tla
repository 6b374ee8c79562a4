----------------------------- MODULE GamesProofs -----------------------------
(***************************************************************************)
(* Proofs about Games, for any games, settings and bounds.                 *)
(*                                                                         *)
(* OwnSaves is not inductive: what a save writes depends on the memory of  *)
(* the game, on the cart the memory is taken from, and on the name of the  *)
(* file.  The invariant Inv says of each of these whose it is; Ahead says  *)
(* that the memory holds at least what the file holds.                     *)
(***************************************************************************)
EXTENDS Games, TLAPS

\* The memory and the state are this game's own.
OwnMemory ==
    /\ game # "none" => ram.of = game
    /\ \A g \in Game : states[g].of \in {g, "none", "cut"}

\* The carts: an iNES game's is its own, and no other kind finds its own.
OwnCarts ==
    /\ iNESCart # "none" => Kind[iNESCart] \in {"ines", "vs"}
    /\ UNIFCart # "none" => Kind[UNIFCart] = "unif"
    /\ game # "none" /\ Kind[game] = "ines" => iNESCart \in {game, "none"}

\* Where the main thread is, and whether a game counts as loaded.
Places ==
    /\ place \in {"loaded", "play", "game"} => romLoaded
    /\ place = "reading" => ~romLoaded

\* The player goes on from what the file holds, or from more.
Ahead ==
    romLoaded /\ place \in {"select", "play", "game"} /\ ~behind
      /\ Kind[game] = "ines" /\ iNESCart = game
    => Progress(files[game]["auto"]) <= Progress(ram)

Inv  == TypeOK /\ NamedAfterGame /\ OwnSaves /\ OwnMemory /\ OwnCarts /\ Places
IInv == Inv /\ Ahead

-----------------------------------------------------------------------------
LEMMA Names ==
    \A g \in Game : g # "none" /\ g # "junk" /\ g # "cut"
BY GamesAssumption DEF GamesAssumption

LEMMA Contents ==
    /\ None \in Content /\ Junk \in Content /\ Cut \in Content
    /\ \A g \in Game : New(g) \in Content /\ New(g).of = g
    /\ \A c \in Content : Progress(c) \in Nat
    /\ Progress(None) = 0 /\ Progress(Cut) = 0
<1>1. 0 \in 0 .. Longest BY GamesAssumption DEF GamesAssumption
<1>2. \A c \in Content : Progress(c) \in Nat
  BY GamesAssumption DEF GamesAssumption, Content, Progress, None, Junk, Cut
<1> QED BY <1>1, <1>2 DEF Content, New, Progress, None, Cut

\* A content that is there and whole is of the game it is filed under.
LEMMA Whole ==
    ASSUME NEW g \in Game, NEW c \in Content, c.of \in {g, "none", "cut"},
           c # None, c # Cut
    PROVE  c.of = g
BY Names DEF Content, None, Cut, Junk

LEMMA Loaded ==
    ASSUME Inv, romLoaded
    PROVE  game \in Game /\ romFilename = game /\ game # "none" /\ ram.of = game
BY Names DEF Inv, TypeOK, NamedAfterGame, OwnMemory

\* Memory that a save is loaded into stays the game's own.
LEMMA Restoring ==
    ASSUME Inv, romLoaded, NEW slot \in Slots, files[game][slot] # None
    PROVE  LET content == GameRestored(files[game][slot])
           IN  content \in Content /\ content.of = game
<1> DEFINE file == files[game][slot]
<1>1. game \in Game /\ game # "none" /\ ram.of = game BY Loaded
<1>2. file \in Content /\ ram \in Content BY <1>1 DEF Inv, TypeOK
<1>3. CASE CartOf # game BY <1>1, <1>2, <1>3 DEF GameRestored
<1>4. CASE CartOf = game
  <2>1. Kind[game] = "ines"
    BY <1>1, <1>4, GamesAssumption DEF CartOf, Inv, OwnCarts, GamesAssumption
  <2>2. file.of \in {game, "none", "cut"} BY <1>1, <2>1 DEF Inv, OwnSaves
  <2>3. CASE file = Cut BY <1>1, <1>4, <2>3, Contents DEF GameRestored
  <2>4. CASE file # Cut
    <3>1. file.of = game BY <1>1, <1>2, <2>2, <2>4, Whole
    <3> QED BY <1>2, <1>4, <2>4, <3>1 DEF GameRestored
  <2> QED BY <2>3, <2>4
<1> QED BY <1>3, <1>4

\* What SaveRAM writes, if it writes at all.
LEMMA Saving ==
    ASSUME Inv, romLoaded, NEW slot \in Slots, SaveRAM(slot)
    PROVE  /\ files' \in [Game -> [Slots -> Content]]
           /\ OwnSaves'
           /\ \A g \in Game : \A s \in Slots :
                \/ files'[g][s] = files[g][s] \/ files'[g][s] = Cut
                \/ g = game /\ s = slot /\ files'[g][s] = GameSave
                   /\ (Kind[g] = "ines" => iNESCart = game /\ GameSave = ram)
<1>1. game \in Game /\ romFilename = game /\ game # "none" /\ ram.of = game BY Loaded
<1>2. files \in [Game -> [Slots -> Content]] /\ ram \in Content /\ OwnSaves
  BY DEF Inv, TypeOK
<1>3. CASE UNCHANGED files BY <1>2, <1>3 DEF OwnSaves
<1>4. CASE HasRAM
  <2>1. PICK content \in Written(files[game][slot], GameSave) :
             files' = [files EXCEPT ![game][slot] = content]
    BY <1>1, <1>4 DEF SaveRAM
  <2>2. GameSave \in Content BY <1>2, Contents DEF GameSave
  <2>3. content \in Content BY <1>1, <1>2, <2>1, <2>2, Contents DEF Written
  <2>4. files' \in [Game -> [Slots -> Content]] BY <1>1, <1>2, <2>1, <2>3
  <2>5. files'[game][slot] = content BY <1>1, <1>2, <2>1
  <2>6. \A g \in Game : \A s \in Slots :
            ~(g = game /\ s = slot) => files'[g][s] = files[g][s]
    BY <1>1, <1>2, <2>1
  <2>7. Kind[game] = "ines" => iNESCart = game /\ GameSave = ram
    BY <1>1, <1>4 DEF HasRAM, CartOf, GameSave, Inv, OwnCarts
  <2>8. Kind[game] = "ines" => content.of \in {game, "none", "cut"}
    BY <1>1, <1>2, <2>1, <2>7 DEF Written, Cut, OwnSaves
  <2>9. OwnSaves' BY <1>2, <2>5, <2>6, <2>8 DEF OwnSaves
  <2>10. content = files[game][slot] \/ content = Cut \/ content = GameSave
    BY <2>1 DEF Written
  <2> QED BY <2>4, <2>5, <2>6, <2>7, <2>9, <2>10
<1> QED BY <1>3, <1>4 DEF SaveRAM

LEMMA InitInv == Init => IInv
<1> SUFFICES ASSUME Init PROVE IInv
  OBVIOUS
<1> USE Contents, Names DEF Init
<1>1. files \in [Game -> [Slots -> Content]] /\ states \in [Game -> Content]
  OBVIOUS
<1>2. \A g \in Game : \A s \in Slots : files[g][s].of \in {g, "none", "cut"}
  BY DEF None
<1>3. \A g \in Game : states[g].of \in {g, "none", "cut"}
  BY DEF None
<1>4. <<AutoLoad, AutoSave>> \in Settings
  BY GamesAssumption DEF GamesAssumption
<1>5. starts \in 0 .. Starts BY GamesAssumption DEF GamesAssumption
<1>6. TypeOK BY <1>1, <1>4, <1>5 DEF TypeOK
<1> QED BY <1>2, <1>3, <1>6
        DEF IInv, Inv, NamedAfterGame, OwnSaves, OwnMemory, OwnCarts, Places, Ahead

\* What the end of BrowserLoadFile leaves in memory and files.
LEMMA Loading ==
    ASSUME Inv, romLoaded, LoadRAMAuto
    PROVE  /\ ram' \in Content /\ ram'.of = game /\ behind' \in BOOLEAN
           /\ files' \in [Game -> [Slots -> Content]] /\ OwnSaves'
<1>1. game \in Game /\ romFilename = game /\ game # "none" /\ ram.of = game BY Loaded
<1>2. files \in [Game -> [Slots -> Content]] /\ ram \in Content /\ OwnSaves
  BY DEF Inv, TypeOK
<1>3. "auto" \in Slots /\ "none" \in Slots BY DEF Slots
<1> DEFINE auto == files[game]["auto"]
           bare == files[game]["none"]
<1>4. CASE auto # None /\ ram' = GameRestored(auto) /\ behind' = FALSE /\ UNCHANGED files
  BY <1>1, <1>2, <1>3, <1>4, Restoring DEF OwnSaves
<1>5. CASE /\ bare # None /\ ram' = GameRestored(bare) /\ behind' \in BOOLEAN
           /\ files' = [files EXCEPT ![game]["auto"] = bare, ![game]["none"] = None]
  <2>1. ram' \in Content /\ ram'.of = game BY <1>1, <1>3, <1>5, Restoring
  <2>2. bare \in Content /\ None \in Content BY <1>1, <1>2, <1>3, Contents
  <2>3. files' = [files EXCEPT ![game] =
                     [[files[game] EXCEPT !["auto"] = bare] EXCEPT !["none"] = None]]
    BY <1>1, <1>2, <1>5
  <2>4. files' \in [Game -> [Slots -> Content]] BY <1>1, <1>2, <2>2, <2>3
  <2>5. \A g \in Game : \A s \in Slots :
            \/ files'[g][s] = files[g][s]
            \/ g = game /\ files'[g][s] \in {bare, None}
    BY <1>1, <1>2, <1>3, <2>3
  <2>6. OwnSaves' BY <1>1, <1>2, <1>3, <2>5 DEF OwnSaves, None
  <2> QED BY <1>5, <2>1, <2>4, <2>6
<1>6. CASE ram' = ram /\ behind' \in BOOLEAN /\ UNCHANGED files
  BY <1>1, <1>2, <1>6 DEF OwnSaves
<1>7. (Progress(auto) > Progress(bare)) \in BOOLEAN /\ (auto # None \/ bare # None) \in BOOLEAN
  OBVIOUS
<1>8. \/ auto # None /\ ram' = GameRestored(auto) /\ behind' = FALSE /\ UNCHANGED files
      \/ /\ bare # None /\ ram' = GameRestored(bare)
         /\ behind' = (Progress(auto) > Progress(bare))
         /\ files' = [files EXCEPT ![game]["auto"] = bare, ![game]["none"] = None]
      \/ ram' = ram /\ behind' = (auto # None \/ bare # None) /\ UNCHANGED files
  BY <1>1 DEF LoadRAMAuto
<1> QED BY <1>4, <1>5, <1>6, <1>7, <1>8

-----------------------------------------------------------------------------
\* SaveState writes this game's memory under its name.
LEMMA StateSaving ==
    ASSUME Inv, romLoaded, SaveState
    PROVE  /\ states' \in [Game -> Content]
           /\ \A g \in Game : states'[g].of \in {g, "none", "cut"}
<1>1. game \in Game /\ romFilename = game /\ ram.of = game BY Loaded
<1>2. states \in [Game -> Content] /\ ram \in Content
      /\ \A g \in Game : states[g].of \in {g, "none", "cut"}
  BY DEF Inv, TypeOK, OwnMemory
<1>3. PICK content \in Written(states[game], ram) :
          states' = [states EXCEPT ![game] = content]
  BY <1>1 DEF SaveState
<1>4. content \in Content /\ content.of \in {game, "none", "cut"}
  BY <1>1, <1>2, <1>3, Contents DEF Written, Cut
<1> QED BY <1>1, <1>2, <1>3, <1>4

LEMMA NextInv == Inv /\ [Next]_vars => Inv'
<1> SUFFICES ASSUME Inv, [Next]_vars PROVE Inv'
  OBVIOUS
<1>0. /\ TypeOK /\ NamedAfterGame /\ OwnSaves /\ OwnMemory /\ OwnCarts /\ Places
      /\ "auto" \in Slots
  BY DEF Inv, Slots
<1>1. CASE BrowserLoadFile
  <2>1. starts' \in 0 .. Starts
    BY <1>0, <1>1, GamesAssumption DEF BrowserLoadFile, TypeOK, GamesAssumption
  <2>2. /\ place' = "reading" /\ romLoaded' = FALSE
        /\ UNCHANGED <<game, romFilename, iNESCart, UNIFCart, ram, files, states,
                       AutoLoad, AutoSave, behind>>
    BY <1>1 DEF BrowserLoadFile, stored, settings
  <2> QED BY <1>0, <2>1, <2>2
          DEF Inv, TypeOK, NamedAfterGame, OwnSaves, OwnMemory, OwnCarts, Places
<1>2. CASE NotRead \/ Close \/ Quit \/ PowerCut
  BY <1>0, <1>2 DEF NotRead, Close, Quit, PowerCut, Inv, TypeOK, NamedAfterGame, OwnSaves,
                    OwnMemory, OwnCarts, Places, loaded, stored, settings
<1>3. CASE NoGame
  <2>1. /\ place' = "select" /\ game' = "none" /\ ram' = None /\ behind' = FALSE
        /\ romFilename' \in Game /\ UNIFCart' \in {UNIFCart, "none"}
        /\ UNCHANGED <<romLoaded, iNESCart, files, states, AutoLoad, AutoSave, starts>>
        /\ ~romLoaded
    BY <1>0, <1>3 DEF NoGame, Places, stored, settings
  <2>2. TypeOK' BY <1>0, <2>1, Contents DEF TypeOK
  <2>3. OwnCarts' /\ OwnMemory' BY <1>0, <2>1 DEF OwnCarts, OwnMemory
  <2> QED BY <1>0, <2>1, <2>2, <2>3 DEF Inv, NamedAfterGame, OwnSaves, Places
<1>4. CASE GCMemROM
  <2>1. PICK g \in Game :
            /\ romFilename' = g /\ game' = g /\ romLoaded' = TRUE
            /\ iNESCart' = CartsOf(g)[1] /\ UNIFCart' = CartsOf(g)[2]
            /\ ram' = New(g)
    BY <1>4 DEF GCMemROM
  <2>2. Kind[g] \in {"ines", "vs", "unif", "fds"} BY GamesAssumption DEF GamesAssumption
  <2>3. /\ iNESCart' \in Game \cup {"none"} /\ UNIFCart' \in Game \cup {"none"}
        /\ iNESCart' # "none" => Kind[iNESCart'] \in {"ines", "vs"}
        /\ UNIFCart' # "none" => Kind[UNIFCart'] = "unif"
        /\ Kind[g] = "ines" => iNESCart' \in {g, "none"}
    BY <1>0, <2>1, <2>2 DEF CartsOf, Owner, TypeOK, OwnCarts
  <2>4. ram' \in Content /\ ram'.of = g BY <2>1, Contents
  <2>5. g # "none" BY Names
  <2>6. UNCHANGED <<files, states, AutoLoad, AutoSave, starts>> /\ place' = "loaded" /\ behind' = FALSE
    BY <1>4 DEF GCMemROM, stored, settings
  <2> QED BY <1>0, <2>1, <2>3, <2>4, <2>5, <2>6
          DEF Inv, TypeOK, NamedAfterGame, OwnSaves, OwnMemory, OwnCarts, Places
<1>5. CASE AutoLoaded
  <2>0. /\ romLoaded /\ game \in Game /\ game # "none" /\ ram.of = game
        /\ place' = "play" /\ UNCHANGED <<loaded, states, settings, starts>>
    BY <1>0, <1>5, Loaded DEF AutoLoaded, Places
  <2>1. /\ ram' \in Content /\ ram'.of = game /\ behind' \in BOOLEAN
        /\ files' \in [Game -> [Slots -> Content]] /\ OwnSaves'
    <3>1. CASE AutoLoad = 1 /\ LoadRAMAuto BY <2>0, <3>1, Loading
    <3>2. CASE /\ ram' = ram \/ (states[game] \notin {None, Cut} /\ ram' = states[game])
               /\ UNCHANGED files /\ behind' = Behind(ram')
      <4>1. states[game] \in Content /\ states[game].of \in {game, "none", "cut"}
        BY <1>0, <2>0 DEF TypeOK, OwnMemory
      <4>2. ram' \in Content /\ ram'.of = game
        BY <1>0, <2>0, <3>2, <4>1, Whole DEF TypeOK
      <4>3. behind' \in BOOLEAN BY <3>2 DEF Behind
      <4> QED BY <1>0, <3>2, <4>2, <4>3 DEF TypeOK, OwnSaves
    <3> QED BY <1>5, <3>1, <3>2 DEF AutoLoaded
  <2> QED BY <1>0, <2>0, <2>1
          DEF Inv, TypeOK, NamedAfterGame, OwnMemory, OwnCarts, Places, loaded, settings
<1>6. CASE EnterMenu \/ SaveGame
  <2>0. romLoaded /\ UNCHANGED <<loaded, ram, settings, behind, starts>>
        /\ place' = "game"
    BY <1>0, <1>6 DEF EnterMenu, SaveGame, Places
  <2>1. files' \in [Game -> [Slots -> Content]] /\ OwnSaves'
    <3>1. CASE UNCHANGED files BY <1>0, <3>1 DEF TypeOK, OwnSaves
    <3>2. CASE \E slot \in Slots : SaveRAM(slot) BY <2>0, <3>2, Saving
    <3> QED BY <1>0, <1>6, <3>1, <3>2 DEF EnterMenu, SaveGame, stored
  <2>2. states' \in [Game -> Content] /\ \A g \in Game : states'[g].of \in {g, "none", "cut"}
    <3>1. CASE UNCHANGED states BY <1>0, <3>1 DEF TypeOK, OwnMemory
    <3>2. CASE SaveState BY <2>0, <3>2, StateSaving
    <3> QED BY <1>6, <3>1, <3>2 DEF EnterMenu, SaveGame, stored
  <2> QED BY <1>0, <2>0, <2>1, <2>2
          DEF Inv, TypeOK, NamedAfterGame, OwnMemory, OwnCarts, Places, loaded, settings
<1>7. CASE LoadGame
  <2>0. romLoaded /\ UNCHANGED <<loaded, stored, settings, starts>> /\ place' = "play"
        /\ game \in Game /\ game # "none"
    BY <1>0, <1>7, Loaded DEF LoadGame, Places
  <2>1. ram' \in Content /\ ram'.of = game
    <3>1. states[game] \in Content /\ states[game].of \in {game, "none", "cut"}
      BY <1>0, <2>0 DEF TypeOK, OwnMemory
    <3>2. CASE states[game] \notin {None, Cut} /\ ram' = states[game]
      BY <2>0, <3>1, <3>2, Whole
    <3>3. CASE \E slot \in Slots : files[game][slot] # None /\ ram' = GameRestored(files[game][slot])
      BY <2>0, <3>3, Restoring
    <3> QED BY <1>7, <3>2, <3>3 DEF LoadGame
  <2>2. behind' \in BOOLEAN BY <1>7 DEF LoadGame, Behind
  <2> QED BY <1>0, <2>0, <2>1, <2>2
          DEF Inv, TypeOK, NamedAfterGame, OwnSaves, OwnMemory, OwnCarts, Places, loaded, stored, settings
<1>8. CASE Play
  <2>0. romLoaded /\ game \in Game /\ ram.of = game BY <1>0, <1>8, Loaded DEF Play, Places
  <2>1. ram' \in Content /\ ram'.of = game
    <3>1. ram \in Content BY <1>0 DEF TypeOK
    <3>2. ram \in [of : Game, at : 0 .. Longest]
      BY <2>0, <3>1, Names DEF Content, None, Junk, Cut
    <3>3. ram.at + 1 \in 0 .. Longest
      BY <1>8, <3>2, GamesAssumption DEF Play, GamesAssumption
    <3>4. ram' = [ram EXCEPT !.at = ram.at + 1] BY <1>8 DEF Play
    <3> QED BY <2>0, <3>2, <3>3, <3>4 DEF Content
  <2> QED BY <1>0, <1>8, <2>1
          DEF Play, Inv, TypeOK, NamedAfterGame, OwnSaves, OwnMemory, OwnCarts, Places,
              loaded, stored, settings
<1>9. CASE ExitApp
  <2>1. files' \in [Game -> [Slots -> Content]] /\ OwnSaves'
    <3>1. CASE UNCHANGED files BY <1>0, <3>1 DEF TypeOK, OwnSaves
    <3>2. CASE romLoaded /\ SaveRAM("auto") BY <1>0, <3>2, Saving
    <3> QED BY <1>9, <3>1, <3>2 DEF ExitApp
  <2> QED BY <1>0, <1>9, <2>1
          DEF ExitApp, Inv, TypeOK, NamedAfterGame, OwnMemory, OwnCarts, Places, loaded, settings
<1>10. CASE Start
  BY <1>0, <1>10, Contents DEF Start, Inv, TypeOK, NamedAfterGame, OwnSaves, OwnMemory,
                    OwnCarts, Places, stored, settings
<1>11. CASE UNCHANGED vars
  BY <1>0, <1>11 DEF vars, Inv, TypeOK, NamedAfterGame, OwnSaves, OwnMemory, OwnCarts,
                     Places, loaded, stored, settings
<1> QED BY <1>1, <1>2, <1>3, <1>4, <1>5, <1>6, <1>7, <1>8, <1>9, <1>10, <1>11 DEF Next

-----------------------------------------------------------------------------
(* Progress. *)

LEMMA Worth ==
    ASSUME NEW g \in Game, NEW c, c.of = g
    PROVE  Progress(c) = c.at
BY Names DEF Progress

\* An iNES game that is loaded back has come as far as its file.
LEMMA RestoredProgress ==
    ASSUME Inv, romLoaded, Kind[game] = "ines", iNESCart = game,
           NEW slot \in Slots, files[game][slot] # None
    PROVE  Progress(GameRestored(files[game][slot])) = Progress(files[game][slot])
<1>1. game \in Game BY Loaded
<1>2. CartOf = game BY DEF CartOf
<1>3. CASE files[game][slot] = Cut
  BY <1>1, <1>2, <1>3, Contents, Worth DEF GameRestored, New
<1>4. CASE files[game][slot] # Cut BY <1>2, <1>4 DEF GameRestored
<1> QED BY <1>3, <1>4

\* The Auto file and memory after BrowserLoadFile.
LEMMA LoadingProgress ==
    ASSUME Inv, romLoaded, LoadRAMAuto
    PROVE  /\ ~behind' /\ Kind[game] = "ines" /\ iNESCart = game
              => Progress(files'[game]["auto"]) <= Progress(ram')
           /\ \A g \in Game : Progress(files'[g]["auto"]) < Progress(files[g]["auto"]) => behind'
<1>1. game \in Game /\ romFilename = game /\ ram \in Content
  BY Loaded DEF Inv, TypeOK
<1>2. files \in [Game -> [Slots -> Content]] /\ "auto" \in Slots /\ "none" \in Slots
  BY DEF Inv, TypeOK, Slots
<1> DEFINE auto == files[game]["auto"]
           bare == files[game]["none"]
<1>3. /\ auto \in Content /\ bare \in Content
      /\ Progress(auto) \in Nat /\ Progress(bare) \in Nat /\ Progress(ram) \in Nat
      /\ \A g \in Game : Progress(files[g]["auto"]) \in Nat
  BY <1>1, <1>2, Contents
<1>4. CASE auto # None /\ ram' = GameRestored(auto) /\ behind' = FALSE /\ UNCHANGED files
  BY <1>2, <1>3, <1>4, RestoredProgress
<1>5. CASE /\ bare # None /\ ram' = GameRestored(bare)
           /\ behind' = (Progress(auto) > Progress(bare))
           /\ files' = [files EXCEPT ![game]["auto"] = bare, ![game]["none"] = None]
  <2>1. files'[game]["auto"] = bare BY <1>1, <1>2, <1>5
  <2>2. \A g \in Game \ {game} : files'[g]["auto"] = files[g]["auto"]
    BY <1>1, <1>2, <1>5
  <2>3. Kind[game] = "ines" /\ iNESCart = game => Progress(ram') = Progress(bare)
    BY <1>2, <1>5, RestoredProgress
  <2>4. Progress(bare) < Progress(auto) => behind' BY <1>3, <1>5
  <2>5. \A g \in Game : Progress(files'[g]["auto"]) < Progress(files[g]["auto"]) => behind'
    BY <1>3, <2>1, <2>2, <2>4
  <2> QED BY <1>3, <2>1, <2>3, <2>5
<1>6. CASE ram' = ram /\ behind' = (auto # None \/ bare # None) /\ UNCHANGED files
  <2>1. ~behind' => Progress(auto) = 0 BY <1>6, Contents
  <2> QED BY <1>3, <1>6, <2>1
<1> QED BY <1>1, <1>4, <1>5, <1>6 DEF LoadRAMAuto

\* The Auto file after a save.
LEMMA SavingProgress ==
    ASSUME IInv, romLoaded, place \in {"select", "play", "game"}, ~behind,
           NEW slot \in Slots, SaveRAM(slot)
    PROVE  \A g \in Game : Kind[g] = "ines" =>
               \/ files'[g]["auto"] = Cut
               \/ Progress(files'[g]["auto"]) = Progress(files[g]["auto"])
               \/ g = game /\ files'[g]["auto"] = ram
                  /\ Progress(files[g]["auto"]) <= Progress(ram)
<1>1. "auto" \in Slots BY DEF Slots
<1>2. Inv /\ Ahead BY DEF IInv
<1> SUFFICES ASSUME NEW g \in Game, Kind[g] = "ines"
             PROVE  \/ files'[g]["auto"] = Cut
                    \/ Progress(files'[g]["auto"]) = Progress(files[g]["auto"])
                    \/ g = game /\ files'[g]["auto"] = ram
                       /\ Progress(files[g]["auto"]) <= Progress(ram)
  OBVIOUS
<1>3. \/ files'[g]["auto"] = files[g]["auto"] \/ files'[g]["auto"] = Cut
      \/ g = game /\ files'[g]["auto"] = ram /\ iNESCart = game
  BY <1>1, <1>2, Saving
<1> QED BY <1>2, <1>3 DEF Ahead

LEMMA AheadNext == IInv /\ [Next]_vars => Ahead'
<1> SUFFICES ASSUME IInv, [Next]_vars,
                    romLoaded', place' \in {"select", "play", "game"}, ~behind',
                    Kind'[game'] = "ines", iNESCart' = game'
             PROVE  Progress(files'[game']["auto"]) <= Progress(ram')
  BY DEF Ahead, Progress
<1>0. Inv /\ Ahead /\ Places /\ TypeOK /\ Kind[game'] = "ines" /\ "auto" \in Slots
  BY DEF IInv, Inv, Slots
<1>1. CASE NotRead \/ Close \/ Quit \/ UNCHANGED vars
  BY <1>0, <1>1 DEF NotRead, Close, Quit, vars, loaded, stored, settings, Places, Ahead
<1>2. CASE BrowserLoadFile \/ GCMemROM \/ ExitApp \/ PowerCut \/ Start \/ NoGame
  BY <1>0, <1>2 DEF BrowserLoadFile, GCMemROM, ExitApp, PowerCut, Start, NoGame, Places
<1>3. CASE AutoLoaded
  <2>1. romLoaded /\ game \in Game /\ UNCHANGED <<loaded, states, settings, starts>>
    BY <1>0, <1>3, Loaded DEF AutoLoaded, Places
  <2>2. CASE LoadRAMAuto BY <1>0, <2>1, <2>2, LoadingProgress DEF loaded
  <2>3. CASE UNCHANGED files /\ behind' = Behind(ram') /\ ram' \in Content
    <3>1. files[game]["auto"] \in Content BY <1>0, <2>1 DEF TypeOK
    <3>2. Progress(files[game]["auto"]) \in Nat /\ Progress(ram') \in Nat
      BY <2>3, <3>1, Contents
    <3>3. ~(Progress(files[game]["auto"]) > Progress(ram')) BY <2>3 DEF Behind
    <3>4. files' = files /\ game' = game BY <2>1, <2>3 DEF loaded
    <3> QED BY <3>2, <3>3, <3>4
  <2>4. ram' \in Content
    BY NextInv, <1>0 DEF Inv, TypeOK
  <2> QED BY <1>3, <2>2, <2>3, <2>4 DEF AutoLoaded
<1>4. CASE EnterMenu \/ SaveGame
  <2>1. /\ romLoaded /\ place \in {"play", "game"} /\ game \in Game
        /\ UNCHANGED <<loaded, ram, settings, behind, starts>>
    BY <1>0, <1>4, Loaded DEF EnterMenu, SaveGame, Places
  <2>2. Progress(files[game]["auto"]) <= Progress(ram) BY <1>0, <2>1 DEF Ahead, loaded
  <2>3. ram \in Content /\ Progress(ram) \in Nat BY <1>0, Contents DEF TypeOK
  <2>4. CASE UNCHANGED files BY <2>1, <2>2, <2>4 DEF loaded
  <2>5. CASE \E slot \in Slots : SaveRAM(slot)
    <3>1. \/ files'[game]["auto"] = Cut
          \/ Progress(files'[game]["auto"]) = Progress(files[game]["auto"])
          \/ files'[game]["auto"] = ram
      BY <1>0, <2>1, <2>5, SavingProgress DEF loaded
    <3>2. CASE files'[game]["auto"] = Cut BY <2>1, <2>3, <3>2, Contents DEF loaded
    <3>3. CASE Progress(files'[game]["auto"]) = Progress(files[game]["auto"])
      BY <2>1, <2>2, <3>3 DEF loaded
    <3>4. CASE files'[game]["auto"] = ram BY <2>1, <2>3, <3>4 DEF loaded
    <3> QED BY <3>1, <3>2, <3>3, <3>4
  <2> QED BY <1>0, <1>4, <2>4, <2>5 DEF EnterMenu, SaveGame, stored
<1>5. CASE LoadGame
  <2>1. romLoaded /\ game \in Game /\ UNCHANGED <<loaded, stored, settings, starts>>
        /\ behind' = Behind(ram')
    BY <1>0, <1>5, Loaded DEF LoadGame, Places
  <2>2. ram' \in Content BY NextInv, <1>0 DEF Inv, TypeOK
  <2>3. files[game]["auto"] \in Content BY <1>0, <2>1 DEF TypeOK
  <2>4. Progress(files[game]["auto"]) \in Nat /\ Progress(ram') \in Nat
    BY <2>2, <2>3, Contents
  <2>5. ~(Progress(files[game]["auto"]) > Progress(ram')) BY <2>1 DEF Behind
  <2>6. files' = files /\ game' = game BY <2>1 DEF loaded, stored
  <2> QED BY <2>4, <2>5, <2>6
<1>6. CASE Play
  <2>1. /\ romLoaded /\ game \in Game /\ ram.of = game
        /\ UNCHANGED <<loaded, stored, behind>>
        /\ ram' = [ram EXCEPT !.at = ram.at + 1]
    BY <1>0, <1>6, Loaded DEF Play, Places
  <2>2. Progress(files[game]["auto"]) <= Progress(ram)
    BY <1>0, <1>6, <2>1 DEF Ahead, Play, loaded
  <2>3. ram \in [of : Game, at : 0 .. Longest]
    BY <1>0, <2>1, Names DEF TypeOK, Content, None, Junk, Cut
  <2>4. ram'.of = game /\ ram'.at = ram.at + 1 /\ ram.at \in Int BY <2>1, <2>3
  <2>5. Progress(ram) = ram.at /\ Progress(ram') = ram.at + 1 BY <2>1, <2>4, Worth
  <2>6. files[game]["auto"] \in Content BY <1>0, <2>1 DEF TypeOK
  <2>7. Progress(files[game]["auto"]) \in Nat BY <2>6, Contents
  <2> QED BY <2>1, <2>2, <2>4, <2>5, <2>7 DEF loaded, stored
<1> QED BY <1>1, <1>2, <1>3, <1>4, <1>5, <1>6 DEF Next

LEMMA Always == Spec => []IInv
<1>1. Init => IInv BY InitInv
<1>2. IInv /\ [Next]_vars => IInv' BY NextInv, AheadNext DEF IInv
<1> QED BY <1>1, <1>2, PTL DEF Spec

-----------------------------------------------------------------------------
\* In every state the variables have their types.
THEOREM TypeCorrect == Spec => []TypeOK
<1>1. IInv => TypeOK BY DEF IInv, Inv
<1> QED BY <1>1, Always, PTL

\* Whoever saves while a game counts as loaded, main thread or GUI thread, saves
\* the game in memory under its own name.
THEOREM NamedFiles == Spec => []NamedAfterGame
<1>1. IInv => NamedAfterGame BY DEF IInv, Inv
<1> QED BY <1>1, Always, PTL

\* The RAM files of an iNES game never hold another game's memory, nor memory
\* that was freed, in any order of loading games of any kind.
THEOREM SavesAreOwn == Spec => []OwnSaves
<1>1. IInv => OwnSaves BY DEF IInv, Inv
<1> QED BY <1>1, Always, PTL

\* The automatic saves never replace the Auto file by less progress, except in
\* the cases the property names.
THEOREM NoProgressLost == Spec => KeepsProgress
<1> DEFINE Step ==
        \A g \in Game :
            /\ Kind[g] = "ines"
            /\ Progress(files'[g]["auto"]) < Progress(files[g]["auto"])
            => \/ files'[g]["auto"] = Cut \/ behind \/ behind'
               \/ place = "loaded" /\ place' = "off"
<1>1. IInv /\ [Next]_vars => [Step]_vars
  <2> SUFFICES ASSUME IInv, [Next]_vars, NEW g \in Game, Kind[g] = "ines",
                      Progress(files'[g]["auto"]) < Progress(files[g]["auto"]),
                      files'[g]["auto"] # Cut, ~behind, ~behind',
                      ~(place = "loaded" /\ place' = "off")
               PROVE  FALSE
    OBVIOUS
  <2>0. Inv /\ Places /\ TypeOK /\ "auto" \in Slots BY DEF IInv, Inv, Slots
  <2>1. files[g]["auto"] \in Content BY <2>0 DEF TypeOK
  <2>2. Progress(files[g]["auto"]) \in Nat BY <2>1, Contents
  <2>3. ~UNCHANGED files BY <2>2
  <2>4. CASE AutoLoaded
    <3>1. LoadRAMAuto BY <2>3, <2>4 DEF AutoLoaded
    <3>2. romLoaded BY <2>0, <2>4 DEF AutoLoaded, Places
    <3> QED BY <2>0, <3>1, <3>2, LoadingProgress
  <2>5. CASE romLoaded /\ place \in {"select", "play", "game"} /\ \E slot \in Slots : SaveRAM(slot)
    <3>1. \/ files'[g]["auto"] = Cut
          \/ Progress(files'[g]["auto"]) = Progress(files[g]["auto"])
          \/ files'[g]["auto"] = ram /\ Progress(files[g]["auto"]) <= Progress(ram)
      BY <2>5, SavingProgress
    <3>2. ram \in Content BY <2>0 DEF TypeOK
    <3>3. Progress(ram) \in Nat BY <3>2, Contents
    <3> QED BY <2>2, <3>1, <3>3
  <2>6. CASE EnterMenu \/ SaveGame
    BY <2>0, <2>3, <2>5, <2>6 DEF EnterMenu, SaveGame, stored, Places
  <2>7. CASE ExitApp
    <3>1. romLoaded /\ SaveRAM("auto") /\ place' = "off" /\ place # "off"
      BY <2>3, <2>7 DEF ExitApp
    <3>2. place \in {"select", "play", "game"} BY <2>0, <3>1 DEF Places, TypeOK
    <3> QED BY <2>0, <2>5, <3>1, <3>2
  <2> QED BY <2>3, <2>4, <2>6, <2>7
          DEF Next, vars, stored, BrowserLoadFile, NotRead, NoGame, GCMemROM, LoadGame,
              Close, Quit, Play, Start, PowerCut
<1> QED BY <1>1, Always, PTL DEF Spec, KeepsProgress
===============================================================================
