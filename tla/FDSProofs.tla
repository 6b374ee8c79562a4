------------------------------ MODULE FDSProofs ------------------------------
(***************************************************************************)
(* Proofs about FDS.  That the side in the drive is the side selected is   *)
(* inductive together with what is known in the middle of each operation   *)
(* of the main thread while the interrupt has not come there, and from it  *)
(* every step is one of FloppyDrive.  That a saved state brings the disks  *)
(* back rests on the exclusive or being its own inverse.                   *)
(***************************************************************************)
EXTENDS FDS, TLAPS

\* What the main thread has read or written holds until the change of disks
\* comes in between.
Middle ==
    /\ at \in {"game", "loaded", "write", "save"} /\ ~torn => InDisk \in {NoDisk, SelectDisk}
    /\ at = "write" => DiskPtr \in 2 .. Size - 1 /\ (~cut => part = InDisk)
    /\ at = "save" /\ ~cut => part = SelectDisk
    /\ at = "power" /\ ~cut => InDisk = 0
    /\ at = "load" => /\ file # NoFile /\ diskdata = file[1].DDT
                      /\ ~cut => SelectDisk = file[1].SELD
    /\ at = "broken" => torn
    /\ at = "game" => ~cut

IInv == TypeOK /\ SideInDrive /\ Middle

LEMMA SameFunction ==
    ASSUME NEW S, NEW T, NEW f \in [S -> T], NEW g \in [S -> T], \A x \in S : f[x] = g[x]
    PROVE  f = g
OBVIOUS

LEMMA XorType ==
    ASSUME NEW d \in [Sides -> Side], diskdatao \in [Sides -> Side]
    PROVE  Xor(d) \in [Sides -> Side]
BY DEF Xor, Side

\* The differences of the differences from the originals are the disks.
LEMMA XorTwice ==
    ASSUME NEW d \in [Sides -> Side], diskdatao \in [Sides -> Side]
    PROVE  Xor(Xor(d)) = d
<1>1. \A s \in Sides : \A p \in 0 .. Size - 1 : Xor(Xor(d))[s][p] = d[s][p]
  <2> TAKE s \in Sides
  <2> TAKE p \in 0 .. Size - 1
  <2>1. d[s] \in Side /\ diskdatao[s] \in Side OBVIOUS
  <2>2. d[s][p] \in BOOLEAN /\ diskdatao[s][p] \in BOOLEAN BY <2>1 DEF Side
  <2>3. Xor(d)[s][p] = (d[s][p] # diskdatao[s][p]) BY DEF Xor
  <2>4. Xor(Xor(d))[s][p] = (Xor(d)[s][p] # diskdatao[s][p]) BY DEF Xor
  <2>5. ((d[s][p] # diskdatao[s][p]) # diskdatao[s][p]) = d[s][p]
    BY <2>2
  <2> QED BY <2>3, <2>4, <2>5
<1>2. Xor(Xor(d)) \in [Sides -> Side] BY XorType
<1>3. \A s \in Sides : Xor(Xor(d))[s] = d[s]
  <2> TAKE s \in Sides
  <2> DEFINE f == Xor(Xor(d))[s]
             g == d[s]
  <2>1. f \in [0 .. Size - 1 -> BOOLEAN] /\ g \in [0 .. Size - 1 -> BOOLEAN]
    BY <1>2 DEF Side
  <2>2. \A p \in 0 .. Size - 1 : f[p] = g[p] BY <1>1
  <2> HIDE DEF f, g
  <2>3. f = g
    <3> DEFINE P == 0 .. Size - 1
               B == BOOLEAN
    <3>1. f \in [P -> B] /\ g \in [P -> B] /\ \A p \in P : f[p] = g[p] BY <2>1, <2>2
    <3> HIDE DEF P, B
    <3> QED BY <3>1, SameFunction
  <2> QED BY <2>3 DEF f, g
<1> QED BY <1>2, <1>3

LEMMA InitInv == ASSUME FDSAssumption PROVE Init => IInv
<1> SUFFICES ASSUME Init PROVE IInv
  OBVIOUS
<1>1. 0 \in Sides BY DEF FDSAssumption, Sides
<1>2. 0 \in 0 .. Word - 1 /\ {} \in SUBSET {4, 64} BY DEF FDSAssumption
<1>3. accesses \in 0 .. Accesses BY DEF Init, FDSAssumption
<1>4. DiskPtr \in 0 .. Word - 1 /\ InDisk \in Sides /\ SelectDisk \in Sides /\ part \in Sides
      /\ writeskip \in 0 .. 2 /\ reg5 \in SUBSET {4, 64}
  BY <1>1, <1>2 DEF Init
<1>5. TypeOK
  <2>1. diskdata \in [Sides -> Side] BY DEF Init, FDSAssumption
  <2>2. reg3 \in BOOLEAN /\ cut \in BOOLEAN /\ torn \in BOOLEAN BY DEF Init
  <2>3. FDSSwitchRequested \in 0 .. 3 /\ FDSTimer \in Nat /\ file = NoFile /\ at = "game" BY DEF Init
  <2> QED BY <1>3, <1>4, <2>1, <2>2, <2>3 DEF TypeOK
<1>6. SideInDrive /\ Middle BY DEF Init, SideInDrive, Middle
<1> QED BY <1>5, <1>6 DEF IInv

-----------------------------------------------------------------------------
(* The drive. *)

LEMMA SideSelect ==
    ASSUME FDSAssumption, SelectDisk \in Sides, InDisk \in Sides \cup {NoDisk}
    PROVE  /\ Selected(InDisk, SelectDisk) \in Sides
           /\ \A sel \in Sides : Inserted(InDisk, sel) \in {NoDisk, sel}
<1>1. SelectDisk \in 0 .. TotalSides - 1 /\ TotalSides \in 1 .. 8 BY DEF Sides, FDSAssumption
<1>2. (SelectDisk + 1) % TotalSides \in 0 .. TotalSides - 1 BY <1>1
<1>3. \A n \in 0 .. TotalSides - 1 : n % 4 \in 0 .. TotalSides - 1 BY <1>1
<1> QED BY <1>1, <1>2, <1>3 DEF Selected, Inserted, Sides

\* One bit of a disk written leaves disks.
LEMMA WriteType ==
    ASSUME NEW d \in [Sides -> Side], NEW s \in Sides, NEW p, NEW v \in BOOLEAN
    PROVE  [d EXCEPT ![s][p] = v] \in [Sides -> Side]
<1> DEFINE side == [d[s] EXCEPT ![p] = v]
<1>1. side \in Side
  <2>1. d[s] \in Side OBVIOUS
  <2> QED BY <2>1 DEF Side
<1>2. [d EXCEPT ![s][p] = v] = [d EXCEPT ![s] = side] OBVIOUS
<1> HIDE DEF side
<1> QED BY <1>1, <1>2

LEMMA ChunkType ==
    ASSUME FDSAssumption, NEW state \in DriveState, Chunks(state)
    PROVE  /\ diskdata' \in [Sides -> Side] /\ SelectDisk' \in Sides
           /\ DiskPtr' \in 0 .. Word - 1 /\ writeskip' \in 0 .. 2
           /\ reg3' \in BOOLEAN /\ reg5' \in SUBSET {4, 64}
           /\ diskdata' = state.DDT /\ SelectDisk' = state.SELD
BY DEF Chunks, DriveState

-----------------------------------------------------------------------------
(* One lemma for the game, one for the player and one for the interrupt. *)

LEMMA GameInv == ASSUME FDSAssumption, IInv, Game PROVE IInv'
<1> USE DEF IInv
<1>0. /\ 0 \in Sides /\ Word \in Nat \ {0} /\ Last < Word /\ Last \in Nat /\ NoDisk \notin Sides
      /\ Size \in Nat
  BY DEF FDSAssumption, Sides, NoDisk
<1>1. CASE FDSRead4031
  <2>1. DiskPtr' \in 0 .. Word - 1
    BY <1>0, <1>1 DEF FDSRead4031, TypeOK
  <2> QED BY <1>1, <2>1 DEF FDSRead4031, Whole, TypeOK, SideInDrive, Middle, disk, switch, main
<1>2. ASSUME NEW v \in BOOLEAN, Write4023(v) PROVE IInv'
  BY <1>2 DEF Write4023, Access, Whole, TypeOK, SideInDrive, Middle, disk, switch, main, FDSAssumption
<1>3. CASE Write4024
  <2>1. accesses' \in 0 .. Accesses BY <1>3 DEF Write4024, Access, TypeOK, FDSAssumption
  <2>2. CASE writeskip > 0 /\ writeskip' = writeskip - 1 /\ Whole
    <3>1. writeskip' \in 0 .. 2 BY <2>2 DEF TypeOK
    <3> QED BY <1>3, <2>1, <2>2, <3>1
            DEF Write4024, Whole, TypeOK, SideInDrive, Middle, disk, switch, main
  <2>3. CASE /\ DiskPtr >= 2 /\ Begin("write") /\ part' = InDisk
             /\ UNCHANGED <<writeskip, torn>>
    <3>1. InDisk \in Sides BY <1>3 DEF Write4024, Writable, TypeOK
    <3>2. DiskPtr \in 2 .. Size - 1 BY <1>0, <1>3, <2>3 DEF Write4024, Writable, TypeOK
    <3> QED BY <1>3, <2>1, <2>3, <3>1, <3>2
            DEF Write4024, Begin, TypeOK, SideInDrive, Middle, disk, switch
  <2> QED BY <1>3, <2>2, <2>3 DEF Write4024
<1>4. ASSUME NEW v \in BOOLEAN, Written(v) PROVE IInv'
  <2>1. diskdata' \in [Sides -> Side]
    <3>1. PICK side \in {part, InDisk} :
            diskdata' = IF side = NoDisk THEN diskdata
                        ELSE [diskdata EXCEPT ![side][DiskPtr - 2] = v]
      BY <1>4 DEF Written
    <3>2. CASE side = NoDisk BY <3>1, <3>2 DEF TypeOK
    <3>3. CASE side # NoDisk
      <4>1. side \in Sides BY <3>3 DEF TypeOK
      <4>2. diskdata \in [Sides -> Side] BY DEF TypeOK
      <4> QED BY <3>1, <3>3, <4>1, <4>2, WriteType
    <3> QED BY <3>2, <3>3
  <2>2. at = "write" /\ at' = "game" /\ part' = 0 /\ cut' = FALSE /\ torn' = (torn \/ cut)
        /\ UNCHANGED <<disk, head, switch, file, accesses>>
    BY <1>4 DEF Written, End
  <2>3. TypeOK' BY <1>0, <2>1, <2>2 DEF TypeOK, disk, head, switch
  <2>4. SideInDrive' /\ Middle' BY <2>2 DEF SideInDrive, Middle, disk, head
  <2> QED BY <2>3, <2>4
<1>5. ASSUME NEW V \in Commands, Write4025(V) PROVE IInv'
  <2>1. (DiskPtr - 2) % Word \in 0 .. Word - 1 /\ 0 \in 0 .. Word - 1 BY <1>0 DEF TypeOK
  <2>2. DiskPtr' \in 0 .. Word - 1 /\ writeskip' \in 0 .. 2 /\ reg5' \in SUBSET {4, 64}
    BY <1>5, <2>1 DEF Write4025, Back, TypeOK
  <2> QED BY <1>5, <2>2
          DEF Write4025, Access, Whole, TypeOK, SideInDrive, Middle, disk, switch, main, FDSAssumption
<1> QED BY <1>1, <1>2, <1>3, <1>4, <1>5 DEF Game

LEMMA PlayerInv == ASSUME FDSAssumption, IInv, Player PROVE IInv'
<1> USE DEF IInv
<1>0. /\ 0 \in Sides /\ 0 \in 0 .. Word - 1 /\ NoDisk \notin Sides
      /\ diskdatao \in [Sides -> Side] /\ {} \in SUBSET {4, 64}
  BY DEF FDSAssumption, Sides, NoDisk
<1>1. CASE DecodeJoy
  BY <1>1 DEF DecodeJoy, Whole, TypeOK, SideInDrive, Middle, disk, head, main
<1>2. CASE PowerNES
  <2>1. /\ at' = "power" /\ InDisk' = 0 /\ DiskPtr' = 0 /\ writeskip' = 0 /\ reg3' = FALSE /\ reg5' = {}
        /\ UNCHANGED <<SelectDisk, diskdata, FDSSwitchRequested, FDSTimer, file, accesses, part, cut, torn>>
    BY <1>2 DEF PowerNES, FDSInit, switch
  <2>2. DiskPtr' \in 0 .. Word - 1 /\ InDisk' \in Sides /\ writeskip' \in 0 .. 2 BY <1>0, <2>1
  <2>3. reg3' \in BOOLEAN /\ reg5' \in SUBSET {4, 64} BY <2>1
  <2>4. TypeOK' BY <2>1, <2>2, <2>3 DEF TypeOK
  <2> QED BY <2>1, <2>4 DEF SideInDrive, Middle
<1>3. CASE PowerOver
  BY <1>0, <1>3 DEF PowerOver, End, TypeOK, SideInDrive, Middle, head, switch
<1>4. CASE FDSLoad
  BY <1>0, <1>4 DEF FDSLoad, Begin, TypeOK, SideInDrive, Middle, head, switch
<1>5. CASE SaveState
  <2>1. diskdata' \in [Sides -> Side] BY <1>0, <1>5, XorType DEF SaveState, PreSave, TypeOK
  <2> QED BY <1>5, <2>1 DEF SaveState, Begin, TypeOK, SideInDrive, Middle, disk, head, switch
<1>6. CASE Saved
  <2>1. diskdata' \in [Sides -> Side] BY <1>0, <1>6, XorType DEF Saved, PostSave, TypeOK
  <2>2. file'[1] \in DriveState /\ file' = <<file'[1]>>
    BY <1>6 DEF Saved, DriveState, TypeOK
  <2>3. /\ file'[1].INDI = InDisk /\ file'[1].SELD = part /\ file'[1].torn = (torn \/ cut)
        /\ at = "save" /\ at' = "game" /\ part' = 0 /\ cut' = FALSE
        /\ UNCHANGED <<disk, head, switch, accesses, torn>>
    BY <1>6 DEF Saved, End
  <2>4. TypeOK' BY <1>0, <2>1, <2>2, <2>3 DEF TypeOK, disk, head, switch
  <2>5. SideInDrive' BY <2>3 DEF SideInDrive, Middle, disk
  <2>6. Middle' BY <2>3 DEF Middle, disk
  <2> QED BY <2>4, <2>5, <2>6
<1>7. CASE LoadState
  <2>1. file[1] \in DriveState BY <1>7 DEF LoadState, TypeOK
  <2>2. Chunks(file[1]) BY <1>7 DEF LoadState
  <2> QED BY <1>7, <2>1, <2>2, ChunkType
          DEF LoadState, Begin, TypeOK, SideInDrive, Middle, switch
<1>8. CASE Loaded
  <2>1. file # NoFile /\ file[1] \in DriveState /\ at = "load" BY <1>8 DEF Loaded, End, TypeOK, Middle
  <2>2. diskdata' \in [Sides -> Side] BY <1>0, <1>8, XorType DEF Loaded, FDSStateRestore, TypeOK
  <2>3. file[1].INDI \in Sides \cup {NoDisk} /\ file[1].torn \in BOOLEAN BY <2>1 DEF DriveState
  <2>4. TypeOK' BY <1>0, <1>8, <2>2, <2>3 DEF Loaded, End, TypeOK, head, switch
  <2>5. SideInDrive' /\ Middle'
    BY <1>8, <2>1 DEF Loaded, End, SideInDrive, Middle, head
  <2> QED BY <2>4, <2>5
<1>9. CASE LoadBroken
  <2>1. accesses' \in 0 .. Accesses BY <1>9 DEF LoadBroken, Access, TypeOK, FDSAssumption
  <2>2. CASE UNCHANGED <<diskdata, head, SelectDisk>>
    BY <1>9, <2>1, <2>2 DEF LoadBroken, Begin, TypeOK, SideInDrive, Middle, head, switch
  <2>3. CASE file # NoFile /\ Chunks(file[1])
    <3>1. file[1] \in DriveState BY <2>3 DEF TypeOK
    <3> QED BY <1>9, <2>1, <2>3, <3>1, ChunkType
            DEF LoadBroken, Begin, TypeOK, SideInDrive, Middle, switch
  <2> QED BY <1>9, <2>2, <2>3 DEF LoadBroken
<1>10. CASE BrokenOff
  <2>1. diskdata' \in [Sides -> Side] BY <1>0, <1>10, XorType DEF BrokenOff, FDSStateRestore, TypeOK
  <2> QED BY <1>0, <1>10, <2>1 DEF BrokenOff, End, TypeOK, SideInDrive, Middle, disk, head, switch
<1> QED BY <1>1, <1>2, <1>3, <1>4, <1>5, <1>6, <1>7, <1>8, <1>9, <1>10 DEF Player

LEMMA RetraceInv == ASSUME FDSAssumption, IInv, copy_to_xfb PROVE IInv'
<1> USE DEF IInv
<1>1. /\ SelectDisk' \in Sides /\ InDisk' \in Sides \cup {NoDisk}
      /\ \/ InDisk' \in {NoDisk, SelectDisk'} /\ cut' = (at # "game")
         \/ UNCHANGED <<disk, cut>>
  <2>1. SelectDisk \in Sides /\ InDisk \in Sides \cup {NoDisk} BY DEF TypeOK
  <2>2. CASE EjectStep BY <2>1, <2>2, SideSelect DEF EjectStep
  <2>3. CASE InsertStep BY <2>1, <2>3, SideSelect DEF InsertStep
  <2>4. CASE EndStep \/ WaitStep BY <2>1, <2>4 DEF EndStep, WaitStep, disk
  <2> QED BY <2>2, <2>3, <2>4 DEF copy_to_xfb
<1>2. FDSSwitchRequested' \in 0 .. 3 /\ FDSTimer' \in Nat
  BY DEF copy_to_xfb, EjectStep, InsertStep, EndStep, WaitStep, TypeOK
<1>3. UNCHANGED <<diskdata, head, file, accesses, main, torn>> BY DEF copy_to_xfb
<1>4. cut' \in BOOLEAN BY <1>1 DEF TypeOK
<1>5. TypeOK' BY <1>1, <1>2, <1>3, <1>4 DEF TypeOK, head, main
<1>6. SideInDrive' BY <1>1, <1>3 DEF SideInDrive, disk, main
<1>7. Middle'
  <2>1. UNCHANGED <<diskdata, DiskPtr, file, at, part, torn>> BY <1>3 DEF head, main
  <2>2. CASE UNCHANGED <<disk, cut>> BY <2>1, <2>2 DEF Middle, disk
  <2>3. CASE InDisk' \in {NoDisk, SelectDisk'} /\ cut' = (at # "game")
    BY <2>1, <2>3 DEF Middle
  <2> QED BY <1>1, <2>2, <2>3
<1> QED BY <1>5, <1>6, <1>7

LEMMA NextInv == ASSUME FDSAssumption PROVE IInv /\ [Next]_vars => IInv'
<1>1. ASSUME IInv, UNCHANGED vars PROVE IInv'
  BY <1>1 DEF vars, disk, head, switch, main, IInv, TypeOK, SideInDrive, Middle
<1> QED BY <1>1, GameInv, PlayerInv, RetraceInv DEF Next

LEMMA Always == Spec => []IInv
<1>1. Init => IInv BY InitInv, FDSAssumption
<1>2. IInv /\ [Next]_vars => IInv' BY NextInv, FDSAssumption
<1> QED BY <1>1, <1>2, PTL DEF Spec

\* Every variable keeps its type; a head below 0 its width.
THEOREM TypeCorrect == Spec => []TypeOK
<1>1. IInv => TypeOK BY DEF IInv
<1> QED BY <1>1, Always, PTL

\* The side in the drive is the side selected, in the drive and in a state,
\* wherever the interrupt falls, unless it has come in the middle of an operation
\* on the drive or a state was read in part.
THEOREM SideSelected == Spec => []SideInDrive
<1>1. IInv => SideInDrive BY DEF IInv
<1> QED BY <1>1, Always, PTL

-----------------------------------------------------------------------------
(* FDS implements FloppyDrive. *)

LEMMA DriveInit == Init => Drive!Init
BY DEF Init, Drive!Init, Drive!Empty, NoFile, NoDisk

\* The abstract state of the drive.
inside == InDisk # NoDisk
saved  == IF file = NoFile THEN <<>> ELSE <<Xor(file[1].DDT)>>
disks  == IF at \in {"save", "load"} THEN Xor(diskdata) ELSE diskdata

\* Damage allows whatever leaves the drive torn and the saved state alone.
LEMMA Damaged ==
    ASSUME FDSAssumption, TypeOK, TypeOK', torn', UNCHANGED file
    PROVE  Drive!Damage
<1>1. diskdata' \in [Sides -> Side] /\ SelectDisk' \in Sides BY DEF TypeOK
<1>2. Xor(diskdata') \in [Sides -> Side] BY <1>1, XorType DEF FDSAssumption
<1>3. Xor(diskdata)' = Xor(diskdata') BY DEF Xor
<1>4. disks' \in [Sides -> Side] BY <1>1, <1>2, <1>3 DEF disks
<1>5. saved' = saved BY DEF saved, Xor
<1> QED BY <1>1, <1>4, <1>5 DEF Drive!Damage, disks, saved, TypeOK

LEMMA DriveStep == IInv /\ IInv' /\ [Next]_vars => [Drive!Next]_(Drive!drive)
<1> SUFFICES ASSUME IInv, IInv', [Next]_vars PROVE [Drive!Next]_(Drive!drive)
  OBVIOUS
<1> USE DEF Drive!Next, Drive!drive
<1>0. /\ FDSAssumption /\ TypeOK /\ TypeOK' /\ Middle /\ NoDisk \notin Sides
      /\ diskdatao \in [Sides -> Side] /\ diskdata \in [Sides -> Side]
      /\ SelectDisk \in Sides /\ SelectDisk' \in Sides
  <2>1. TypeOK /\ TypeOK' /\ Middle BY DEF IInv
  <2>2. NoDisk \notin Sides /\ diskdatao \in [Sides -> Side]
    BY FDSAssumption DEF NoDisk, Sides, FDSAssumption
  <2> QED BY FDSAssumption, <2>1, <2>2 DEF TypeOK
<1>1. ASSUME NEW v \in BOOLEAN, Written(v) PROVE [Drive!Next]_(Drive!drive)
  <2>1. CASE torn' 
    <3>1. UNCHANGED file BY <1>1 DEF Written
    <3> QED BY <1>0, <2>1, <3>1, Damaged
  <2>2. CASE ~torn'
    <3>1. /\ ~torn /\ ~cut /\ at = "write" /\ at' = "game" /\ part = InDisk /\ InDisk = SelectDisk
          /\ InDisk # NoDisk /\ UNCHANGED <<disk, file, torn>>
      BY <1>0, <1>1, <2>2 DEF Written, End, Middle, TypeOK
    <3>2. diskdata' = [diskdata EXCEPT ![SelectDisk][DiskPtr - 2] = v]
      BY <1>1, <3>1 DEF Written
    <3>3. \E side \in Side : diskdata' = [diskdata EXCEPT ![SelectDisk] = side]
      <4> DEFINE p == DiskPtr - 2
                 d == diskdata
      <4>1. diskdata' = [d EXCEPT ![SelectDisk][p] = v] BY <3>2
      <4>2. d \in [Sides -> Side] /\ SelectDisk \in Sides BY <1>0
      <4> HIDE DEF p, d
      <4> DEFINE side == [d[SelectDisk] EXCEPT ![p] = v]
      <4>3. d[SelectDisk] \in Side BY <4>2
      <4>4. side \in Side BY <4>3 DEF Side
      <4>5. diskdata' = [d EXCEPT ![SelectDisk] = side] BY <4>1
      <4> HIDE DEF side
      <4> QED BY <4>4, <4>5 DEF d
    <3>4. saved' = saved /\ UNCHANGED <<InDisk, SelectDisk>> BY <3>1 DEF saved, Xor, disk
    <3> QED BY <3>1, <3>3, <3>4 DEF Drive!Write, saved
  <2> QED BY <2>1, <2>2
<1>2. ASSUME Game, ~ \E v \in BOOLEAN : Written(v) PROVE [Drive!Next]_(Drive!drive)
  <2>1. UNCHANGED <<diskdata, disk, file, torn>> /\ at = "game" /\ at' \in {"game", "write"}
    BY <1>2 DEF Game, FDSRead4031, Write4023, Write4024, Write4025, Whole, Begin, main
  <2> QED BY <2>1 DEF disk, Xor
<1>3. CASE DecodeJoy
  BY <1>3 DEF DecodeJoy, Whole, disk, main, Xor
<1>4. CASE PowerNES
  <2>1. /\ at \in {"game", "loaded"} /\ at' = "power" /\ InDisk' = 0
        /\ UNCHANGED <<SelectDisk, diskdata, file, torn>>
    BY <1>4 DEF PowerNES, FDSInit
  <2> QED BY <2>1 DEF Drive!Insert, NoDisk, Xor
<1>5. CASE PowerOver
  <2>1. CASE torn'
    <3>1. UNCHANGED file BY <1>5 DEF PowerOver
    <3> QED BY <1>0, <2>1, <3>1, Damaged
  <2>2. CASE ~torn'
    <3>1. /\ at = "power" /\ at' = "game" /\ InDisk' = 0 /\ SelectDisk' = 0 /\ torn' = torn
          /\ UNCHANGED <<diskdata, file>>
      BY <1>0, <1>5, <2>2 DEF PowerOver, End, Middle, TypeOK
    <3> QED BY <3>1 DEF Drive!Power, NoDisk, Xor
  <2> QED BY <2>1, <2>2
<1>6. CASE FDSLoad
  BY <1>6 DEF FDSLoad, Begin, Drive!Load, NoDisk, Xor
<1>7. CASE SaveState
  <2>1. Xor(Xor(diskdata)) = diskdata BY <1>0, XorTwice
  <2>2. diskdata' = Xor(diskdata) /\ at = "game" /\ at' = "save" /\ UNCHANGED <<disk, file, torn>>
    BY <1>7 DEF SaveState, PreSave, Begin
  <2>3. Xor(diskdata)' = Xor(diskdata') BY DEF Xor
  <2>4. disks' = disks BY <2>1, <2>2, <2>3 DEF disks
  <2>5. saved' = saved BY <2>2 DEF saved, Xor
  <2> QED BY <2>2, <2>4, <2>5 DEF disks, saved, disk
<1>8. CASE Saved
  <2>1. /\ at = "save" /\ at' = "game" /\ diskdata' = Xor(diskdata) /\ UNCHANGED <<disk, torn>>
        /\ file' # NoFile /\ file'[1].DDT = diskdata
    BY <1>8 DEF Saved, End, PostSave, NoFile
  <2>2. disks = Xor(diskdata) /\ disks' = Xor(diskdata) BY <2>1 DEF disks
  <2>3. saved' = <<disks>>
    <3>1. Xor(file[1].DDT)' = Xor(diskdata) BY <2>1 DEF Xor
    <3> QED BY <2>1, <2>2, <3>1 DEF saved
  <2> QED BY <2>1, <2>2, <2>3 DEF Drive!Save, disks, saved, disk
<1>9. CASE LoadState
  <2>1. /\ file # NoFile /\ at = "game" /\ at' = "load" /\ diskdata' = file[1].DDT
        /\ UNCHANGED <<InDisk, file, torn>>
    BY <1>9 DEF LoadState, Begin, Chunks
  <2>2. disks' = saved[1] /\ saved # <<>> /\ saved' = saved
    BY <2>1 DEF disks, saved, Xor
  <2> QED BY <1>0, <2>1, <2>2 DEF Drive!Restore, Drive!Empty, disks, saved, TypeOK
<1>10. CASE Loaded
  <2>1. /\ file # NoFile /\ at = "load" /\ at' = "game" /\ diskdata = file[1].DDT
        /\ diskdata' = Xor(diskdata) /\ UNCHANGED file
    BY <1>0, <1>10 DEF Loaded, End, FDSStateRestore, Middle
  <2>2. disks' = saved[1] /\ saved # <<>> /\ saved' = saved
    BY <2>1 DEF disks, saved, Xor
  <2> QED BY <1>0, <2>2 DEF Drive!Restore, Drive!Empty, disks, saved, TypeOK
<1>11. CASE LoadBroken \/ BrokenOff
  <2>1. torn' /\ UNCHANGED file
    BY <1>0, <1>11 DEF LoadBroken, BrokenOff, End, Middle
  <2> QED BY <1>0, <2>1, Damaged
<1>12. CASE copy_to_xfb
  <2>1. UNCHANGED <<diskdata, file, at, torn>> BY <1>12 DEF copy_to_xfb, main
  <2>2. UNCHANGED disks /\ UNCHANGED saved BY <2>1 DEF disks, saved, Xor
  <2>3. CASE EjectStep
    BY <1>0, <2>1, <2>2, <2>3 DEF EjectStep, Inserted, Drive!Insert, disks, saved
  <2>4. CASE InsertStep
    <3>1. CASE InDisk = NoDisk
      BY <1>0, <2>1, <2>2, <2>4, <3>1 DEF InsertStep, Inserted, Drive!Change, disks, saved
    <3>2. CASE InDisk # NoDisk
      BY <1>0, <2>1, <2>2, <2>4, <3>2 DEF InsertStep, Inserted, Selected, Drive!Insert, disks, saved
    <3> QED BY <3>1, <3>2
  <2>5. CASE EndStep \/ WaitStep
    BY <2>1, <2>2, <2>5 DEF EndStep, WaitStep, disk, disks, saved
  <2> QED BY <1>12, <2>3, <2>4, <2>5 DEF copy_to_xfb
<1>13. CASE UNCHANGED vars
  BY <1>13 DEF vars, disk, main, Xor
<1> QED BY <1>1, <1>2, <1>3, <1>4, <1>5, <1>6, <1>7, <1>8, <1>9, <1>10, <1>11, <1>12, <1>13
        DEF Next, Player

\* The disks of the emulator behave as a drive with disks does, and its saved
\* states, which hold differences, as copies of the disks; of a drive that is
\* torn nothing is said but that its saved state keeps its disks.
THEOREM IsADrive == Spec => ImplementsDrive
<1>1. Init => Drive!Init BY DriveInit
<1>2. IInv /\ IInv' /\ [Next]_vars => [Drive!Next]_(Drive!drive) BY DriveStep
<1> QED BY <1>1, <1>2, Always, PTL DEF Spec, ImplementsDrive, Drive!Spec
===============================================================================
