--------------------------------- MODULE FDS ---------------------------------
(***************************************************************************)
(* The Famicom Disk System (fceultra/fds.cpp): the drive and its disks,    *)
(* the button that changes the disk (pad.cpp, gcvideo.cpp), and the saved  *)
(* states, which hold the disks as differences from the originals.         *)
(*                                                                         *)
(* The change of disks runs in the interrupt after each retrace, which may *)
(* fall at any point of the main thread: an operation of that thread that  *)
(* looks at the drive more than once is two actions, and the interrupt may *)
(* come between them.                                                      *)
(*                                                                         *)
(* A byte of a disk is one bit here, so that exclusive or is #.  The       *)
(* emulated interrupts and timer, and the sound of fds.cpp, are left out,  *)
(* and so are the bytes that a read returns.                               *)
(***************************************************************************)
EXTENDS Integers

CONSTANTS
    TotalSides,
    Size, Last,     \* bytes of a side (65500); where reading stops (64999)
    Word,           \* DiskPtr is an unsigned number below Word (2^32)
    Eject, Settle,  \* retraces that the second step and the end wait for (60, 200)
    diskdatao,      \* the disks of the game's file
    Commands,       \* what is written to 4025: its bits among 2, 4, 16 and 64
    Accesses        \* bound: writes to the drive and states read in part

Sides == 0 .. TotalSides - 1
Side  == [0 .. Size - 1 -> BOOLEAN]

ASSUME FDSAssumption ==
    /\ TotalSides \in 1 .. 8
    /\ Size \in Nat /\ Last \in Nat /\ Word \in Nat
    /\ 2 < Size /\ Last < Size /\ Size < Word
    /\ Eject \in Nat /\ Settle \in Nat /\ Accesses \in Nat
    /\ diskdatao \in [Sides -> Side]
    /\ Commands \subseteq SUBSET {2, 4, 16, 64}

VARIABLES
    diskdata,
    InDisk, SelectDisk,
    DiskPtr, writeskip,
    reg3, reg5,                     \* the bits of FDSRegs that the drive looks at
    FDSSwitchRequested, FDSTimer,
    file,                           \* <<the saved state>>, or NoFile
    accesses,
    at, part,       \* what the main thread is in the middle of; what it read there
    cut, torn       \* history: has the change of disks come between the two steps
                    \* of what is under way; may the drive be damaged by that, or by
                    \* a state that was not all read

disk == <<InDisk, SelectDisk>>
head == <<DiskPtr, writeskip, reg3, reg5>>
switch == <<FDSSwitchRequested, FDSTimer>>
main == <<at, part>>
vars == <<diskdata, disk, head, switch, file, accesses, main, cut, torn>>

NoDisk == 255
NoFile == <<>>

-----------------------------------------------------------------------------
(* The two steps of an operation of the main thread. *)

Begin(what) == at = "game" /\ at' = what /\ UNCHANGED cut
End(what)   == at = what /\ at' = "game" /\ part' = 0 /\ cut' = FALSE
Whole       == at = "game" /\ UNCHANGED <<main, cut, torn>>

\* A game loaded: FDSLoad, then PowerNES.
Init ==
    /\ diskdata = diskdatao
    /\ InDisk = 0 /\ SelectDisk = 0
    /\ DiskPtr = 0 /\ writeskip = 0 /\ reg3 = FALSE /\ reg5 = {}
    /\ FDSSwitchRequested = 0 /\ FDSTimer = 0
    /\ file = NoFile /\ accesses = 0
    /\ at = "game" /\ part = 0 /\ cut = FALSE /\ torn = FALSE

\* FCEU_FDSInsert, FCEU_FDSSelect: what is in the drive, what is selected.
Inserted(in, sel) == IF in = NoDisk THEN sel ELSE NoDisk

Selected(in, sel) == IF in # NoDisk THEN sel ELSE ((sel + 1) % TotalSides) % 4

-----------------------------------------------------------------------------
(* The game. *)

Access == accesses < Accesses /\ accesses' = accesses + 1

\* A head that went below 0 reads what is outside the disk, and stays there.
FDSRead4031 ==
    /\ Whole
    /\ InDisk # NoDisk
    /\ DiskPtr' = IF DiskPtr < Last THEN DiskPtr + 1 ELSE DiskPtr
    /\ UNCHANGED <<diskdata, disk, writeskip, reg3, reg5, switch, file, accesses>>

Write4023(v) ==
    /\ Access /\ Whole
    /\ reg3' = v
    /\ UNCHANGED <<diskdata, disk, DiskPtr, writeskip, reg5, switch, file>>

Writable == InDisk # NoDisk /\ 4 \notin reg5 /\ reg3 /\ DiskPtr < Size

\* The drive is looked at, then the disk in it is written.
Write4024 ==
    /\ Access
    /\ Writable
    /\ \/ writeskip > 0 /\ writeskip' = writeskip - 1 /\ Whole
       \/ /\ writeskip = 0 /\ DiskPtr >= 2
          /\ Begin("write") /\ part' = InDisk
          /\ UNCHANGED <<writeskip, torn>>
    /\ UNCHANGED <<diskdata, disk, DiskPtr, reg3, reg5, switch, file>>

\* The compiler may have kept the InDisk it looked at or read it again; 255 is
\* past the end of the array of disks.
Written(v) ==
    /\ End("write")
    /\ \E side \in {part, InDisk} :
         diskdata' = IF side = NoDisk THEN diskdata
                     ELSE [diskdata EXCEPT ![side][DiskPtr - 2] = v]
    /\ torn' = (torn \/ cut)
    /\ UNCHANGED <<disk, head, switch, file, accesses>>

\* "if(DiskPtr<0) DiskPtr=0" does nothing: the number has no sign.
Back(p) == (p - 2) % Word

Write4025(V) ==
    /\ Access /\ Whole
    /\ IF InDisk = NoDisk THEN UNCHANGED <<DiskPtr, writeskip>>
       ELSE /\ DiskPtr' = IF 2 \in V THEN 0
                          ELSE IF 64 \in reg5 /\ 64 \notin V /\ 16 \notin V
                          THEN Back(DiskPtr) ELSE DiskPtr
            /\ writeskip' = IF 4 \in V THEN writeskip ELSE 2
    /\ reg5' = V \cap {4, 64}
    /\ UNCHANGED <<diskdata, disk, reg3, switch, file>>

-----------------------------------------------------------------------------
(* The player. *)

DecodeJoy ==
    /\ Whole
    /\ FDSSwitchRequested = 0 /\ FDSSwitchRequested' = 1
    /\ UNCHANGED <<diskdata, disk, head, FDSTimer, file, accesses>>

\* FDSInit, which ends with InDisk = 0 and then SelectDisk = 0.
FDSInit ==
    /\ at' = "power"
    /\ InDisk' = 0
    /\ DiskPtr' = 0 /\ writeskip' = 0 /\ reg3' = FALSE /\ reg5' = {}
    /\ UNCHANGED <<SelectDisk, diskdata, switch, file, accesses, part, cut, torn>>

PowerNES == at \in {"game", "loaded"} /\ FDSInit

PowerOver ==
    /\ End("power")
    /\ SelectDisk' = 0
    /\ torn' = (torn \/ cut)
    /\ UNCHANGED <<diskdata, InDisk, head, switch, file, accesses>>

\* The game is loaded again: what it wrote on its disks is lost.
FDSLoad ==
    /\ Begin("loaded")
    /\ diskdata' = diskdatao /\ SelectDisk' = 0 /\ InDisk' = NoDisk
    /\ torn' = FALSE
    /\ UNCHANGED <<head, switch, file, accesses, part>>

Xor(d) == [s \in Sides |-> [p \in 0 .. Size - 1 |-> d[s][p] # diskdatao[s][p]]]

PreSave(d)  == Xor(d)
PostSave(d) == Xor(d)

\* The disks turned into differences, the chunks written up to SELD.
SaveState ==
    /\ Begin("save")
    /\ diskdata' = PreSave(diskdata)
    /\ part' = SelectDisk
    /\ UNCHANGED <<disk, head, switch, file, accesses, torn>>

\* INDI written, and the disks turned back.
Saved ==
    /\ End("save")
    /\ file' = <<[DDT |-> diskdata, SELD |-> part, INDI |-> InDisk, DPTR |-> DiskPtr,
                  WSKI |-> writeskip, FREG |-> <<reg3, reg5>>, torn |-> torn \/ cut]>>
    /\ diskdata' = PostSave(diskdata)
    /\ UNCHANGED <<disk, head, switch, accesses, torn>>

\* Wrong: takes the differences for the disks.
BadFDSStateRestore(d) == d

FDSStateRestore(d) == Xor(d)

\* The chunks up to SELD are read.
Chunks(state) ==
    /\ diskdata' = state.DDT
    /\ DiskPtr' = state.DPTR /\ writeskip' = state.WSKI
    /\ reg3' = state.FREG[1] /\ reg5' = state.FREG[2]
    /\ SelectDisk' = state.SELD

\* Wrong: which side was selected is not in the state.
BadLoadState ==
    /\ file # NoFile
    /\ Begin("load")
    /\ diskdata' = file[1].DDT
    /\ UNCHANGED <<disk, head, switch, file, accesses, part, torn>>

LoadState ==
    /\ file # NoFile
    /\ Begin("load")
    /\ Chunks(file[1])
    /\ UNCHANGED <<InDisk, switch, file, accesses, part, torn>>

\* INDI is read, and the differences become disks.
Loaded ==
    /\ End("load")
    /\ InDisk' = file[1].INDI
    /\ diskdata' = FDSStateRestore(diskdata)
    /\ torn' = (file[1].torn \/ cut)
    /\ UNCHANGED <<SelectDisk, head, switch, file, accesses>>

\* A state that this program did not write need not be compressed, and one cut
\* short is noticed only while it is read: none of its chunks, or only those up
\* to SELD, reach the drive.
LoadBroken ==
    /\ Access
    /\ Begin("broken")
    /\ \/ UNCHANGED <<diskdata, head, SelectDisk>>
       \/ file # NoFile /\ Chunks(file[1])
    /\ torn' = TRUE
    /\ UNCHANGED <<InDisk, switch, file, part>>

\* FDSStateRestore is called all the same.
BrokenOff ==
    /\ End("broken")
    /\ diskdata' = FDSStateRestore(diskdata)
    /\ UNCHANGED <<disk, head, switch, file, accesses, torn>>

-----------------------------------------------------------------------------
(* copy_to_xfb (gcvideo.cpp), the interrupt after each retrace: the change *)
(* of disks.                                                               *)

EjectStep ==
    /\ FDSSwitchRequested = 1 /\ FDSSwitchRequested' = 2
    /\ InDisk' = Inserted(InDisk, SelectDisk)
    /\ FDSTimer' = 1 /\ cut' = (at # "game")
    /\ UNCHANGED SelectDisk

InsertStep ==
    /\ FDSSwitchRequested = 2 /\ FDSTimer > Eject
    /\ FDSSwitchRequested' = 3
    /\ SelectDisk' = Selected(InDisk, SelectDisk)
    /\ InDisk' = Inserted(InDisk, SelectDisk')
    /\ FDSTimer' = 1 /\ cut' = (at # "game")

\* Wrong: never over.
BadEndStep == FALSE

EndStep ==
    /\ FDSSwitchRequested = 3 /\ FDSTimer > Settle
    /\ FDSSwitchRequested' = 0 /\ FDSTimer' = 1
    /\ UNCHANGED <<disk, cut>>

WaitStep ==
    /\ \/ FDSSwitchRequested = 2 /\ FDSTimer <= Eject
       \/ FDSSwitchRequested = 3 /\ FDSTimer <= Settle
    /\ FDSTimer' = FDSTimer + 1
    /\ UNCHANGED <<FDSSwitchRequested, disk, cut>>

copy_to_xfb ==
    /\ EjectStep \/ InsertStep \/ EndStep \/ WaitStep
    /\ UNCHANGED <<diskdata, head, file, accesses, main, torn>>

-----------------------------------------------------------------------------
Game ==
    \/ FDSRead4031 \/ Write4024
    \/ \E v \in BOOLEAN : Write4023(v) \/ Written(v)
    \/ \E V \in Commands : Write4025(V)

Player ==
    \/ DecodeJoy \/ PowerNES \/ PowerOver \/ FDSLoad
    \/ SaveState \/ Saved \/ LoadState \/ Loaded \/ LoadBroken \/ BrokenOff

Next == Game \/ Player \/ copy_to_xfb

Spec     == Init /\ [][Next]_vars
FairSpec == Spec /\ WF_vars(copy_to_xfb)

-----------------------------------------------------------------------------
DriveState ==
    [DDT : [Sides -> Side], SELD : Sides, INDI : Sides \cup {NoDisk},
     DPTR : 0 .. Word - 1, WSKI : 0 .. 2, FREG : BOOLEAN \X SUBSET {4, 64},
     torn : BOOLEAN]

TypeOK ==
    /\ diskdata \in [Sides -> Side]
    /\ InDisk \in Sides \cup {NoDisk} /\ SelectDisk \in Sides
    /\ DiskPtr \in 0 .. Word - 1 /\ writeskip \in 0 .. 2
    /\ reg3 \in BOOLEAN /\ reg5 \in SUBSET {4, 64}
    /\ FDSSwitchRequested \in 0 .. 3 /\ FDSTimer \in Nat
    /\ file = NoFile \/ (file = <<file[1]>> /\ file[1] \in DriveState)
    /\ accesses \in 0 .. Accesses
    /\ at \in {"game", "write", "power", "loaded", "save", "load", "broken"}
    /\ part \in Sides /\ cut \in BOOLEAN /\ torn \in BOOLEAN

\* The side in the drive is the side selected, when the game runs and after any
\* state that can be loaded: FCEU_FDSSelect refuses to work on a drive that is
\* not empty, and what a state holds of the two belongs together.  Not so (torn)
\* once the change of disks has come in the middle of a save, a restore, a write
\* or a reset, or a state was read in part.
SideInDrive ==
    /\ at = "game" /\ ~torn => InDisk \in {NoDisk, SelectDisk}
    /\ file # NoFile /\ ~file[1].torn => file[1].INDI \in {NoDisk, file[1].SELD}

\* What "need to eject, select, and insert" (gcvideo.cpp) is for: after the
\* second step a disk is in the drive.
DiskSwitched == FDSSwitchRequested = 3 /\ FDSTimer = 1 => InDisk # NoDisk

\* A change of disks is over some time, and the button works again, whatever is
\* loaded or reset in between.
RequestOver == FDSSwitchRequested # 0 ~> FDSSwitchRequested = 0

\* The drive, its disks and the saved state are those of FloppyDrive: only the
\* side selected is written, what a state holds are differences, and the disks
\* come back from them.  A drive that is torn may be damaged, but not the disks
\* in the saved state.
Drive == INSTANCE FloppyDrive
         WITH First <- 0, Data <- Side, Original <- diskdatao,
              disks <- IF at \in {"save", "load"} THEN Xor(diskdata) ELSE diskdata,
              chosen <- SelectDisk, inside <- InDisk # NoDisk,
              saved <- IF file = NoFile THEN <<>> ELSE <<Xor(file[1].DDT)>>,
              damaged <- torn

ImplementsDrive == Drive!Spec
===============================================================================
