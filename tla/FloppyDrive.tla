----------------------------- MODULE FloppyDrive -----------------------------
(***************************************************************************)
(* What the emulated disk drive promises: sides of data, at most one in    *)
(* the drive; only that one is written; another is chosen only while the   *)
(* drive is empty; and a saved state brings back every side as it was.     *)
(* A drive that comes to damage promises nothing of its disks until they   *)
(* are restored or loaded again.                                           *)
(***************************************************************************)
CONSTANTS
    Sides, First,       \* the sides, and the one in the drive at power on
    Data,               \* what a side may hold
    Original            \* what the sides of the game hold

Empty == <<>>

VARIABLES
    disks,          \* what each side holds
    chosen, inside, \* the side to insert; is it in the drive
    saved,          \* <<the sides as they were when the state was saved>>, or Empty
    damaged         \* may the drive have come to damage

drive == <<disks, chosen, inside, saved, damaged>>

Init ==
    /\ disks = Original /\ chosen = First /\ inside = TRUE
    /\ saved = Empty /\ damaged = FALSE

Write ==
    /\ inside
    /\ \E d \in Data : disks' = [disks EXCEPT ![chosen] = d]
    /\ UNCHANGED <<chosen, inside, saved, damaged>>

\* Ejects, inserts, or ejects what a choice could not be made for.
Insert == inside' = ~inside /\ UNCHANGED <<disks, chosen, saved, damaged>>

Change ==
    /\ ~inside /\ inside' = TRUE /\ chosen' \in Sides
    /\ UNCHANGED <<disks, saved, damaged>>

Power ==
    /\ chosen' = First /\ inside' = TRUE
    /\ UNCHANGED <<disks, saved, damaged>>

Load ==
    /\ disks' = Original /\ chosen' = First /\ inside' = FALSE /\ damaged' = FALSE
    /\ UNCHANGED saved

Save == saved' = <<disks>> /\ UNCHANGED <<disks, chosen, inside, damaged>>

\* What the state says of the drive itself may be damaged.
Restore ==
    /\ saved # Empty /\ disks' = saved[1]
    /\ chosen' \in Sides /\ inside' \in BOOLEAN /\ damaged' \in BOOLEAN
    /\ UNCHANGED saved

Damage ==
    /\ damaged' = TRUE
    /\ disks' \in [Sides -> Data] /\ chosen' \in Sides /\ inside' \in BOOLEAN
    /\ UNCHANGED saved

Next ==
    \/ Write \/ Insert \/ Change \/ Power \/ Load
    \/ Save \/ Restore \/ Damage

Spec == Init /\ [][Next]_drive
===============================================================================
