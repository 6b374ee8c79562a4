------------------------------- MODULE Storage -------------------------------
(***************************************************************************)
(* Devices, directories and files (fileop.cpp, filebrowser.cpp), and the   *)
(* three threads that touch them: the device thread looks for devices that *)
(* were removed, the parse thread reads a directory into browserList, and  *)
(* the main thread mounts, loads, saves and browses.  The network share is *)
(* reached through module Network, whose main thread is this one.          *)
(*                                                                         *)
(* pc[t] is what thread t does next.  A step is one access to what the     *)
(* threads share, or one call of the file system: SD and USB transfers     *)
(* block, so that even the parse thread (80) lets the others run there.    *)
(***************************************************************************)
EXTENDS Network

CONSTANTS
    D,          \* the removable devices are 1 .. D, in the order of the device thread
    Cards,      \* bound: how many cards are put in, one after the other
    Chunks,     \* bound: a directory takes at most so many calls of ParseDirEntries
    Uses        \* bound: a user keeps to one of these sets of sources

Devices == 1 .. D
SMB     == D + 1

ASSUME StorageAssumption ==
    /\ D \in Nat \ {0} /\ Cards \in Nat /\ Chunks \in Nat \ {0}
    /\ Uses \subseteq SUBSET (Devices \cup {SMB}) /\ Uses # {}

VARIABLES
    pc,
    sources,            \* the sources that the user goes to
    card,               \* card[d]: the card in device d, 0 if there is none
    mount,              \* mount[d]: the card libfat has mounted as d, 0 if none
    isMounted, unmountRequired,
    at,                 \* the device that devicecallback looks at
    deviceHalt, parseHalt,
    asleep,             \* the threads that have suspended themselves
    op,                 \* main: what it does, with which device
    place,              \* main: where it goes back to
    dir,                \* the open directory and what is left of it
    listing,            \* browserList: what is missing, and is anything of
                        \* another directory in it
    chunk               \* locals of ParseDirEntries

disks   == <<sources, card, mount, isMounted, unmountRequired>>
halts   == <<deviceHalt, parseHalt, asleep>>
parsing == <<dir, listing, chunk>>
task    == <<op, place>>
vars    == <<pc, disks, at, halts, task, parsing, netvars>>

NoDir   == [open |-> FALSE, old |-> FALSE, rest |-> 0]
Listing(n) == [missing |-> n, others |-> FALSE]
NoOp    == [what |-> "none", dev |-> 1]

Init ==
    /\ NetworkInit
    /\ pc = [main |-> "menu", device |-> "look", parse |-> "suspended"]
    /\ sources \in Uses
    /\ card = [d \in Devices |-> IF d \in sources /\ d <= Cards THEN d ELSE 0]
    /\ mount = card
    /\ isMounted = [d \in Devices |-> card[d] # 0]
    /\ unmountRequired = [d \in Devices |-> FALSE]
    /\ at = 1
    /\ deviceHalt = FALSE /\ parseHalt = TRUE /\ asleep = {"parse"}
    /\ op = NoOp /\ place = "menu"
    /\ dir = NoDir /\ listing = Listing(0)
    /\ chunk = [t \in {"main", "parse"} |-> [got |-> 0, end |-> FALSE]]

At(t, l)   == pc[t] = l
Goto(t, l) == pc' = [pc EXCEPT ![t] = l]
Return     == Goto("main", place) /\ op' = NoOp /\ UNCHANGED place

-----------------------------------------------------------------------------
(* The cards. *)

Remove(d) ==
    /\ card[d] # 0
    /\ card' = [card EXCEPT ![d] = 0]
    /\ UNCHANGED <<pc, sources, mount, isMounted, unmountRequired, at, halts, task, parsing, netvars>>

Insert(d) ==
    /\ card[d] = 0 /\ d \in sources
    /\ \E c \in 1 .. Cards \ {card[e] : e \in Devices} : card' = [card EXCEPT ![d] = c]
    /\ UNCHANGED <<pc, sources, mount, isMounted, unmountRequired, at, halts, task, parsing, netvars>>

-----------------------------------------------------------------------------
(* devicecallback. *)

\* Wrong: goes one device too far.
BadNextDevice ==
    /\ at' = IF at > D THEN 1 ELSE at + 1
    /\ Goto("device", IF at > D THEN "sleep" ELSE "look")

NextDevice ==
    /\ at' = IF at = D THEN 1 ELSE at + 1
    /\ Goto("device", IF at = D THEN "sleep" ELSE "look")

DeviceLook ==
    /\ At("device", "look")
    /\ IF isMounted[at] /\ card[at] = 0 THEN Goto("device", "mark") /\ UNCHANGED at
                                       ELSE NextDevice
    /\ UNCHANGED <<disks, halts, task, parsing, netvars>>

\* Wrong: clears isMounted first.
BadDeviceMark ==
    /\ At("device", "mark")
    /\ isMounted' = [isMounted EXCEPT ![at] = FALSE]
    /\ Goto("device", "unmount")
    /\ UNCHANGED <<sources, card, mount, unmountRequired, at, halts, task, parsing, netvars>>

DeviceMark ==
    /\ At("device", "mark")
    /\ unmountRequired' = [unmountRequired EXCEPT ![at] = TRUE]
    /\ Goto("device", "unmount")
    /\ UNCHANGED <<sources, card, mount, isMounted, at, halts, task, parsing, netvars>>

\* Wrong: leaves the device mounted.
BadDeviceUnmount ==
    /\ At("device", "unmount")
    /\ NextDevice
    /\ UNCHANGED <<disks, halts, task, parsing, netvars>>

DeviceUnmount ==
    /\ At("device", "unmount")
    /\ isMounted' = [isMounted EXCEPT ![at] = FALSE]
    /\ NextDevice
    /\ UNCHANGED <<sources, card, mount, unmountRequired, halts, task, parsing, netvars>>

\* The loop that waits for a second.
DeviceSleep ==
    /\ At("device", "sleep")
    /\ Goto("device", IF deviceHalt THEN "suspend" ELSE "look")
    /\ UNCHANGED <<disks, at, halts, task, parsing, netvars>>

DeviceSuspend ==
    /\ At("device", "suspend")
    /\ asleep' = asleep \cup {"device"}
    /\ Goto("device", "suspended")
    /\ UNCHANGED <<disks, at, deviceHalt, parseHalt, task, parsing, netvars>>

DeviceWoken ==
    /\ At("device", "suspended") /\ "device" \notin asleep
    /\ Goto("device", "sleep")
    /\ UNCHANGED <<disks, at, halts, task, parsing, netvars>>

DeviceThread ==
    \/ DeviceLook \/ DeviceMark \/ DeviceUnmount \/ DeviceSleep \/ DeviceSuspend \/ DeviceWoken

-----------------------------------------------------------------------------
(* ParseDirEntries, called by thread t: the parse thread or the main thread. *)

\* Up to 20 entries; the last of them may end the directory.  Out of memory,
\* it stops the parsing.
Read(t) ==
    /\ At(t, "read")
    /\ IF ~dir.open
       THEN Goto(t, "stop") /\ UNCHANGED <<dir, chunk, parseHalt>>
       ELSE /\ Goto(t, "count")
            /\ IF parseHalt \/ dir.rest = 0
               THEN /\ chunk' = [chunk EXCEPT ![t] = [got |-> 0, end |-> TRUE]]
                    /\ UNCHANGED <<dir, parseHalt>>
               ELSE /\ \E end \in {dir.rest = 1, FALSE} :
                          chunk' = [chunk EXCEPT ![t] = [got |-> 1, end |-> end]]
                    /\ dir' = [dir EXCEPT !.rest = @ - 1]
                    /\ parseHalt' \in BOOLEAN
    /\ UNCHANGED <<disks, at, deviceHalt, asleep, task, listing, netvars>>

\* Sorting the list and adding to numEntries.
Count(t) ==
    /\ At(t, "count")
    /\ listing' = IF parseHalt \/ chunk[t].got = 0 THEN listing
                  ELSE [missing |-> IF dir.old THEN listing.missing ELSE listing.missing - 1,
                        others |-> listing.others \/ dir.old]
    /\ Goto(t, "close")
    /\ UNCHANGED <<disks, at, halts, task, dir, chunk, netvars>>

\* The parse thread goes on with the next entries, the main thread returns.
Close(t) ==
    /\ At(t, "close")
    /\ IF chunk[t].end \/ parseHalt THEN dir' = NoDir /\ Goto(t, "stop")
       ELSE UNCHANGED dir /\ Goto(t, IF t = "main" THEN "stop" ELSE "read")
    /\ chunk' = [chunk EXCEPT ![t] = [got |-> 0, end |-> FALSE]]
    /\ UNCHANGED <<disks, at, halts, task, listing, netvars>>

ParseDirEntries(t) == Read(t) \/ Count(t) \/ Close(t)

ParseSuspend ==
    /\ At("parse", "stop")
    /\ asleep' = asleep \cup {"parse"}
    /\ Goto("parse", "suspended")
    /\ UNCHANGED <<disks, at, deviceHalt, parseHalt, task, parsing, netvars>>

ParseWoken ==
    /\ At("parse", "suspended") /\ "parse" \notin asleep
    /\ Goto("parse", "read")
    /\ UNCHANGED <<disks, at, halts, task, parsing, netvars>>

ParseThread == ParseDirEntries("parse") \/ ParseSuspend \/ ParseWoken

-----------------------------------------------------------------------------
(* The main thread. *)

\* LoadFile, SaveFile, and the game, which begins and ends with the same calls.
HaltDevice ==
    /\ pc["main"] \in {"browser", "menu"}
    /\ \E w \in {"load", "save", "game"}, d \in sources :
          /\ w = "game" => At("main", "menu")
          /\ op' = [what |-> w, dev |-> d] /\ place' = pc["main"]
    /\ deviceHalt' = TRUE
    /\ Goto("main", "haltDevice")
    /\ UNCHANGED <<disks, at, parseHalt, asleep, parsing, netvars>>

\* Wrong: does not wait until the device thread has suspended itself.
BadDeviceHalted ==
    /\ At("main", "haltDevice")
    /\ IF op.what = "game" THEN Goto("main", "game") /\ UNCHANGED parseHalt
                           ELSE Goto("main", "haltParse") /\ parseHalt' = TRUE
    /\ UNCHANGED <<disks, at, deviceHalt, asleep, task, parsing, netvars>>

DeviceHalted ==
    /\ At("main", "haltDevice") /\ "device" \in asleep
    /\ IF op.what = "game" THEN Goto("main", "game") /\ UNCHANGED parseHalt
                           ELSE Goto("main", "haltParse") /\ parseHalt' = TRUE
    /\ UNCHANGED <<disks, at, deviceHalt, asleep, task, parsing, netvars>>

\* BrowserChangeFolder, and the end of MenuGameSelection.
HaltParse ==
    /\ \/ /\ pc["main"] \in {"browser", "menu"}
          /\ \E d \in sources : op' = [what |-> "folder", dev |-> d]
          /\ place' = "browser"
       \/ /\ At("main", "browser")
          /\ op' = [op EXCEPT !.what = "leave"] /\ place' = "menu"
    /\ parseHalt' = TRUE
    /\ Goto("main", "haltParse")
    /\ UNCHANGED <<disks, at, deviceHalt, asleep, parsing, netvars>>

\* Wrong: does not wait until the parse thread has suspended itself.
BadParseHalted ==
    /\ At("main", "haltParse")
    /\ IF op.what = "leave" THEN Return
       ELSE Goto("main", IF op.what = "folder" THEN "reset" ELSE "change") /\ UNCHANGED task
    /\ UNCHANGED <<disks, at, halts, parsing, netvars>>

ParseHalted ==
    /\ At("main", "haltParse") /\ "parse" \in asleep
    /\ IF op.what = "leave" THEN Return
       ELSE Goto("main", IF op.what = "folder" THEN "reset" ELSE "change") /\ UNCHANGED task
    /\ UNCHANGED <<disks, at, halts, parsing, netvars>>

\* MenuGameSaves parses the save directory without halting the parse thread.
MenuGameSaves ==
    /\ At("main", "menu")
    /\ \E d \in sources : op' = [what |-> "saves", dev |-> d]
    /\ place' = "menu"
    /\ Goto("main", "reset")
    /\ UNCHANGED <<disks, at, halts, parsing, netvars>>

\* ParseDirectory up to its loop, which is for a directory that is not open.
Reset ==
    /\ At("main", "reset")
    /\ listing' = Listing(0) /\ dir' = [dir EXCEPT !.old = dir.open]
    /\ Goto("main", IF ~dir.open THEN "change" ELSE "first")
    /\ UNCHANGED <<disks, at, halts, task, chunk, netvars>>

-----------------------------------------------------------------------------
(* ChangeInterface.  It returns to "use" or to "refused". *)

ChangeInterface ==
    /\ At("main", "change")
    /\ IF op.dev = SMB THEN main' = "stop" /\ Goto("main", "share")
       ELSE UNCHANGED main /\ Goto("main", IF isMounted[op.dev] THEN "use" ELSE "mount")
    /\ UNCHANGED <<disks, at, halts, task, parsing, thread, netHalt, networkInit, prevInit, net>>

\* ConnectShare after InitializeNetwork.
ConnectShare ==
    /\ At("main", "share") /\ main = "idle"
    /\ \/ Goto("main", "refused")
       \/ networkInit /\ Goto("main", "use")
    /\ UNCHANGED <<disks, at, halts, task, parsing, netvars>>

\* MountFAT: what it does before its loop.
Mount ==
    /\ At("main", "mount")
    /\ IF unmountRequired[op.dev]
       THEN /\ unmountRequired' = [unmountRequired EXCEPT ![op.dev] = FALSE]
            /\ mount' = [mount EXCEPT ![op.dev] = 0]
            /\ isMounted' = [isMounted EXCEPT ![op.dev] = FALSE]
       ELSE UNCHANGED <<mount, isMounted, unmountRequired>>
    /\ Goto("main", "startup")
    /\ UNCHANGED <<sources, card, at, halts, task, parsing, netvars>>

\* The loop: libfat keeps a device that is mounted already.
Startup ==
    /\ At("main", "startup")
    /\ \/ /\ card[op.dev] # 0
          /\ mount' = [mount EXCEPT ![op.dev] = IF @ = 0 THEN card[op.dev] ELSE @]
          /\ isMounted' = [isMounted EXCEPT ![op.dev] = TRUE]
          /\ Goto("main", "use")
       \/ /\ isMounted' = [isMounted EXCEPT ![op.dev] = FALSE]
          /\ Goto("main", "refused")
          /\ UNCHANGED mount
    /\ UNCHANGED <<sources, card, unmountRequired, at, halts, task, parsing, netvars>>

\* The caller gives up; ParseDirectory leaves the list of the devices.
Refused ==
    /\ At("main", "refused")
    /\ IF op.what \in {"load", "save"} THEN Goto("main", "finish") /\ UNCHANGED task ELSE Return
    /\ UNCHANGED <<disks, at, halts, parsing, netvars>>

\* The user answers the prompt.
Retry ==
    /\ At("main", "again")
    /\ Goto("main", "change") \/ Goto("main", "refused")
    /\ UNCHANGED <<disks, at, halts, task, parsing, netvars>>

-----------------------------------------------------------------------------
(* What the callers do with the device. *)

Readable == IF op.dev = SMB THEN TRUE ELSE card[op.dev] # 0

\* LoadFile and SaveFile: a transfer that fails asks for the device to be
\* unmounted, a file that cannot be opened does not.
Transfer ==
    /\ At("main", "use") /\ op.what \in {"load", "save"}
    /\ \/ Readable /\ Goto("main", "finish") /\ UNCHANGED unmountRequired
       \/ Goto("main", "again") /\ UNCHANGED unmountRequired
       \/ /\ op.dev \in Devices
          /\ unmountRequired' = [unmountRequired EXCEPT ![op.dev] = TRUE]
          /\ Goto("main", "again")
    /\ UNCHANGED <<sources, card, mount, isMounted, at, halts, task, parsing, netvars>>

\* ParseDirectory: opendir, also of a directory further up.
OpenDir ==
    /\ At("main", "use") /\ op.what \in {"folder", "saves"}
    /\ \/ /\ Readable
          /\ \E n \in 0 .. Chunks : /\ dir' = [open |-> TRUE, old |-> FALSE, rest |-> n]
                                    /\ listing' = Listing(n)
          /\ Goto("main", "first")
       \/ Goto("main", "again") /\ UNCHANGED <<dir, listing>>
    /\ UNCHANGED <<disks, at, halts, task, chunk, netvars>>

ParseFirst ==
    /\ At("main", "first")
    /\ parseHalt' = FALSE
    /\ Goto("main", "read")
    /\ UNCHANGED <<disks, at, deviceHalt, asleep, task, parsing, netvars>>

\* The parse thread reads the rest; MenuGameSaves waits for it.
ParseRest ==
    /\ At("main", "stop")
    /\ asleep' = asleep \ {"parse"}
    /\ IF op.what = "saves" THEN Goto("main", "waitParse") /\ UNCHANGED task ELSE Return
    /\ UNCHANGED <<disks, at, deviceHalt, parseHalt, parsing, netvars>>

ParseWait ==
    /\ At("main", "waitParse") /\ "parse" \in asleep
    /\ Return
    /\ UNCHANGED <<disks, at, halts, parsing, netvars>>

\* ResumeDeviceThread, after a transfer and when the game is over.
ResumeDevice ==
    /\ At("main", "finish") \/ At("main", "game")
    /\ deviceHalt' = FALSE
    /\ Goto("main", "wakeDevice")
    /\ UNCHANGED <<disks, at, parseHalt, asleep, task, parsing, netvars>>

WakeDevice ==
    /\ At("main", "wakeDevice")
    /\ asleep' = asleep \ {"device"}
    /\ Return
    /\ UNCHANGED <<disks, at, deviceHalt, parseHalt, parsing, netvars>>

MainThread ==
    \/ HaltDevice \/ DeviceHalted \/ HaltParse \/ ParseHalted \/ MenuGameSaves \/ Reset
    \/ ChangeInterface \/ ConnectShare \/ Mount \/ Startup \/ Refused \/ Retry
    \/ Transfer \/ OpenDir \/ ParseFirst \/ ParseDirEntries("main") \/ ParseRest \/ ParseWait
    \/ ResumeDevice \/ WakeDevice

\* The parts of Network run beside the rest, and are left out where nobody uses
\* the share: nothing else reads what they write.
Networking(A) == SMB \in sources /\ A /\ UNCHANGED <<pc, disks, at, halts, task, parsing>>

Next ==
    \/ DeviceThread \/ ParseThread \/ MainThread
    \/ Networking(InitializeNetwork) \/ Networking(NetworkThread) \/ Networking(NetworkDown)
    \/ \E d \in Devices : Remove(d) \/ Insert(d)

Spec     == Init /\ [][Next]_vars
FairSpec ==
    /\ Spec
    /\ WF_vars(DeviceThread) /\ WF_vars(ParseThread) /\ WF_vars(MainThread)
    /\ WF_vars(Networking(InitializeNetwork)) /\ WF_vars(Networking(NetworkThread))

-----------------------------------------------------------------------------
MainLabels ==
    {"menu", "browser", "game", "haltDevice", "haltParse", "reset", "change", "share", "mount",
     "startup", "refused", "again", "use", "first", "read", "count", "close", "stop",
     "waitParse", "finish", "wakeDevice"}

TypeOK ==
    /\ NetworkTypeOK
    /\ sources \in Uses
    /\ pc \in [main : MainLabels,
               device : {"look", "mark", "unmount", "sleep", "suspend", "suspended"},
               parse : {"read", "count", "close", "stop", "suspended"}]
    /\ card \in [Devices -> 0 .. Cards] /\ mount \in [Devices -> 0 .. Cards]
    /\ isMounted \in [Devices -> BOOLEAN] /\ unmountRequired \in [Devices -> BOOLEAN]
    /\ at \in Devices
    /\ deviceHalt \in BOOLEAN /\ parseHalt \in BOOLEAN /\ asleep \subseteq {"device", "parse"}
    /\ op \in [what : {"none", "load", "save", "game", "folder", "leave", "saves"},
               dev : 1 .. SMB]
    /\ place \in {"menu", "browser"}
    /\ dir \in [open : BOOLEAN, old : BOOLEAN, rest : 0 .. Chunks]
    /\ listing \in [missing : 0 .. Chunks, others : BOOLEAN]
    /\ chunk \in [{"main", "parse"} -> [got : 0 .. 1, end : BOOLEAN]]

\* Whatever counts as mounted libfat has mounted, and what libfat still has
\* while it does not count as mounted will be unmounted before it is mounted
\* again: a device is mounted afresh, although the device thread may find it
\* removed at any moment.
MountKnown ==
    /\ \A d \in Devices : /\ isMounted[d] => mount[d] # 0
                          /\ mount[d] # 0 /\ ~isMounted[d] => unmountRequired[d]
    /\ At("main", "startup") => mount[op.dev] = 0

\* While a file is loaded or saved and while a game runs the device thread
\* changes nothing: "stop checking if devices were removed/inserted since
\* we're loading a file".
Quiet ==
    \/ At("main", "game")
    \/ op.what \in {"load", "save"}
       /\ pc["main"] \in {"haltParse", "change", "share", "mount", "startup", "use", "again"}
DeviceQuiet == [][Quiet /\ Quiet' => pc'["device"] = pc["device"]]_vars

\* The list never shows entries of another directory than the one opened last,
\* and a list whose parsing was not halted is complete when the parse thread rests,
\* with every entry once.
Parsing == pc["main"] \in {"reset", "change", "share", "mount", "startup", "use", "again",
                           "refused", "first", "read", "count", "close", "stop"}
ListComplete ==
    /\ ~listing.others
    /\ "parse" \in asleep /\ ~parseHalt /\ ~Parsing => listing.missing = 0

\* A device that is removed and stays out is noticed, unless the device thread
\* is asked to stop meanwhile.
RemovalNoticed ==
    \A d \in Devices :
        (isMounted[d] /\ card[d] = 0) ~> (~isMounted[d] \/ card[d] # 0 \/ deviceHalt)

\* No wait of the main thread for another thread lasts for ever.
WaitsEnd ==
    /\ \A l \in {"haltDevice", "haltParse", "waitParse"} : At("main", l) ~> ~At("main", l)
    /\ (main = "join") ~> (main # "join")
==============================================================================
