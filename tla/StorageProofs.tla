--------------------------- MODULE StorageProofs ---------------------------
(***************************************************************************)
(* Theorems about Storage, for every number of devices, cards and pieces   *)
(* of a directory: the types, what counts as mounted, the listings, and    *)
(* the quiet of the device thread.                                         *)
(*                                                                         *)
(* IInv has a part for the devices, one for each of the two threads that   *)
(* main halts, and two for the directory: what is left of it, and what is  *)
(* on the list.  These rest on the parse thread and main never being in    *)
(* ParseDirEntries at the same time.                                       *)
(***************************************************************************)
EXTENDS Storage, TLAPS

\* TypeOK in parts, for a step changes one or two of them.
DeviceLabels == {"look", "mark", "unmount", "sleep", "suspend", "suspended"}
ParseLabels  == {"read", "count", "close", "stop", "suspended"}
PcType == pc \in [main : MainLabels, device : DeviceLabels, parse : ParseLabels]
DiskType ==
    /\ sources \in Uses
    /\ card \in [Devices -> 0 .. Cards] /\ mount \in [Devices -> 0 .. Cards]
    /\ isMounted \in [Devices -> BOOLEAN] /\ unmountRequired \in [Devices -> BOOLEAN]
    /\ at \in Devices
    /\ op \in [what : {"none", "load", "save", "game", "folder", "leave", "saves"},
               dev : 1 .. SMB]
    /\ place \in {"menu", "browser"}
HaltType == deviceHalt \in BOOLEAN /\ parseHalt \in BOOLEAN /\ asleep \subseteq {"device", "parse"}
ListType ==
    /\ dir \in [open : BOOLEAN, old : BOOLEAN, rest : 0 .. Chunks]
    /\ listing \in [missing : 0 .. Chunks, others : BOOLEAN]
    /\ chunk \in [{"main", "parse"} -> [got : 0 .. 1, end : BOOLEAN]]

\* Between its test and its assignment the device thread cannot be overtaken: a
\* device it found removed counts as mounted until the thread itself says
\* otherwise, and main mounts only what does not.
DiskInv ==
    /\ MountKnown
    /\ pc["main"] \in {"mount", "startup"} => op.dev \in Devices /\ ~isMounted[op.dev]
    /\ pc["device"] \in {"mark", "unmount"} => isMounted[at]
    /\ pc["device"] = "unmount" => unmountRequired[at]

\* The device thread sleeps from the moment main has seen it asleep to the
\* moment main wakes it.
HaltInv ==
    /\ "device" \in asleep => pc["device"] = "suspended"
    /\ \/ pc["main"] = "game"
       \/ /\ op.what \in {"load", "save"}
          /\ pc["main"] \in {"haltParse", "change", "share", "mount", "startup", "use",
                             "again", "refused", "finish"}
       => "device" \in asleep

\* The labels of main at which ParseDirectory has an open directory.
Opened == {"first", "read", "count", "close", "stop"}

\* The parse thread is awake only while main is in the browser, or waits.
ParseInv ==
    /\ "parse" \in asleep => pc["parse"] = "suspended"
    /\ "parse" \notin asleep => pc["main"] \in {"browser", "haltDevice", "haltParse", "waitParse"}
    /\ pc["main"] = "haltDevice" /\ op.what = "game" => "parse" \in asleep
    /\ op.what = "folder" => place = "browser"
    /\ pc["main"] \in Opened \cup {"reset"} => op.what \in {"folder", "saves"}

\* Nobody leaves a directory open behind.
DirInv ==
    /\ ~dir.old /\ ~listing.others
    /\ ~dir.open => dir.rest = 0
    /\ dir.open => "parse" \notin asleep \/ pc["main"] \in Opened
    /\ pc["parse"] = "stop" => ~dir.open

\* What thread t has read and not yet counted.
Pending(t) == IF pc[t] = "count" THEN chunk[t].got ELSE 0

\* What the list misses is still in the directory, or in a thread's hands, and
\* the end is found only there.
ListInv ==
    /\ ~parseHalt \/ pc["main"] = "first" =>
          listing.missing = dir.rest + Pending("main") + Pending("parse")
    /\ \A t \in {"main", "parse"} :
          pc[t] \in {"count", "close"} /\ chunk[t].end /\ ~parseHalt => dir.rest = 0

IInv == TypeOK /\ DiskInv /\ HaltInv /\ ParseInv /\ DirInv /\ ListInv
-----------------------------------------------------------------------------
\* What the threads of this module share is out of reach of the network's own.
LEMMA NetworkApart ==
    ASSUME Networking(InitializeNetwork) \/ Networking(NetworkThread) \/ Networking(NetworkDown)
    PROVE  UNCHANGED <<pc, disks, at, halts, task, parsing>>
BY DEF Networking

\* A thread that goes somewhere moves nobody else.
LEMMA Moves ==
    ASSUME TypeOK
    PROVE  \A l : /\ Goto("main", l) => pc'["main"] = l /\ pc'["device"] = pc["device"]
                                                       /\ pc'["parse"] = pc["parse"]
                  /\ Goto("device", l) => pc'["device"] = l /\ pc'["main"] = pc["main"]
                                                           /\ pc'["parse"] = pc["parse"]
                  /\ Goto("parse", l) => pc'["parse"] = l /\ pc'["main"] = pc["main"]
                                                         /\ pc'["device"] = pc["device"]
BY DEF TypeOK, Goto

\* The steps of Network keep its types.
LEMMA NetworkTypes ==
    ASSUME NetworkTypeOK, InitializeNetwork \/ NetworkThread \/ NetworkDown
    PROVE  NetworkTypeOK'
<1>1. CASE InitializeNetwork
  BY <1>1 DEF NetworkTypeOK, InitializeNetwork, StopNetworkThread, StopResume, StopJoin, Woken,
     InitializeTest, InitializeReset, Start, InitializeWait, InitializeLook
<1>2. CASE NetworkThread
  BY <1>2 DEF NetworkTypeOK, NetworkThread, ThreadInit, ThreadTell, ThreadSuspend, ThreadLoop
<1>3. CASE NetworkDown
  BY <1>3 DEF NetworkTypeOK, NetworkDown
<1>4. QED
  BY <1>1, <1>2, <1>3

\* The steps of Next, by what they may change.
LEMMA Steps ==
    ASSUME [Next]_vars
    PROVE  \/ DeviceThread \/ ParseThread \/ MainThread
           \/ \E d \in Devices : Remove(d) \/ Insert(d)
           \/ /\ UNCHANGED <<pc, disks, at, halts, task, parsing>>
              /\ InitializeNetwork \/ NetworkThread \/ NetworkDown \/ UNCHANGED netvars
BY NetworkApart DEF Next, Networking, vars

\* A device that is found removed is not one that main mounts.
LEMMA DiskStep ==
    ASSUME TypeOK, DiskInv, [Next]_vars
    PROVE  DiskInv'
<1> USE Moves DEF At, disks, halts, parsing, task, MountKnown, DiskInv
<1>0. /\ mount \in [Devices -> 0 .. Cards] /\ isMounted \in [Devices -> BOOLEAN]
      /\ unmountRequired \in [Devices -> BOOLEAN] /\ at \in Devices
      /\ place \in {"menu", "browser"} /\ op.dev \in 1 .. SMB
      /\ Devices = 1 .. SMB - 1 /\ SMB \in Nat
  BY StorageAssumption DEF TypeOK, Devices, SMB
<1>1. CASE DeviceThread
  <2>1. CASE DeviceLook
    BY <1>0, <2>1 DEF DeviceLook, NextDevice
  <2>2. CASE DeviceMark
    BY <1>0, <2>2 DEF DeviceMark
  <2>3. CASE DeviceUnmount
    BY <1>0, <2>3 DEF DeviceUnmount, NextDevice
  <2>4. CASE DeviceSleep
    BY <1>0, <2>4 DEF DeviceSleep
  <2>5. CASE DeviceSuspend
    BY <1>0, <2>5 DEF DeviceSuspend
  <2>6. CASE DeviceWoken
    BY <1>0, <2>6 DEF DeviceWoken
  <2>7. QED
    BY <1>1, <2>1, <2>2, <2>3, <2>4, <2>5, <2>6 DEF DeviceThread
<1>2. CASE ParseThread
  <2>1. CASE ParseSuspend
    BY <1>0, <2>1 DEF ParseSuspend
  <2>2. CASE ParseWoken
    BY <1>0, <2>2 DEF ParseWoken
  <2>3. CASE Read("parse")
    BY <1>0, <2>3 DEF Read, NoDir
  <2>4. CASE Count("parse")
    BY <1>0, <2>4 DEF Count, NoDir
  <2>5. CASE Close("parse")
    BY <1>0, <2>5 DEF Close, NoDir
  <2>6. QED
    BY <1>2, <2>1, <2>2, <2>3, <2>4, <2>5 DEF ParseThread, ParseDirEntries
<1>3. CASE MainThread
  <2>1. CASE HaltDevice
    BY <1>0, <2>1 DEF HaltDevice
  <2>2. CASE DeviceHalted
    BY <1>0, <2>2 DEF DeviceHalted
  <2>3. CASE HaltParse
    BY <1>0, <2>3 DEF HaltParse
  <2>4. CASE ParseHalted
    BY <1>0, <2>4 DEF ParseHalted, Return, NoOp
  <2>5. CASE MenuGameSaves
    BY <1>0, <2>5 DEF MenuGameSaves
  <2>6. CASE Reset
    BY <1>0, <2>6 DEF Reset, Listing
  <2>7. CASE ChangeInterface
    BY <1>0, <2>7 DEF ChangeInterface
  <2>8. CASE ConnectShare
    BY <1>0, <2>8 DEF ConnectShare
  <2>9. CASE Mount
    <3>1. /\ op' = op /\ at' = at /\ pc'["main"] = "startup" /\ pc'["device"] = pc["device"]
          /\ op.dev \in Devices /\ ~isMounted[op.dev]
      BY <1>0, <2>9 DEF Mount
    <3>2. CASE unmountRequired[op.dev]
      <4>1. /\ unmountRequired' = [unmountRequired EXCEPT ![op.dev] = FALSE]
            /\ mount' = [mount EXCEPT ![op.dev] = 0]
            /\ isMounted' = [isMounted EXCEPT ![op.dev] = FALSE]
        BY <3>2, <2>9 DEF Mount
      <4>2. QED
        BY <1>0, <3>1, <4>1
    <3>3. CASE ~unmountRequired[op.dev]
      BY <1>0, <2>9, <3>1, <3>3 DEF Mount
    <3>4. QED
      BY <3>2, <3>3
  <2>10. CASE Startup
    <3>1. /\ op' = op /\ at' = at /\ unmountRequired' = unmountRequired
          /\ pc'["main"] \in {"use", "refused"} /\ pc'["device"] = pc["device"]
          /\ op.dev \in Devices /\ ~isMounted[op.dev] /\ mount[op.dev] = 0
      BY <1>0, <2>10 DEF Startup
    <3>2. CASE pc'["main"] = "use"
      <4>0. ~Goto("main", "refused")
        BY <3>2
      <4>1. /\ card[op.dev] # 0
            /\ mount' = [mount EXCEPT ![op.dev] = IF mount[op.dev] = 0 THEN card[op.dev] ELSE mount[op.dev]]
            /\ isMounted' = [isMounted EXCEPT ![op.dev] = TRUE]
        BY <4>0, <2>10, Zenon DEF Startup
      <4>2. QED
        BY <1>0, <3>1, <3>2, <4>1
    <3>3. CASE pc'["main"] = "refused"
      <4>1. mount' = mount /\ isMounted' = [isMounted EXCEPT ![op.dev] = FALSE]
        BY <3>3, <2>10 DEF Startup
      <4>2. QED
        BY <1>0, <3>1, <3>3, <4>1
    <3>4. QED
      BY <3>1, <3>2, <3>3
  <2>11. CASE Refused
    BY <1>0, <2>11 DEF Refused, Return, NoOp
  <2>12. CASE Retry
    BY <1>0, <2>12 DEF Retry
  <2>13. CASE Transfer
    <3>1. /\ at' = at /\ mount' = mount /\ isMounted' = isMounted
          /\ pc'["main"] \in {"finish", "again"} /\ pc'["device"] = pc["device"]
      BY <1>0, <2>13 DEF Transfer
    <3>2. CASE unmountRequired' = unmountRequired
      BY <1>0, <3>1, <3>2
    <3>3. CASE unmountRequired' = [unmountRequired EXCEPT ![op.dev] = TRUE]
      BY <1>0, <3>1, <3>3
    <3>4. QED
      BY <3>2, <3>3, <2>13 DEF Transfer
  <2>14. CASE OpenDir
    BY <1>0, <2>14 DEF OpenDir, Listing, Readable
  <2>15. CASE ParseFirst
    BY <1>0, <2>15 DEF ParseFirst
  <2>16. CASE ParseRest
    BY <1>0, <2>16 DEF ParseRest, Return, NoOp
  <2>17. CASE ParseWait
    BY <1>0, <2>17 DEF ParseWait, Return, NoOp
  <2>18. CASE ResumeDevice
    BY <1>0, <2>18 DEF ResumeDevice
  <2>19. CASE WakeDevice
    BY <1>0, <2>19 DEF WakeDevice, Return, NoOp
  <2>20. CASE Read("main")
    BY <1>0, <2>20 DEF Read, NoDir
  <2>21. CASE Count("main")
    BY <1>0, <2>21 DEF Count, NoDir
  <2>22. CASE Close("main")
    BY <1>0, <2>22 DEF Close, NoDir
  <2>23. QED
    BY <1>3, <2>1, <2>2, <2>3, <2>4, <2>5, <2>6, <2>7, <2>8, <2>9, <2>10, <2>11, <2>12, <2>13, <2>14, <2>15, <2>16, <2>17, <2>18, <2>19, <2>20, <2>21, <2>22 DEF MainThread, ParseDirEntries
<1>4. CASE \E d \in Devices : Remove(d) \/ Insert(d)
  BY <1>0, <1>4 DEF Remove, Insert
<1>5. CASE UNCHANGED <<pc, disks, at, halts, task, parsing>>
  BY <1>0, <1>5
<1>6. QED
  BY <1>1, <1>2, <1>3, <1>4, <1>5, Steps

\* Only main wakes the device thread, and only when it is done.
LEMMA HaltStep ==
    ASSUME TypeOK, ParseInv, HaltInv, [Next]_vars
    PROVE  HaltInv'
<1> USE Moves DEF At, disks, halts, parsing, task, ParseInv, HaltInv, Opened
<1>0. /\ place \in {"menu", "browser"}
      /\ op \in [what : {"none", "load", "save", "game", "folder", "leave", "saves"}, dev : 1 .. SMB]
      /\ dir \in [open : BOOLEAN, old : BOOLEAN, rest : 0 .. Chunks]
  BY DEF TypeOK
<1>1. CASE DeviceThread
  <2>1. CASE DeviceLook
    BY <1>0, <2>1 DEF DeviceLook, NextDevice
  <2>2. CASE DeviceMark
    BY <1>0, <2>2 DEF DeviceMark
  <2>3. CASE DeviceUnmount
    BY <1>0, <2>3 DEF DeviceUnmount, NextDevice
  <2>4. CASE DeviceSleep
    BY <1>0, <2>4 DEF DeviceSleep
  <2>5. CASE DeviceSuspend
    BY <1>0, <2>5 DEF DeviceSuspend
  <2>6. CASE DeviceWoken
    BY <1>0, <2>6 DEF DeviceWoken
  <2>7. QED
    BY <1>1, <2>1, <2>2, <2>3, <2>4, <2>5, <2>6 DEF DeviceThread
<1>2. CASE ParseThread
  <2>1. CASE ParseSuspend
    BY <1>0, <2>1 DEF ParseSuspend
  <2>2. CASE ParseWoken
    BY <1>0, <2>2 DEF ParseWoken
  <2>3. CASE Read("parse")
    BY <1>0, <2>3 DEF Read, NoDir
  <2>4. CASE Count("parse")
    BY <1>0, <2>4 DEF Count, NoDir
  <2>5. CASE Close("parse")
    BY <1>0, <2>5 DEF Close, NoDir
  <2>6. QED
    BY <1>2, <2>1, <2>2, <2>3, <2>4, <2>5 DEF ParseThread, ParseDirEntries
<1>3. CASE MainThread
  <2>1. CASE HaltDevice
    BY <1>0, <2>1 DEF HaltDevice
  <2>2. CASE DeviceHalted
    BY <1>0, <2>2 DEF DeviceHalted
  <2>3. CASE HaltParse
    BY <1>0, <2>3 DEF HaltParse
  <2>4. CASE ParseHalted
    BY <1>0, <2>4 DEF ParseHalted, Return, NoOp
  <2>5. CASE MenuGameSaves
    BY <1>0, <2>5 DEF MenuGameSaves
  <2>6. CASE Reset
    <3>1. /\ asleep' = asleep /\ op' = op /\ place' = place
          /\ pc["main"] = "reset" /\ op.what \in {"folder", "saves"}
          /\ pc'["device"] = pc["device"] /\ pc'["parse"] = pc["parse"]
      BY <2>6 DEF Reset
    <3>2. pc'["main"] \in {"change", "first"} /\ (pc'["main"] = "first" => dir.open)
      BY <2>6 DEF Reset
    <3>3. QED
      BY <3>1, <3>2
  <2>7. CASE ChangeInterface
    BY <1>0, <2>7 DEF ChangeInterface
  <2>8. CASE ConnectShare
    BY <1>0, <2>8 DEF ConnectShare
  <2>9. CASE Mount
    BY <1>0, <2>9 DEF Mount
  <2>10. CASE Startup
    BY <1>0, <2>10 DEF Startup
  <2>11. CASE Refused
    BY <1>0, <2>11 DEF Refused, Return, NoOp
  <2>12. CASE Retry
    BY <1>0, <2>12 DEF Retry
  <2>13. CASE Transfer
    BY <1>0, <2>13 DEF Transfer, Readable
  <2>14. CASE OpenDir
    BY <1>0, <2>14 DEF OpenDir, Listing, Readable
  <2>15. CASE ParseFirst
    BY <1>0, <2>15 DEF ParseFirst
  <2>16. CASE ParseRest
    BY <1>0, <2>16 DEF ParseRest, Return, NoOp
  <2>17. CASE ParseWait
    BY <1>0, <2>17 DEF ParseWait, Return, NoOp
  <2>18. CASE ResumeDevice
    BY <1>0, <2>18 DEF ResumeDevice
  <2>19. CASE WakeDevice
    BY <1>0, <2>19 DEF WakeDevice, Return, NoOp
  <2>20. CASE Read("main")
    BY <1>0, <2>20 DEF Read, NoDir
  <2>21. CASE Count("main")
    BY <1>0, <2>21 DEF Count, NoDir
  <2>22. CASE Close("main")
    BY <1>0, <2>22 DEF Close, NoDir
  <2>23. QED
    BY <1>3, <2>1, <2>2, <2>3, <2>4, <2>5, <2>6, <2>7, <2>8, <2>9, <2>10, <2>11, <2>12, <2>13, <2>14, <2>15, <2>16, <2>17, <2>18, <2>19, <2>20, <2>21, <2>22 DEF MainThread, ParseDirEntries
<1>4. CASE \E d \in Devices : Remove(d) \/ Insert(d)
  BY <1>0, <1>4 DEF Remove, Insert
<1>5. CASE UNCHANGED <<pc, disks, at, halts, task, parsing>>
  BY <1>0, <1>5
<1>6. QED
  BY <1>1, <1>2, <1>3, <1>4, <1>5, Steps

\* Main wakes the parse thread on its way to the browser or before it waits for
\* it, and is back in ParseDirectory only when it has seen it asleep.
LEMMA ParseStep ==
    ASSUME TypeOK, ParseInv, [Next]_vars
    PROVE  ParseInv'
<1> USE Moves DEF At, disks, halts, parsing, task, ParseInv, Opened
<1>0. /\ place \in {"menu", "browser"}
      /\ op \in [what : {"none", "load", "save", "game", "folder", "leave", "saves"}, dev : 1 .. SMB]
      /\ dir \in [open : BOOLEAN, old : BOOLEAN, rest : 0 .. Chunks]
  BY DEF TypeOK
<1>1. CASE DeviceThread
  <2>1. CASE DeviceLook
    BY <1>0, <2>1 DEF DeviceLook, NextDevice
  <2>2. CASE DeviceMark
    BY <1>0, <2>2 DEF DeviceMark
  <2>3. CASE DeviceUnmount
    BY <1>0, <2>3 DEF DeviceUnmount, NextDevice
  <2>4. CASE DeviceSleep
    BY <1>0, <2>4 DEF DeviceSleep
  <2>5. CASE DeviceSuspend
    BY <1>0, <2>5 DEF DeviceSuspend
  <2>6. CASE DeviceWoken
    BY <1>0, <2>6 DEF DeviceWoken
  <2>7. QED
    BY <1>1, <2>1, <2>2, <2>3, <2>4, <2>5, <2>6 DEF DeviceThread
<1>2. CASE ParseThread
  <2>1. CASE ParseSuspend
    BY <1>0, <2>1 DEF ParseSuspend
  <2>2. CASE ParseWoken
    BY <1>0, <2>2 DEF ParseWoken
  <2>3. CASE Read("parse")
    BY <1>0, <2>3 DEF Read, NoDir
  <2>4. CASE Count("parse")
    BY <1>0, <2>4 DEF Count, NoDir
  <2>5. CASE Close("parse")
    BY <1>0, <2>5 DEF Close, NoDir
  <2>6. QED
    BY <1>2, <2>1, <2>2, <2>3, <2>4, <2>5 DEF ParseThread, ParseDirEntries
<1>3. CASE MainThread
  <2>1. CASE HaltDevice
    BY <1>0, <2>1 DEF HaltDevice
  <2>2. CASE DeviceHalted
    BY <1>0, <2>2 DEF DeviceHalted
  <2>3. CASE HaltParse
    BY <1>0, <2>3 DEF HaltParse
  <2>4. CASE ParseHalted
    BY <1>0, <2>4 DEF ParseHalted, Return, NoOp
  <2>5. CASE MenuGameSaves
    BY <1>0, <2>5 DEF MenuGameSaves
  <2>6. CASE Reset
    <3>1. /\ asleep' = asleep /\ op' = op /\ place' = place
          /\ pc["main"] = "reset" /\ op.what \in {"folder", "saves"}
          /\ pc'["device"] = pc["device"] /\ pc'["parse"] = pc["parse"]
      BY <2>6 DEF Reset
    <3>2. pc'["main"] \in {"change", "first"} /\ (pc'["main"] = "first" => dir.open)
      BY <2>6 DEF Reset
    <3>3. QED
      BY <3>1, <3>2
  <2>7. CASE ChangeInterface
    BY <1>0, <2>7 DEF ChangeInterface
  <2>8. CASE ConnectShare
    BY <1>0, <2>8 DEF ConnectShare
  <2>9. CASE Mount
    BY <1>0, <2>9 DEF Mount
  <2>10. CASE Startup
    BY <1>0, <2>10 DEF Startup
  <2>11. CASE Refused
    BY <1>0, <2>11 DEF Refused, Return, NoOp
  <2>12. CASE Retry
    BY <1>0, <2>12 DEF Retry
  <2>13. CASE Transfer
    BY <1>0, <2>13 DEF Transfer, Readable
  <2>14. CASE OpenDir
    BY <1>0, <2>14 DEF OpenDir, Listing, Readable
  <2>15. CASE ParseFirst
    BY <1>0, <2>15 DEF ParseFirst
  <2>16. CASE ParseRest
    BY <1>0, <2>16 DEF ParseRest, Return, NoOp
  <2>17. CASE ParseWait
    BY <1>0, <2>17 DEF ParseWait, Return, NoOp
  <2>18. CASE ResumeDevice
    BY <1>0, <2>18 DEF ResumeDevice
  <2>19. CASE WakeDevice
    BY <1>0, <2>19 DEF WakeDevice, Return, NoOp
  <2>20. CASE Read("main")
    BY <1>0, <2>20 DEF Read, NoDir
  <2>21. CASE Count("main")
    BY <1>0, <2>21 DEF Count, NoDir
  <2>22. CASE Close("main")
    BY <1>0, <2>22 DEF Close, NoDir
  <2>23. QED
    BY <1>3, <2>1, <2>2, <2>3, <2>4, <2>5, <2>6, <2>7, <2>8, <2>9, <2>10, <2>11, <2>12, <2>13, <2>14, <2>15, <2>16, <2>17, <2>18, <2>19, <2>20, <2>21, <2>22 DEF MainThread, ParseDirEntries
<1>4. CASE \E d \in Devices : Remove(d) \/ Insert(d)
  BY <1>0, <1>4 DEF Remove, Insert
<1>5. CASE UNCHANGED <<pc, disks, at, halts, task, parsing>>
  BY <1>0, <1>5
<1>6. QED
  BY <1>1, <1>2, <1>3, <1>4, <1>5, Steps

\* Whoever ends the parsing has closed the directory.
LEMMA DirStep ==
    ASSUME TypeOK, ParseInv, DirInv, [Next]_vars
    PROVE  DirInv'
<1> USE Moves DEF At, disks, halts, parsing, task, ParseInv, DirInv, Opened
<1>0. /\ place \in {"menu", "browser"}
      /\ dir \in [open : BOOLEAN, old : BOOLEAN, rest : 0 .. Chunks]
      /\ listing \in [missing : 0 .. Chunks, others : BOOLEAN]
  BY DEF TypeOK
<1>1. CASE DeviceThread
  <2>1. CASE DeviceLook
    BY <1>0, <2>1 DEF DeviceLook, NextDevice
  <2>2. CASE DeviceMark
    BY <1>0, <2>2 DEF DeviceMark
  <2>3. CASE DeviceUnmount
    BY <1>0, <2>3 DEF DeviceUnmount, NextDevice
  <2>4. CASE DeviceSleep
    BY <1>0, <2>4 DEF DeviceSleep
  <2>5. CASE DeviceSuspend
    BY <1>0, <2>5 DEF DeviceSuspend
  <2>6. CASE DeviceWoken
    BY <1>0, <2>6 DEF DeviceWoken
  <2>7. QED
    BY <1>1, <2>1, <2>2, <2>3, <2>4, <2>5, <2>6 DEF DeviceThread
<1>2. CASE ParseThread
  <2>1. CASE ParseSuspend
    BY <1>0, <2>1 DEF ParseSuspend
  <2>2. CASE ParseWoken
    BY <1>0, <2>2 DEF ParseWoken
  <2>3. CASE Read("parse")
    BY <1>0, <2>3 DEF Read, NoDir
  <2>4. CASE Count("parse")
    BY <1>0, <2>4 DEF Count, NoDir
  <2>5. CASE Close("parse")
    BY <1>0, <2>5 DEF Close, NoDir
  <2>6. QED
    BY <1>2, <2>1, <2>2, <2>3, <2>4, <2>5 DEF ParseThread, ParseDirEntries
<1>3. CASE MainThread
  <2>1. CASE HaltDevice
    BY <1>0, <2>1 DEF HaltDevice
  <2>2. CASE DeviceHalted
    BY <1>0, <2>2 DEF DeviceHalted
  <2>3. CASE HaltParse
    BY <1>0, <2>3 DEF HaltParse
  <2>4. CASE ParseHalted
    BY <1>0, <2>4 DEF ParseHalted, Return, NoOp
  <2>5. CASE MenuGameSaves
    BY <1>0, <2>5 DEF MenuGameSaves
  <2>6. CASE Reset
    BY <1>0, <2>6 DEF Reset, Listing
  <2>7. CASE ChangeInterface
    BY <1>0, <2>7 DEF ChangeInterface
  <2>8. CASE ConnectShare
    BY <1>0, <2>8 DEF ConnectShare
  <2>9. CASE Mount
    BY <1>0, <2>9 DEF Mount
  <2>10. CASE Startup
    BY <1>0, <2>10 DEF Startup
  <2>11. CASE Refused
    BY <1>0, <2>11 DEF Refused, Return, NoOp
  <2>12. CASE Retry
    BY <1>0, <2>12 DEF Retry
  <2>13. CASE Transfer
    BY <1>0, <2>13 DEF Transfer, Readable
  <2>14. CASE OpenDir
    BY <1>0, <2>14 DEF OpenDir, Listing, Readable
  <2>15. CASE ParseFirst
    BY <1>0, <2>15 DEF ParseFirst
  <2>16. CASE ParseRest
    BY <1>0, <2>16 DEF ParseRest, Return, NoOp
  <2>17. CASE ParseWait
    BY <1>0, <2>17 DEF ParseWait, Return, NoOp
  <2>18. CASE ResumeDevice
    BY <1>0, <2>18 DEF ResumeDevice
  <2>19. CASE WakeDevice
    BY <1>0, <2>19 DEF WakeDevice, Return, NoOp
  <2>20. CASE Read("main")
    BY <1>0, <2>20 DEF Read, NoDir
  <2>21. CASE Count("main")
    BY <1>0, <2>21 DEF Count, NoDir
  <2>22. CASE Close("main")
    BY <1>0, <2>22 DEF Close, NoDir
  <2>23. QED
    BY <1>3, <2>1, <2>2, <2>3, <2>4, <2>5, <2>6, <2>7, <2>8, <2>9, <2>10, <2>11, <2>12, <2>13, <2>14, <2>15, <2>16, <2>17, <2>18, <2>19, <2>20, <2>21, <2>22 DEF MainThread, ParseDirEntries
<1>4. CASE \E d \in Devices : Remove(d) \/ Insert(d)
  BY <1>0, <1>4 DEF Remove, Insert
<1>5. CASE UNCHANGED <<pc, disks, at, halts, task, parsing>>
  BY <1>0, <1>5
<1>6. QED
  BY <1>1, <1>2, <1>3, <1>4, <1>5, Steps

\* What is read leaves the directory and what is counted leaves the list of
\* what is missing; an end that was seen is the end.
LEMMA ListStep ==
    ASSUME TypeOK, ParseInv, DirInv, ListInv, [Next]_vars
    PROVE  ListInv'
<1> USE Moves DEF At, disks, halts, parsing, task, ParseInv, DirInv, ListInv, Pending, Opened
<1>0. /\ place \in {"menu", "browser"}
      /\ dir \in [open : BOOLEAN, old : BOOLEAN, rest : 0 .. Chunks]
      /\ listing \in [missing : 0 .. Chunks, others : BOOLEAN]
      /\ chunk \in [{"main", "parse"} -> [got : 0 .. 1, end : BOOLEAN]]
      /\ parseHalt \in BOOLEAN /\ Chunks \in Nat
  BY StorageAssumption DEF TypeOK
<1>1. CASE DeviceThread
  <2>1. CASE DeviceLook
    BY <1>0, <2>1 DEF DeviceLook, NextDevice
  <2>2. CASE DeviceMark
    BY <1>0, <2>2 DEF DeviceMark
  <2>3. CASE DeviceUnmount
    BY <1>0, <2>3 DEF DeviceUnmount, NextDevice
  <2>4. CASE DeviceSleep
    BY <1>0, <2>4 DEF DeviceSleep
  <2>5. CASE DeviceSuspend
    BY <1>0, <2>5 DEF DeviceSuspend
  <2>6. CASE DeviceWoken
    BY <1>0, <2>6 DEF DeviceWoken
  <2>7. QED
    BY <1>1, <2>1, <2>2, <2>3, <2>4, <2>5, <2>6 DEF DeviceThread
<1>2. CASE ParseThread
  <2>1. CASE ParseSuspend
    BY <1>0, <2>1 DEF ParseSuspend
  <2>2. CASE ParseWoken
    BY <1>0, <2>2 DEF ParseWoken
  <2>3. CASE Read("parse")
    BY <1>0, <2>3 DEF Read, NoDir
  <2>4. CASE Count("parse")
    <3>1. /\ pc["parse"] = "count" /\ pc'["parse"] = "close" /\ pc'["main"] = pc["main"]
          /\ chunk' = chunk /\ dir' = dir /\ parseHalt' = parseHalt
      BY <1>0, <2>4 DEF Count
    <3>2. pc["main"] \notin Opened /\ ~dir.old
      BY <3>1
    <3>3. listing'.missing = IF parseHalt \/ chunk["parse"].got = 0 THEN listing.missing
                             ELSE listing.missing - 1
      BY <1>0, <3>2, <2>4 DEF Count
    <3>4. CASE parseHalt
      BY <3>1, <3>2, <3>4
    <3>5. CASE ~parseHalt
      <4>1. /\ listing.missing = dir.rest + chunk["parse"].got
            /\ chunk["parse"].got \in 0 .. 1
        BY <1>0, <3>1, <3>2, <3>5
      <4>2. listing'.missing = dir.rest
        BY <1>0, <3>3, <3>5, <4>1
      <4>3. QED
        BY <1>0, <3>1, <3>2, <3>5, <4>2
    <3>6. QED
      BY <3>4, <3>5
  <2>5. CASE Close("parse")
    BY <1>0, <2>5 DEF Close, NoDir
  <2>6. QED
    BY <1>2, <2>1, <2>2, <2>3, <2>4, <2>5 DEF ParseThread, ParseDirEntries
<1>3. CASE MainThread
  <2>1. CASE HaltDevice
    BY <1>0, <2>1 DEF HaltDevice
  <2>2. CASE DeviceHalted
    BY <1>0, <2>2 DEF DeviceHalted
  <2>3. CASE HaltParse
    BY <1>0, <2>3 DEF HaltParse
  <2>4. CASE ParseHalted
    BY <1>0, <2>4 DEF ParseHalted, Return, NoOp
  <2>5. CASE MenuGameSaves
    BY <1>0, <2>5 DEF MenuGameSaves
  <2>6. CASE Reset
    BY <1>0, <2>6 DEF Reset, Listing
  <2>7. CASE ChangeInterface
    BY <1>0, <2>7 DEF ChangeInterface
  <2>8. CASE ConnectShare
    BY <1>0, <2>8 DEF ConnectShare
  <2>9. CASE Mount
    BY <1>0, <2>9 DEF Mount
  <2>10. CASE Startup
    BY <1>0, <2>10 DEF Startup
  <2>11. CASE Refused
    BY <1>0, <2>11 DEF Refused, Return, NoOp
  <2>12. CASE Retry
    BY <1>0, <2>12 DEF Retry
  <2>13. CASE Transfer
    BY <1>0, <2>13 DEF Transfer, Readable
  <2>14. CASE OpenDir
    BY <1>0, <2>14 DEF OpenDir, Listing, Readable
  <2>15. CASE ParseFirst
    BY <1>0, <2>15 DEF ParseFirst
  <2>16. CASE ParseRest
    BY <1>0, <2>16 DEF ParseRest, Return, NoOp
  <2>17. CASE ParseWait
    BY <1>0, <2>17 DEF ParseWait, Return, NoOp
  <2>18. CASE ResumeDevice
    BY <1>0, <2>18 DEF ResumeDevice
  <2>19. CASE WakeDevice
    BY <1>0, <2>19 DEF WakeDevice, Return, NoOp
  <2>20. CASE Read("main")
    BY <1>0, <2>20 DEF Read, NoDir
  <2>21. CASE Count("main")
    BY <1>0, <2>21 DEF Count, NoDir
  <2>22. CASE Close("main")
    BY <1>0, <2>22 DEF Close, NoDir
  <2>23. QED
    BY <1>3, <2>1, <2>2, <2>3, <2>4, <2>5, <2>6, <2>7, <2>8, <2>9, <2>10, <2>11, <2>12, <2>13, <2>14, <2>15, <2>16, <2>17, <2>18, <2>19, <2>20, <2>21, <2>22 DEF MainThread, ParseDirEntries
<1>4. CASE \E d \in Devices : Remove(d) \/ Insert(d)
  BY <1>0, <1>4 DEF Remove, Insert
<1>5. CASE UNCHANGED <<pc, disks, at, halts, task, parsing>>
  BY <1>0, <1>5
<1>6. QED
  BY <1>1, <1>2, <1>3, <1>4, <1>5, Steps

-----------------------------------------------------------------------------
\* The parts are all of TypeOK.
LEMMA Types == TypeOK <=> NetworkTypeOK /\ PcType /\ DiskType /\ HaltType /\ ListType
BY DEF TypeOK, PcType, DiskType, HaltType, ListType, DeviceLabels, ParseLabels

\* What main and the device thread write keeps the types.
LEMMA Writes ==
    ASSUME DiskType, NEW d
    PROVE  /\ [mount EXCEPT ![d] = 0] \in [Devices -> 0 .. Cards]
           /\ [mount EXCEPT ![d] = IF mount[d] = 0 THEN card[d] ELSE mount[d]]
                 \in [Devices -> 0 .. Cards]
           /\ \A c \in 0 .. Cards : [card EXCEPT ![d] = c] \in [Devices -> 0 .. Cards]
<1>0. 0 \in 0 .. Cards
  BY StorageAssumption
<1>1. mount \in [Devices -> 0 .. Cards] /\ card \in [Devices -> 0 .. Cards]
  BY DEF DiskType
<1>2. QED
  BY <1>0, <1>1, Zenon

\* Setting a flag of a device keeps its types, whatever the device.
LEMMA Flags ==
    ASSUME DiskType, NEW d, NEW v \in BOOLEAN
    PROVE  /\ [isMounted EXCEPT ![d] = v] \in [Devices -> BOOLEAN]
           /\ [unmountRequired EXCEPT ![d] = v] \in [Devices -> BOOLEAN]
BY Zenon DEF DiskType

\* A thread that goes to a label of its own keeps the types of pc.
LEMMA Gotos ==
    ASSUME PcType
    PROVE  /\ \A l \in MainLabels : Goto("main", l) => PcType'
           /\ \A l \in DeviceLabels : Goto("device", l) => PcType'
           /\ \A l \in ParseLabels : Goto("parse", l) => PcType'
BY DEF PcType, Goto

\* Every thread goes to labels of its own; main returns to its menu or browser.
LEMMA PcStep ==
    ASSUME PcType, DiskType, [Next]_vars
    PROVE  PcType'
<1> USE Gotos DEF MainLabels, DeviceLabels, ParseLabels
<1>1. CASE DeviceThread
  BY <1>1 DEF DeviceThread, DeviceLook, DeviceMark, DeviceUnmount, DeviceSleep, DeviceSuspend,
     DeviceWoken, NextDevice
<1>2. CASE ParseThread
  BY <1>2 DEF ParseThread, ParseDirEntries, Read, Count, Close, ParseSuspend, ParseWoken
<1>3. CASE MainThread
  <2>1. place \in MainLabels
    BY DEF DiskType
  <2>2. CASE HaltDevice \/ DeviceHalted \/ HaltParse \/ ParseHalted \/ MenuGameSaves \/ Reset
    BY <2>1, <2>2 DEF HaltDevice, DeviceHalted, HaltParse, ParseHalted, MenuGameSaves, Reset, Return
  <2>3. CASE ChangeInterface \/ ConnectShare \/ Mount \/ Startup \/ Refused \/ Retry
    BY <2>1, <2>3 DEF ChangeInterface, ConnectShare, Mount, Startup, Refused, Retry, Return
  <2>4. CASE Transfer \/ OpenDir \/ ParseFirst \/ ParseRest \/ ParseWait \/ ResumeDevice \/ WakeDevice
    BY <2>1, <2>4 DEF Transfer, OpenDir, ParseFirst, ParseRest, ParseWait, ResumeDevice, WakeDevice,
       Return
  <2>5. CASE ParseDirEntries("main")
    BY <2>5 DEF ParseDirEntries, Read, Count, Close
  <2>6. QED
    BY <1>3, <2>2, <2>3, <2>4, <2>5 DEF MainThread
<1>4. CASE \E d \in Devices : Remove(d) \/ Insert(d)
  BY <1>4 DEF PcType, Remove, Insert
<1>5. CASE UNCHANGED pc
  BY <1>5 DEF PcType
<1>6. QED
  BY <1>1, <1>2, <1>3, <1>4, <1>5, Steps

\* The devices, the one looked at, and what main does with which device.
LEMMA DiskTypeStep ==
    ASSUME DiskType, [Next]_vars
    PROVE  DiskType'
<1> USE DEF disks, task
<1>0. D \in Nat \ {0} /\ Devices = 1 .. D /\ SMB = D + 1 /\ Cards \in Nat
  BY StorageAssumption DEF Devices, SMB
<1>1. CASE DeviceThread
  <2>1. CASE DeviceMark
    BY <2>1 DEF DiskType, DeviceMark
  <2>2. CASE DeviceUnmount
    BY <1>0, <2>2 DEF DiskType, DeviceUnmount, NextDevice
  <2>3. CASE DeviceLook
    <3>1. UNCHANGED <<disks, task>> /\ at' \in {at, 1, at + 1} /\ (at' # at /\ at = D => at' = 1)
      BY <2>3 DEF DeviceLook, NextDevice
    <3>2. QED
      BY <1>0, <3>1 DEF DiskType
  <2>4. CASE DeviceSleep \/ DeviceSuspend \/ DeviceWoken
    BY <2>4 DEF DiskType, DeviceSleep, DeviceSuspend, DeviceWoken
  <2>5. QED
    BY <1>1, <2>1, <2>2, <2>3, <2>4 DEF DeviceThread
<1>2. CASE ParseThread \/ ParseDirEntries("main")
  BY <1>2 DEF DiskType, ParseThread, ParseDirEntries, Read, Count, Close, ParseSuspend, ParseWoken
<1>3. CASE MainThread /\ ~ParseDirEntries("main")
  <2>1. CASE HaltDevice \/ HaltParse \/ MenuGameSaves
    <3>1. /\ UNCHANGED <<disks, at>>
          /\ place' \in {"menu", "browser"}
          /\ \/ op' = [op EXCEPT !.what = "leave"]
             \/ \E d \in sources, w \in {"load", "save", "game", "folder", "saves"} :
                   op' = [what |-> w, dev |-> d]
      BY <2>1 DEF DiskType, HaltDevice, HaltParse, MenuGameSaves
    <3>2. sources \subseteq 1 .. SMB
      BY <1>0, StorageAssumption DEF DiskType
    <3>3. QED
      BY <3>1, <3>2 DEF DiskType
  <2>2. CASE UNCHANGED <<disks, at, place>> /\ (UNCHANGED op \/ op' = NoOp)
    BY <1>0, <2>2 DEF DiskType, NoOp
  <2>3. CASE Mount
    <3>1. /\ UNCHANGED <<sources, card, at, task>>
          /\ \/ UNCHANGED <<mount, isMounted, unmountRequired>>
             \/ /\ unmountRequired' = [unmountRequired EXCEPT ![op.dev] = FALSE]
                /\ mount' = [mount EXCEPT ![op.dev] = 0]
                /\ isMounted' = [isMounted EXCEPT ![op.dev] = FALSE]
      BY <2>3 DEF Mount
    <3>2. /\ isMounted' \in [Devices -> BOOLEAN] /\ unmountRequired' \in [Devices -> BOOLEAN]
          /\ mount' \in [Devices -> 0 .. Cards]
      <4>1. CASE UNCHANGED <<mount, isMounted, unmountRequired>>
        BY <4>1 DEF DiskType
      <4>2. CASE mount' = [mount EXCEPT ![op.dev] = 0]
        BY <3>1, <4>2, Writes, Flags DEF DiskType
      <4>3. QED
        BY <3>1, <4>1, <4>2
    <3>3. QED
      BY <3>1, <3>2 DEF DiskType
  <2>4. CASE Startup
    <3>1. UNCHANGED <<sources, card, unmountRequired, at, task>>
      BY <2>4 DEF Startup
    <3>2. \/ isMounted' = [isMounted EXCEPT ![op.dev] = TRUE]
          \/ isMounted' = [isMounted EXCEPT ![op.dev] = FALSE]
      BY <2>4 DEF Startup
    <3>3. isMounted' \in [Devices -> BOOLEAN]
      <4>1. CASE isMounted' = [isMounted EXCEPT ![op.dev] = TRUE]
        BY <4>1, Flags
      <4>2. CASE isMounted' = [isMounted EXCEPT ![op.dev] = FALSE]
        BY <4>2, Flags
      <4>3. QED
        BY <3>2, <4>1, <4>2
    <3>4. \/ mount' = mount
          \/ mount' = [mount EXCEPT ![op.dev] = IF mount[op.dev] = 0 THEN card[op.dev]
                                                                  ELSE mount[op.dev]]
      BY <2>4 DEF Startup
    <3>5. mount' \in [Devices -> 0 .. Cards]
      BY <3>4, Writes DEF DiskType
    <3>6. QED
      BY <3>1, <3>3, <3>5 DEF DiskType
  <2>5. CASE Transfer
    BY <2>5 DEF DiskType, Transfer
  <2>6. QED
    BY <1>3, <2>1, <2>2, <2>3, <2>4, <2>5 DEF MainThread, DeviceHalted, ParseHalted, Reset,
       ChangeInterface, ConnectShare, Refused, Retry, OpenDir, ParseFirst, ParseRest, ParseWait,
       ResumeDevice, WakeDevice, Return, halts, parsing
<1>4. CASE \E d \in Devices : Remove(d) \/ Insert(d)
  <2>1. PICK d \in Devices : Remove(d) \/ Insert(d)
    BY <1>4
  <2>2. \E c \in 0 .. Cards : card' = [card EXCEPT ![d] = c]
    BY <1>0, <2>1 DEF Remove, Insert
  <2>3. card' \in [Devices -> 0 .. Cards]
    BY <2>2, Writes
  <2>4. QED
    BY <2>1, <2>3 DEF DiskType, Remove, Insert
<1>5. CASE UNCHANGED <<disks, at, task>>
  BY <1>5 DEF DiskType
<1>6. QED
  BY <1>1, <1>2, <1>3, <1>4, <1>5, Steps

\* The flags of the two threads, and which of them sleep.
LEMMA HaltTypeStep ==
    ASSUME HaltType, [Next]_vars
    PROVE  HaltType'
<1> USE DEF halts, HaltType
<1>1. CASE DeviceThread
  BY <1>1 DEF DeviceThread, DeviceLook, DeviceMark, DeviceUnmount, DeviceSleep, DeviceSuspend,
     DeviceWoken
<1>2. CASE ParseThread \/ ParseDirEntries("main")
  BY <1>2 DEF ParseThread, ParseDirEntries, Read, Count, Close, ParseSuspend, ParseWoken
<1>3. CASE MainThread /\ ~ParseDirEntries("main")
  BY <1>3 DEF MainThread, HaltDevice, DeviceHalted, HaltParse, ParseHalted, MenuGameSaves, Reset,
     ChangeInterface, ConnectShare, Mount, Startup, Refused, Retry, Transfer, OpenDir, ParseFirst,
     ParseRest, ParseWait, ResumeDevice, WakeDevice
<1>4. CASE \E d \in Devices : Remove(d) \/ Insert(d)
  BY <1>4 DEF Remove, Insert
<1>5. CASE UNCHANGED halts
  BY <1>5
<1>6. QED
  BY <1>1, <1>2, <1>3, <1>4, <1>5, Steps

\* The directory and the list.  ListInv is why Count never takes off more than
\* the list misses.
LEMMA ListTypeStep ==
    ASSUME HaltType, ListType, ParseInv, DirInv, ListInv, [Next]_vars
    PROVE  ListType'
<1>0. Chunks \in Nat
  BY StorageAssumption
<1> USE <1>0 DEF parsing
<1>1. CASE DeviceThread
  BY <1>1 DEF ListType, DeviceThread, DeviceLook, DeviceMark, DeviceUnmount, DeviceSleep,
     DeviceSuspend, DeviceWoken
<1>2. ASSUME NEW t \in {"main", "parse"}, ParseDirEntries(t)
      PROVE  ListType'
  <2>1. CASE Read(t)
    <3>1. /\ listing' = listing
          /\ \/ dir' = dir
             \/ dir.rest # 0 /\ dir' = [dir EXCEPT !.rest = @ - 1]
      BY <2>1 DEF Read
    <3>2. dir' \in [open : BOOLEAN, old : BOOLEAN, rest : 0 .. Chunks]
      BY <3>1 DEF ListType
    <3>3. chunk' \in [{"main", "parse"} -> [got : 0 .. 1, end : BOOLEAN]]
      <4>1. CASE chunk' = chunk
        BY <4>1 DEF ListType
      <4>2. CASE chunk' = [chunk EXCEPT ![t] = [got |-> 0, end |-> TRUE]]
        BY <4>2 DEF ListType
      <4>3. CASE \E end \in BOOLEAN : chunk' = [chunk EXCEPT ![t] = [got |-> 1, end |-> end]]
        BY <4>3 DEF ListType
      <4>4. QED
        BY <2>1, <4>1, <4>2, <4>3 DEF Read
    <3>4. QED
      BY <3>1, <3>2, <3>3 DEF ListType
  <2>2. CASE Count(t)
    <3>1. /\ UNCHANGED <<dir, chunk>>
          /\ \/ listing' = listing
             \/ /\ pc[t] = "count" /\ ~parseHalt /\ chunk[t].got # 0
                /\ listing' = [missing |-> listing.missing - 1, others |-> listing.others]
      BY <2>2 DEF Count, At, DirInv, ListType
    <3>2. CASE listing' = listing
      BY <3>1, <3>2 DEF ListType
    <3>3. CASE listing' # listing
      <4>1. listing.missing = dir.rest + Pending("main") + Pending("parse") /\ Pending(t) = 1
        BY <3>1, <3>3 DEF ListType, ListInv, Pending
      <4>2. dir.rest \in Nat /\ Pending("main") \in Nat /\ Pending("parse") \in Nat
        BY DEF ListType, Pending
      <4>3. listing.missing - 1 \in 0 .. Chunks
        BY <4>1, <4>2 DEF ListType
      <4>4. QED
        BY <3>1, <3>3, <4>3 DEF ListType
    <3>4. QED
      BY <3>2, <3>3
  <2>3. CASE Close(t)
    <3>1. /\ listing' = listing
          /\ dir' = dir \/ dir' = NoDir
          /\ chunk' = [chunk EXCEPT ![t] = [got |-> 0, end |-> FALSE]]
      BY <2>3 DEF Close
    <3>2. dir' \in [open : BOOLEAN, old : BOOLEAN, rest : 0 .. Chunks]
      <4>1. 0 \in 0 .. Chunks
        OBVIOUS
      <4>2. NoDir \in [open : BOOLEAN, old : BOOLEAN, rest : 0 .. Chunks]
        BY <4>1, Zenon DEF NoDir
      <4>3. QED
        BY <3>1, <4>2 DEF ListType
    <3>3. chunk' \in [{"main", "parse"} -> [got : 0 .. 1, end : BOOLEAN]]
      BY <3>1 DEF ListType
    <3>4. QED
      BY <3>1, <3>2, <3>3 DEF ListType
  <2>4. QED
    BY <1>2, <2>1, <2>2, <2>3 DEF ParseDirEntries
<1>3. CASE ParseSuspend \/ ParseWoken
  BY <1>3 DEF ListType, ParseSuspend, ParseWoken
<1>4. CASE MainThread /\ ~ParseDirEntries("main")
  <2>1. CASE Reset
    BY <2>1 DEF ListType, Reset, Listing
  <2>2. CASE OpenDir
    <3>1. chunk' = chunk
      BY <2>2 DEF OpenDir
    <3>2. ASSUME NEW n \in 0 .. Chunks,
                 dir' = [open |-> TRUE, old |-> FALSE, rest |-> n], listing' = Listing(n)
          PROVE  /\ dir' \in [open : BOOLEAN, old : BOOLEAN, rest : 0 .. Chunks]
                 /\ listing' \in [missing : 0 .. Chunks, others : BOOLEAN]
      BY <3>2 DEF Listing
    <3>3. CASE UNCHANGED <<dir, listing>>
      BY <3>1, <3>3 DEF ListType
    <3>4. QED
      BY <2>2, <3>1, <3>2, <3>3 DEF ListType, OpenDir
  <2>3. CASE UNCHANGED parsing
    BY <2>3 DEF ListType
  <2>4. QED
    BY <1>4, <2>1, <2>2, <2>3 DEF MainThread, HaltDevice, DeviceHalted, HaltParse, ParseHalted,
       MenuGameSaves, ChangeInterface, ConnectShare, Mount, Startup, Refused, Retry, Transfer,
       ParseFirst, ParseRest, ParseWait, ResumeDevice, WakeDevice
<1>5. CASE \E d \in Devices : Remove(d) \/ Insert(d)
  BY <1>5 DEF ListType, Remove, Insert
<1>6. CASE UNCHANGED parsing
  BY <1>6 DEF ListType
<1>7. QED
  BY <1>1, <1>2, <1>3, <1>4, <1>5, <1>6, Steps DEF ParseThread

\* The network: main goes to "stop" in ChangeInterface, the rest is its own.
LEMMA NetTypeStep ==
    ASSUME NetworkTypeOK, [Next]_vars
    PROVE  NetworkTypeOK'
<1>1. CASE InitializeNetwork \/ NetworkThread \/ NetworkDown
  BY <1>1, NetworkTypes
<1>2. CASE UNCHANGED netvars
  BY <1>2 DEF NetworkTypeOK, netvars
<1>3. CASE ChangeInterface
  BY <1>3 DEF NetworkTypeOK, ChangeInterface
<1>4. CASE DeviceThread \/ ParseThread \/ ParseDirEntries("main")
  BY <1>2, <1>4 DEF DeviceThread, DeviceLook, DeviceMark, DeviceUnmount, DeviceSleep, DeviceSuspend,
     DeviceWoken, ParseThread, ParseDirEntries, Read, Count, Close, ParseSuspend, ParseWoken
<1>5. CASE MainThread /\ ~ChangeInterface /\ ~ParseDirEntries("main")
  BY <1>2, <1>5 DEF MainThread, HaltDevice, DeviceHalted, HaltParse, ParseHalted, MenuGameSaves,
     Reset, ConnectShare, Mount, Startup, Refused, Retry, Transfer, OpenDir, ParseFirst, ParseRest,
     ParseWait, ResumeDevice, WakeDevice
<1>6. CASE \E d \in Devices : Remove(d) \/ Insert(d)
  BY <1>2, <1>6 DEF Remove, Insert
<1>7. QED
  BY <1>1, <1>2, <1>3, <1>4, <1>5, <1>6, Steps

\* Every step keeps the types.
LEMMA TypeStep ==
    ASSUME TypeOK, ParseInv, DirInv, ListInv, [Next]_vars
    PROVE  TypeOK'
<1>1. NetworkTypeOK /\ PcType /\ DiskType /\ HaltType /\ ListType
  BY Types
<1>2. NetworkTypeOK' /\ PcType' /\ DiskType' /\ HaltType' /\ ListType'
  BY <1>1, NetTypeStep, PcStep, DiskTypeStep, HaltTypeStep, ListTypeStep
<1>3. QED
  BY <1>2 DEF TypeOK, PcType, DiskType, HaltType, ListType, DeviceLabels, ParseLabels

-----------------------------------------------------------------------------
\* The start of the program has every part of IInv.
LEMMA InitInv ==
    ASSUME Init
    PROVE  IInv
<1>0. D \in Nat \ {0} /\ Cards \in Nat /\ Chunks \in Nat /\ Devices = 1 .. D /\ SMB = D + 1
  BY StorageAssumption DEF Devices, SMB
<1>1. /\ pc = [main |-> "menu", device |-> "look", parse |-> "suspended"]
      /\ sources \in Uses /\ at = 1
      /\ deviceHalt = FALSE /\ parseHalt = TRUE /\ asleep = {"parse"}
      /\ op = NoOp /\ place = "menu" /\ dir = NoDir /\ listing = Listing(0)
      /\ chunk = [t \in {"main", "parse"} |-> [got |-> 0, end |-> FALSE]]
  BY DEF Init
<1>2. NetworkTypeOK
  BY DEF Init, NetworkInit, NetworkTypeOK
<1>3. PcType
  BY <1>1 DEF PcType, MainLabels, DeviceLabels, ParseLabels
<1>4. HaltType
  BY <1>1 DEF HaltType
<1>5. ListType
  BY <1>0, <1>1 DEF ListType, NoDir, Listing
<1>6. DiskType
  <2>1. card \in [Devices -> 0 .. Cards] /\ mount = card
    BY <1>0 DEF Init
  <2>2. isMounted \in [Devices -> BOOLEAN] /\ unmountRequired \in [Devices -> BOOLEAN]
    BY DEF Init
  <2>3. QED
    BY <1>0, <1>1, <2>1, <2>2 DEF DiskType, NoOp
<1>7. DiskInv
  <2>1. \A d \in Devices : isMounted[d] <=> mount[d] # 0
    BY DEF Init
  <2>2. pc["main"] = "menu" /\ pc["device"] = "look"
    BY <1>1
  <2>3. QED
    BY <2>1, <2>2 DEF DiskInv, MountKnown, At
<1>8. HaltInv /\ ParseInv
  BY <1>1 DEF HaltInv, ParseInv, NoOp, Opened
<1>9. DirInv /\ ListInv
  BY <1>1 DEF DirInv, ListInv, NoDir, Listing, Pending
<1>10. QED
  BY <1>2, <1>3, <1>4, <1>5, <1>6, <1>7, <1>8, <1>9, Types DEF IInv

\* IInv holds in every state of the program.
THEOREM Inductive == Spec => []IInv
<1>1. IInv /\ [Next]_vars => IInv'
  BY TypeStep, DiskStep, HaltStep, ParseStep, DirStep, ListStep DEF IInv
<1>2. QED
  BY InitInv, <1>1, PTL DEF Spec

\* The types of Storage.
THEOREM TypeCorrect == Spec => []TypeOK
<1>1. IInv => TypeOK
  BY DEF IInv
<1>2. QED
  BY Inductive, <1>1, PTL

\* A device is mounted afresh whenever it is mounted, although the device
\* thread marks and unmounts it whenever it finds it removed.
THEOREM Mounts == Spec => []MountKnown
<1>1. IInv => MountKnown
  BY DEF IInv, DiskInv
<1>2. QED
  BY Inductive, <1>1, PTL

\* A list whose parsing was not halted is complete when the parse thread rests,
\* and has entries of no other directory.
THEOREM ListsComplete == Spec => []ListComplete
<1>1. ASSUME IInv
      PROVE  ListComplete
  <2>1. ~listing.others
    BY <1>1 DEF IInv, DirInv
  <2>2. ASSUME "parse" \in asleep, ~parseHalt, ~Parsing
        PROVE  listing.missing = 0
    <3>1. pc["parse"] = "suspended" /\ pc["main"] \notin Opened
      BY <1>1, <2>2 DEF IInv, ParseInv, Parsing, Opened
    <3>2. ~dir.open /\ dir.rest = 0
      BY <1>1, <2>2, <3>1 DEF IInv, DirInv
    <3>3. Pending("main") = 0 /\ Pending("parse") = 0
      BY <3>1 DEF Pending, Opened
    <3>4. QED
      BY <1>1, <2>2, <3>2, <3>3 DEF IInv, ListInv
  <2>3. QED
    BY <2>1, <2>2 DEF ListComplete
<1>2. QED
  BY Inductive, <1>1, PTL

\* While a file is loaded or saved and while a game runs the device thread
\* takes no step.
THEOREM Quietness == Spec => DeviceQuiet
<1>1. ASSUME IInv, Next, Quiet
      PROVE  pc'["device"] = pc["device"]
  <2>1. "device" \in asleep
    BY <1>1 DEF IInv, HaltInv, Quiet, At
  <2>2. pc["device"] = "suspended"
    BY <1>1, <2>1 DEF IInv, HaltInv
  <2>3. ~DeviceThread
    BY <2>1, <2>2 DEF DeviceThread, DeviceLook, DeviceMark, DeviceUnmount, DeviceSleep,
       DeviceSuspend, DeviceWoken, At
  <2>4. CASE ParseThread \/ ParseDirEntries("main")
    BY <1>1, <2>4, Moves DEF IInv, ParseThread, ParseDirEntries, Read, Count, Close, ParseSuspend,
       ParseWoken
  <2>5. CASE MainThread /\ ~ParseDirEntries("main")
    BY <1>1, <2>5, Moves DEF IInv, MainThread, HaltDevice, DeviceHalted, HaltParse, ParseHalted,
       MenuGameSaves, Reset, ChangeInterface, ConnectShare, Mount, Startup, Refused, Retry,
       Transfer, OpenDir, ParseFirst, ParseRest, ParseWait, ResumeDevice, WakeDevice, Return
  <2>6. CASE (\E d \in Devices : Remove(d) \/ Insert(d)) \/ UNCHANGED pc
    BY <2>6 DEF Remove, Insert
  <2>7. QED
    BY <1>1, <2>3, <2>4, <2>5, <2>6, Steps
<1>2. IInv /\ [Next]_vars => [Quiet /\ Quiet' => pc'["device"] = pc["device"]]_vars
  BY <1>1
<1>3. QED
  BY Inductive, <1>2, PTL DEF Spec, DeviceQuiet
=============================================================================
