# FCE Ultra GX with netplay: a verification development

FCE Ultra GX is a NES emulator for the Wii and GameCube. This branch adds
netplay: up to four consoles play one game through a server that collects
controller bytes and sends everybody the same frame of them. The TLA+ modules
here model the parts of the program where order matters: the netplay server,
the client and the session they form; the threads of the menu, of the devices
and of the network; the audio ring and its interrupt; the disk drive; the
cheats; and the loading and saving of games. TLC model-checks them on small
instances. For the server, the session, the menu's threads, the devices and directories, the
audio ring, the disk drive, the cheats and the saving of games TLAPS proves the most important properties for every
value of the constants.

Paths in this file are relative to `src/source/`.

    server.cpp  = fceultra/server.cpp       netplay.cpp = fceultra/netplay.cpp
    fds.cpp     = fceultra/fds.cpp          cheat.cpp   = fceultra/cheat.cpp

## 1. Inventory

### Netplay server: `fceultra/server.{h,cpp}`, `dedicated_server/`

*State.* Four `Client` slots: socket, `disconnecting`, an input buffer with the
type and length of the piece of input that is awaited, an output buffer of
16 KiB, a name. For each of the four NES controllers the client that holds it
(`nes_controllers`) and its current byte (`joybuf`).

*Operations.* One thread repeats `ServerUpdate`: `check_for_connections` takes
at most one connection, `receive` reads each client once and handles at most one
completed piece of input (login length, login, controller byte or escape,
command header, command payload), `send` queues and sends the frame,
`handle_disconnects` frees the controllers of the clients that went away and
announces them, `delay` waits for the next frame.

*Interaction.* A TCP connection per client. `dedicated_server.cpp` supplies the
sockets and the configuration; the Wii has its own socket class
(`fceunetwork.cpp:300-445`) that no menu entry starts.

*Hard.* Any `send` may disconnect the client it is for, in the middle of a loop
over the clients, in the middle of that client's own login, even between two
uses of the client's socket. A slot whose client went away is open to the next
connection one step before the disconnect is announced.

*Correct when* every logged-in client knows exactly what the server knows about
names and controllers; a controller belongs to one connection, never changes
hands unannounced and never stays with somebody who has gone; only its holder
moves it; nothing a client does ends the server.

### Netplay client: `fceultra/netplay.{h,cpp}`, `fceunetwork.cpp`, parts of `menu.cpp`, `fceugx.cpp`, `fceultra/input.cpp`

*State.* `client_socket`, `executionMode`, `NetplayClients` (names),
`NetplayControllers`, `NetplayThisClient` (which of them is me),
`gx_controller` (which controller is mine), `netdcount`.

*Operations.* `FCEUD_NetworkConnect` connects and logs in. `NetplayUpdate` sends
a controller byte, then reads announcements until the frame's bytes come.
`FCEUGX_NetplayToggleReady` asks for a controller or gives one back.
`FCEU_QSimpleCommand` sends RESET, POWER and VS-System commands. `NetError` and
the disconnect button end the session.

*Interaction.* In the menu `NetplayUpdate` runs on a thread of its own
(`menu.cpp:475-514`), in a game on the main thread; the READY button sends on
the same socket from the menu's thread, without a lock.

*Hard.* Two threads share the socket and the client's picture of the session; a
decision is made by what was heard, not by what has been asked for since.

*Correct when* the picture agrees with the server's once everything on the way
has been heard; READY toggles; every command is served; a session goes on as
long as its connection does and ends cleanly; all players see the same frames
with the same resets between the same two of them.

### Menu threads: `menu.cpp:138-740`, `gui/gui_playerlist.cpp`

*State.* `guiHalt`, `showProgress` with title, total and count, `netplayHalt`, the
suspended flags of the GUI, progress, update and netplay threads, `mainWindow`, the
rows of the player list. *Operations.* Halt and resume of each thread;
`ShowProgress`, `ShowAction`, `CancelAction`; the prompts, which halt the GUI around
their window. *Interaction.* Every menu changes `mainWindow` between `HaltGui` and
`ResumeGui`; the progress window and the update offer do so from threads of their
own. *Hard.* Each thread tests a flag and then suspends itself, in two steps; halts
are not counted, and the GUI thread does not test the flag again when it is woken.
*Correct when* nothing is drawn while it is changed, no wait lasts for ever, a
window shows the action that is under way, and the user can answer what is asked.

### Device and parse threads: `fileop.cpp`, `filebrowser.cpp`

*State.* `isMounted`, `unmountRequired`, `deviceHalt`, `parseHalt`, `dir`,
`browserList`. *Operations.* The removal check of `devicecallback`, mounting with
its retries, `ParseDirEntries` twenty entries at a time on the main thread and on the
parse thread, loading and saving. *Interaction.* Loading halts the device thread,
a change of device halts the parser, the network share starts the network.
*Hard.* Removal is noticed up to a second late and between any two steps of a mount;
two threads read one directory. *Correct when* a device that was away is mounted
afresh, the list is complete and of one directory, and nobody waits for ever.

### Network initialisation: `networkop.cpp`

*State.* `networkInit`, `netHalt`, the thread. *Operations.* Start, stop, wait at
most ten seconds; update check and download on the device thread. *Hard.* A
thread that is late is still running when it is started or stopped again.
*Correct when* a stop stops it, and the caller always gets an answer.

### Audio ring: `gcaudio.cpp`

*State.* A ring of 4000 samples with head and tail, two DMA buffers, `IsPlaying`.
*Operations.* `PlaySound` appends; the DMA interrupt collects and swaps;
the change between menu and game resets. *Hard.* The interrupt comes at any point
of `PlaySound`; nobody looks whether the ring is full; the DMA takes only whole units
of 32 bytes. *Correct when* samples leave in order, each buffer is filled while the
other one plays, and what waits is played some time.

### Famicom Disk System: `fds.cpp`, `pad.cpp`, `gcvideo.cpp`

*State.* Inserted and selected disk, drive pointer, drive registers, the disk data and
the original image it is saved against, the request to change the disk and its timer.
*Operations.* Insert, select, the reads and writes of `0x4024`-`0x4033`, the
three timed steps of a disk change, reset, reload, save and restore. *Hard.* The
pointer is unsigned and stepped back; a state is stored as a difference; a
reset or a restored state falls into a change of disks, which an interrupt carries out in the
middle of whatever the main thread does. *Correct when* accesses stay
within the selected side, only the inserted side is written, restoring gives what
was saved, and a request ends.

### Cheats: `cheat.cpp`, `cheatmgr.cpp`

*State.* The list of cheats, `SubCheats` with the read handlers they replaced, and
the number of cheats of the cheat menu. *Operations.* Load, toggle, rebuild of the
substitutions, power, and netplay's dropping of all of them. *Hard.* Handlers are replaced
and put back in order, several cheats may share an address, a new game has new handlers, and in
the menu the netplay thread ends a session beside the main thread.
*Correct when* the game reads what the list says.

### Games and their saves: `filebrowser.cpp`, `fceuram.cpp`, `fceustate.cpp`, `menu.cpp`, `fceugx.cpp`

*State.* `GameInfo`, `romLoaded`, `romFilename`, the battery memory that the carts point
to, and the files. *Operations.* Loading and closing a game, automatic loading and
saving when the menu is entered and left, the save menu, the end of the program from
either thread. *Hard.* What is saved is found through globals of the last
cartridge; a load may fail in the middle; power may be cut while a file is written.
*Correct when* a game's progress is saved under its own name, and is not
overwritten by less.

### Everything else

Movies, the widgets, the emulator core with its 160 cartridge boards, input devices,
the debugger, file formats, the libraries under `utils/` and the toolchain under
`devkitpro/`: see section 6 and the components in `PROJECT.json`.

## 2. Modules

| Module | Models | Extends |
|---|---|---|
| `NetplayProtocol` | the announcements, and what a client makes of each (`netplay.cpp:283-346`) | |
| `NetplayServer` | `ServerUpdate`, one action per loop iteration and handler | `NetplayProtocol` |
| `Lobby` | what the server promises: members, holders, pads | `NetplayProtocol` |
| `NetplayClient` | the console: netplay thread, menu, channels | `NetplayProtocol` |
| `Netplay` | consoles, channels and server together | `NetplayClient` |
| `GuiThreads` | GUI, main, progress and update threads and `mainWindow` | |
| `Network` | the network thread and `InitializeNetwork` | |
| `Storage` | device, parse and main threads, with `Network` for the share | `Network` |
| `AudioRing`, `AudioQueue` | ring, interrupt and DMA; the queue they implement | |
| `FDS`, `FloppyDrive` | drive, disks and saved states; the drive they implement | |
| `Cheats` | cheat list, substitutions and read handlers | |
| `Games` | the game, its battery memory and its files | |
| `NetplayServerProofs`, `NetplayProofs`, `StorageProofs`, `AudioRingProofs`, `FDSProofs`, `GamesProofs`, `CheatsProofs`, `GuiThreadsProofs` | theorems about the module they are named after | that module, `TLAPS` |
| `MCNetplayServer`, `MCNetplay`, `MCCheats`, `MCFDS`, `MCGames` | constants for TLC | that module |

### NetplayServer

The variables have the names of the fields they stand for. `pc`, `at` and `greet`
say which loop of `ServerUpdate` runs and where: one step is one iteration, so
that the effect of a disconnect on the rest of the loop is seen.

| Code | Action |
|---|---|
| `check_for_connections` | `AcceptNobody`, `Accept` |
| `receive(client)`: nothing or not all there, error, refused length | `ReceivePart`, `ReceiveError` |
| `process_command`, `N_LOGINLEN`, `N_LOGIN` and its loop | `ReceiveLoginLen`, `ReceiveLogin`, `GreetClient`, `GreetController` |
| `N_UPDATEDATA`, `N_COMMAND` | `ReceiveEscape`, `ReceiveInput`, `ReceiveCommand` |
| the commands | `ReceiveRelay`, `ReceiveAnyController`, `ReceivePickup`, `ReceiveDrop`, `ReceiveInvalid` |
| `Server::send` | `SendSkip`, `SendFrame`, `SendError`, `SendCrash` |
| `handle_disconnects` | `StillHere`, `HandleDisconnect` |

What arrives is chosen freely at each read, also what follows no protocol, with
one assumption about lengths: those a client announces are not negative, and a login is at
least as long as its fixed fields, as the logins of `fceunetwork.cpp:118` are. (`reset_buffer`,
`server.cpp:108-113`, refuses long messages only, and `nick_len` of `server.cpp:252-257` is what
is left of a login's length.) An output buffer is its fill level;
`SendCmdAfter` is `Client::send_cmd` for several clients, with the disconnect of
those whose buffer is full. `ReceiveInput` gives a second controller of the same
client any byte: the code takes it from what an earlier piece left in
`in_buffer` (`server.cpp:303-309`).

Three history variables are not in the code. `view[i]` is what the announcements
queued since the connection in slot `i` was accepted add up to under `Hear`, the client's own
reaction to them. `framed[i]` is whether the client can make them out: it takes the first byte
it gets for the frame divisor (`fceunetwork.cpp:145-149`), and `check_for_connections` queues that
byte behind whatever the slot's buffer still holds (`server.cpp:212-221`), so that after a
greeting that lost its client the next connection begins with announcements meant for somebody else (section 5).
`ToldControllers` and `ToldRoster` are about players whose connection is framed. `own[n]` says whether controller `n` was taken by the
connection that its holder's slot has now.

### Lobby

Members with names, controllers with holders, the bytes they send, and `actor`,
whose turn it is. `NetplayServer` implements it under

    member[i] = name[i] if i is logged in,  holder[n] = nes_controllers[n] if that client is,
    actor = at,  pad = joybuf

so that every step of every loop is one of `Join`, `Take`, `Release`, `Input`,
`Leave` or invisible. A step of `Leave` may cost several members their
connection: an announcement can fill several buffers.

### NetplayClient and Netplay

A member of `Consoles` is one session: a console that joins again is another
member. `con[c]` is a record of the console's variables; `up[c]` holds what it has
sent, cut into the pieces the server reads one of per pass, `down[c]` what the
server has sent it. A single `net_send` is a step, so that the bytes of the
netplay thread and the two parts of a command interleave as on the console.
`joy` is the static array of `NetplayThread`: the frame is copied over it
(`netplay.cpp:421`) and its first byte goes out with the next update. `divisor` is the server's
frame divisor. A console with `netdcount # 0` sends and reads nothing in its updates
(`netplay.cpp:241-249`), and as only an update that reads counts on (418), it never will again:
what the server sends to such a console (`Deaf`) is not kept, and the pictures, games and delays
that are compared are those of consoles that go on reading.

`Netplay` adds the server at the grain of one piece of input per step: here
buffers never fill (`NetplayServer` has that), and what is sent has its content.
`turn` is the place in the pass.

Left out of the session: losing part of a piece (TCP delivers or fails), the
nickname-less login and the pick-up command (no client of this repository sends
them; `NetplayServer` has both), and text messages, which go to everybody as
`RELAY` does.

### GuiThreads

`pc[t]` is the next access of thread `t` to what the threads share. `HaltGui` is two
steps (set the flag; see the thread suspended), `ResumeGui` two (clear the flag;
wake), and every test of a flag is a step apart from the suspension that follows it.
The routines (`Halt`, `Halted`, `Resume`, `Resumed`, `Cancel`, `Cancelled`, `WindowPrompt`, `ShowAction`,
`ShowProgress`) are called by several threads, so that `ret` and `back` hold where a
thread goes on; `Main` walks through the patterns in which the menus use them: a
click that works with a progress window, with a prompt or with both, a file loaded from the
browser, a menu left and entered, the join button with its retries, the end of `MainMenu`, a game.
`windows` is what `mainWindow` contains and `live` what of it takes input. A connection may fail
at any moment, and the GUI thread may find an update in any of its passes, once, except while
`loadingFile` is true (`home = "loading"`; `menu.cpp:443-449`). The module has no constants.

Some of this goes wrong in the code, and the properties name it as their exceptions. The history
variable `crossed` is true from the moment when the update's offer meets work of the main thread:
two threads then halt and resume the GUI thread as if each were alone. `JoinFails` is the
time after a first failed attempt to connect, when the GUI thread runs while the progress thread
may be changing `mainWindow`. Section 5 has the consequences.

### Network and Storage

`Network` has `netcb` and the steps of `StartNetworkThread`, `StopNetworkThread` and
`InitializeNetwork`; the ten-second wait may end at any time. `Storage` extends it: its
main thread is the caller. A step of `Storage` is one access to shared state or one
call into the file system. `mount[d]` is which card libfat has mounted, as against
`isMounted[d]`, what the program believes; cards are numbered in the order in which
they are put in, so that another card in the slot is told from the same one. `op` is
what the main thread is at (load, save, start a game, open a folder, the saves),
and `Mount`, `Startup`, `Refused`, `Retry` are the steps of `ChangeInterface` and `MountFAT`. `dir` is the
open directory, `listing` what `browserList` still misses of it and whether it holds
anything of another one.

### AudioRing and AudioQueue

The emulator's `PlaySound` is one step per sample (`Fill`), with `mixhead` in a register
until the loop is over (`Filled`), as `-O3` compiles it; the restart of the DMA from the main
thread is `Flip`, `Collect`, `Store`, `StartDMA`. `Interrupt` runs to its end between any
two of them. A sample is its number, so that order and loss are seen.
`AudioRing` implements `AudioQueue` with `Waiting`, the samples between tail and head, as the
queue. The queue's promise is void (`whole`) once the ring has been overrun or
a restart was interrupted, until it is reset: the code does not look for either.

### FDS and FloppyDrive

A byte of a disk is one bit, `Xor` the difference that a state is stored as. `FDSRead4031` and the
`Write402x` move the head with the width of `DiskPtr`; `DecodeJoy` and
`copy_to_xfb` are the button and the interrupt that carry out a change of disks.
The steps of a disk change, `EjectStep`, `InsertStep`, `WaitStep` and `EndStep`, are made in
`copy_to_xfb`, the interrupt after each retrace (`gcvideo.cpp:572`). An operation of the main thread that uses the
drive more than once is therefore two actions with the interrupt between them: a write, `FDSInit`, a state saved (`SELD` and
`INDI` are written one after the other, `fds.cpp:877-878`) and restored, and a restore
that fails: its chunks are read in part or not at all, and `FCEUSS_LoadFP` calls `FDSStateRestore`
all the same (`state.cpp:663-679`). `cut` says that a disk change has come between the two, and
`torn` that the drive may be damaged by it or by such a restore, until the game is loaded again or
another state is restored.
Under `SelectDisk` as `chosen` and `InDisk # NoDisk` as `inside`, every step is one of
`FloppyDrive`: only the inserted side is written, another one is chosen only while the
drive is empty, and a restored state is the saved one. `torn` is its `damaged`: a damaged drive
may do anything to its disks, but not to those in the saved state.

### Cheats

Most of it runs on the main thread, and what goes wrong takes a sequence of calls. But in
the menu `NetplayUpdate` runs on the netplay thread (`menu.cpp:473-488`), which ends a session by `FCEUI_NetplayStop`
when it fails (`netplay.cpp:59-85`), and powers the game when another player asks for it:
`ThreadBegins` and `ThreadEnds` are the two ends of that, and the main thread may do what it likes in
between. A session's list is empty, as its start drops it and no game is loaded during one
(`menu.cpp:1593-1595`), so that both work on nothing, except when the main thread loads
a game with cheats while a session is being ended: then (`raced`) the list may be lost or
not, and any handler left without its substitution. The static variables are one record, each routine an operator on it, and an
action the calls that the program makes in a row. `handler[a]` is the read handler of
address `a`: a game's memory, or `SubCheatsRead`. `SubCheats` is a set, its first
`numsubcheats` entries: no two have the same address (`TypeOK`), so that
neither the order of the array nor what is left behind them in it makes a difference. The
array has `MaxSub` entries, the code's 256; `overrun` is true once more were written.

### Games

A content is how far a game has come, and which game it is; memory that was freed
is `Junk`, and a file whose writing did not end is `Cut`. `place` is where the main thread is. `LoadRAMAuto`,
`SaveRAM` and `CartOf` find the battery memory as the code does, through `iNESCart` and
`UNIFCart`. `ExitApp` is the GUI thread ending the program, `PowerCut` the power.
`behind` is a history variable: the player goes on from less than the file holds,
because it was not, or could not be, loaded. `GCMemROM` is one step, although `romLoaded` is set
(`fceuload.cpp:68`) some time before the game is powered (128): an `ExitApp` in between saves the
same memory of the same game that has not been played.

## 3. Runs

| Run | Checks | Result |
|---|---|---|
| `server_sessions` | `ToldControllers`, `ToldRoster`, `NoInheritedController`, `HeldByPresent`, `NamesDistinct`, `LeftoverFits`, `NoHandOver`, `ImplementsLobby` | hold |
| `session_leave` | `TypeOK`, `PicturesAgree`, `LeaverForgotten` with one of two consoles leaving | hold |
| `session_reuse` | `HoldsByAsking`, `RequestsSettle`, `KeepsPlaying` when a session takes over another's slot, or is refused, under frame divisors 1 and 2 | hold |
| `session_game` | `SameGame`, `DelayNeverFalls` with one console in a game | hold |
| `menu_threads` | `NoDrawWhileChanged`, `NoZeroDivide`, `WindowTellsAction`, `UserCanAnswer`, `WaitsEnd` until an offer of an update crosses the main thread's work | hold |
| `storage` | `TypeOK`, `MountKnown`, `ListComplete`, `DeviceQuiet`, `RemovalNoticed`, `WaitsEnd` | hold |
| `audio` | `TailAligned`, `InOrder`, `DoubleBuffered`, `Played`, `ImplementsQueue` | hold |
| `disk` | `SideInDrive`, `RequestOver`, `ImplementsDrive` with the interrupt between any two steps | hold |
| `cheats` | `TypeOK`, `ReadsAsListed` beside the netplay thread | hold |
| `games` | `NamedAfterGame`, `OwnSaves`, `KeepsProgress` | hold |
| `server_full_buffer` | `FullBufferDisconnects` | violated: `server.cpp:421-422` |
| `disk_switch` | `DiskSwitched` | violated: `gcvideo.cpp:309` |

Where a module has a theorem `TypeCorrect` and no run with `TypeOK` (server, audio, disk,
games), the theorem is the check; it was model-checked before it was proved.

### What the properties say

* `ToldControllers`, `ToldRoster` (server), `PicturesAgree` (session): no player whose
  connection began with its frame divisor is misinformed. The server's two are about every
  announcement queued; the session's is about what the console will believe when it has read them.
* `NoInheritedController`, `HeldByPresent`, `NoHandOver`, `HoldsByAsking`: controllers
  across disconnects, reconnections to the same slot and requests.
* `NamesDistinct`: two players have one name only if one of them was given its
  default name, which may be somebody's nickname.
* `LeftoverFits`: what a login that lost its own client leaves in an output
  buffer is bounded: the greeting does not run into the null socket, and the next connection is not
  refused for the one byte it is sent first. That it gets the leftover before that byte is
  no property but a flaw (section 5).
* `SameGame`: of two players one is behind the other in one common sequence of
  frames and resets.
* `DelayNeverFalls`: the delay between pad and game, in frames, is for good:
  what holds a player's input up once delays it until the session ends, because
  neither side ever catches up.
* `RequestsSettle`, `KeepsPlaying`, `LeaverForgotten`: a READY command is served, no
  console stops while it is connected, and who stays forgets who left: with frame divisor 1.
  With any other, says `KeepsPlaying`, a console takes one frame and stops for good.
* `NoDrawWhileChanged`: `mainWindow` exists for whoever uses it, and is used by no other thread
  while one changes it. `UserCanAnswer`: a button that the program waits for can be clicked.
  `WindowTellsAction`, `NoZeroDivide`: actions that follow each other faster than the
  progress thread sees them. `WaitsEnd`: halting and cancelling return. All five are void once
  the offer of an update has met work of the main thread, and `NoDrawWhileChanged` and `WaitsEnd` have a second
  exception, the GUI and progress threads after a first failed attempt to connect.
* `MountKnown`: whatever counts as mounted is, and a device that went away is mounted afresh.
  `ListComplete`: a listing that two threads read is whole and of one directory.
  `DeviceQuiet`: nothing is unmounted during a transfer or a game. `RemovalNoticed`, `WaitsEnd`.
* `TailAligned`, `InOrder`, `DoubleBuffered`, `Played`: what reaches the DMA is aligned, in
  order, not overwritten while it plays, and reaches it some time.
* `SideInDrive`: disk and side agree through every change, reset and restore.
  `RequestOver`: a change of disks ends. What a saved state says of the drive is right unless
  the change of disks was made in the middle of the saving or the drive was torn before; the disks in
  it (`ImplementsDrive`) are right even then.
* `ReadsAsListed`: at each address the game reads what the first matching active cheat says, and
  its own memory where there is none, and never that of a game loaded before, until a load
  races with the end of a session or the array of substitutions is overrun.
* `NamedAfterGame`, `OwnSaves`: what is saved goes under the name of the game it is of, also
  after loads that failed. `KeepsProgress`: the Auto file of an iNES game loses progress only
  in three ways: its writing fails, the player goes on from less than it holds (`behind`), or the
  program is ended after the game was loaded and before its memory was.

### Bounds

`N = 2` slots and controllers stand for the code's four wherever two clients are
enough to disagree; the proofs below are for every `N`.

* `OutMax = 5`, `FrameLen = CmdLen = 1` (server): the largest greeting is
  three announcements and a byte in this instance and fits an empty buffer, as
  four slots' worth does in the code's 16 KiB (`BufferAssumption`); with slow
  readers any announcement, the greeting's included, can meet a full one.
* `Nicknames` (server): a name like any other, and one of the two default names, so that clients may
  choose the same, somebody else's default name or none.
* `Pads`: one byte where nothing depends on it; `{4}` in `session_reuse`, where
  4 is out of range as a controller number.
* `MaxDelay`: the server's pass may run ahead of a client only while that client's
  delay is below it. It bounds the channels; 2 is enough for a frame in each
  direction, 4 leaves room for a command between frames.
* `Leavers`, `Gamers`, `Clicks`, `Commands`: which session ends, which goes into a
  game, how often READY is clicked and RESET sent. A click that takes a
  controller and one that gives it back is what `session_reuse` needs. It has
  `N = 1`, so that the second session must wait for the first one's slot or be refused.
* `Divisors`: 1, the server's default, and in `session_reuse` also 2, which stands for every larger one.
* `NotCrossed` (menu, a constraint): states after `crossed` are not explored. It never becomes
  false again, and every property is true of all that follows, so that nothing is lost by it: the
  148,503 states before it instead of 23 million. Nothing else of the menu is bounded.
* `D`, `Cards`, `Chunks`, `Uses` (storage): one removable device with a card changed for another, or the
  share; a directory of up to two pieces, so that the main thread reads one and the parse
  thread the next. Devices do not interact but through the one `at`.
* `N = 24`, `Block = 16`, `Counts = {4, 12}`, `Numbers = 24` (audio): three units, so that ring and
  block wrap at different places, and frames that do not fill a unit or
  cross the end of the ring. The code has 4000 samples in blocks of up to 960 (3840 bytes).
* `TotalSides = 2`, `Size = 3`, `Word = 8` (disk): the head reaches both ends, and a step back
  from the start wraps; `Eject = Settle = 1` retrace for the code's 60 and 200; `Accesses = 2` writes to the
  drive or states read in part, one before and one after whatever is done to the drive.
* `Loads = 4`, files with contradictory cheats for one address, and three addresses for the two
  entries of `SubCheats` (cheats).
* `Longest = 2`, `Starts = 2`, one game of each kind (games): a game that is followed by another, each
  played from nothing, from some and to more progress.

The server's runs do not ask for absence of deadlock: a crashed server
(`SendCrash`) takes no more steps. Neither do `cheats` and `games`, which stop at their
bounds or when the console is off. All other runs check deadlock.

### Fairness

Safety is checked without fairness. `FairSpec` of `Netplay` assumes

* the server's loop goes on (`WF` of `ServerStep`): it has no blocking call;
* what was sent is read some time, or the end of the connection is (`SF` per slot:
  the read is possible in every pass while the piece waits, and TCP delivers);
* each netplay thread goes on (`WF`): a wait for a frame ends with the frame, with
  the four-second `RECV_TIMEOUT`, or with the end of the connection;
* the menu finishes what a click has begun (`WF`). Clicks, leaving and commands
  have no fairness.

`GuiThreads` assumes `WF` of each thread, `Storage` of the main, device, parse and network threads:
their waits are sleeps of some milliseconds, and the scheduler lets a thread of a lower priority
run meanwhile. `AudioRing` assumes that the interrupt comes (`WF`), `FDS` that the interrupt
after a retrace does (`WF` of `copy_to_xfb`). Users, cards, the network and the game's own accesses have none.

### Mutants

For each property `PROJECT.json` names a `Bad...` operator beside the definition it
replaces; each is a slip one could make in that code, and breaks the property in
the run's own instance.

## 4. Proofs

Eight modules hold theorems. None of them is about a particular size.

Two of the proofs are by induction over a list: what a console makes of all that is on its way
(`NetplayProofs`), and what loading a file of cheats comes to (`CheatsProofs`). The library's
induction theorems take an operator as a parameter, which the provers cannot instantiate. Both
modules therefore prove from `WFMin`, that a set of numbers has a least element, a lemma
`Induction` about sets, and use it with the set of those numbers for which the claim holds. What is
added up or walked through is a function of how far it has come (`Along`, the loop of
`LoadCheats`), and a first lemma shows that the function exists.

### NetplayServerProofs

For every `N`, every buffer size, every set of names and pads:

| Theorem | Establishes |
|---|---|
| `TypeCorrect` | `TypeOK` is an invariant |
| `SlotCorrect` | `SlotInv` is an invariant |
| `NoInheritance` | `NoInheritedController` |
| `NoLostController` | `HeldByPresent` |
| `ControllersAgree` | `ToldControllers`, for connections that began with their frame divisor |
| `DistinctNames` | `NamesDistinct` |
| `NoControllerHandOver` | the action property `NoHandOver` |
| `OnlyHolderMoves` | the action property `InputAuthority` |

*Assumptions.* As to the clients, see the lengths in section 2. `ProtocolAssumption` (at least one slot; default names are names),
`BufferAssumption` (lengths are positive and a full greeting fits an empty
buffer) and `InputAssumption` (pads contain 0, nicknames are names). TLC evaluates all of them.

*Argument.* None of `NoInheritedController`, `ToldControllers` and `NamesDistinct` is inductive.

`SlotInv` describes a slot between a disconnect and its announcement. A new
connection may be in it (`ReusedSlot`), but one pass lets it complete only one
piece of input, so that it has at most sent its login's length when
`handle_disconnects` comes to it; and only a controller whose holder is
`disconnecting` may be somebody else's (`OwnOrPending`). A client that is logged in
is therefore not in a slot that awaits its announcement, and what it holds is
its own. `GreetedLogsIn` carries this through the steps of the login loop.

`ToldInv` strengthens `ToldControllers` to what was queued for any player (`AllTold`), whether or
not its connection is framed: a client that is not logged in may know
less than the table, but nothing that is wrong (`NothingWrongTold`), and the login
loop has told its client about the controllers it has passed (`GreetingTold`).
When the loop ends, that is all of them. The lemmas `SendHears`, `SendAllHears` and
`QuietHears` say what the sending operators do to a client that keeps its socket.

`NamedInv` extends `NamesDistinct` to the client whose login is being announced
(`Named`): it has its name already, and the others may log out or lose their
socket meanwhile, but none gets a name.

**The lobby.**

| Theorem | Establishes |
|---|---|
| `IsALobby` | `ImplementsLobby`: every step of `NetplayServer` is one of `Lobby` or invisible there |

*Argument.* A step of the server may do three things at once that the lobby sees: log one client in or
grant its request, change its pad, and drop others whose sockets fail while they are told.
`LobbyInv` is `SlotInv` with two parts: only a client that is logged in, or whose disconnect
is still to be announced, holds a controller (`HeldByMember`); and the client that is
being greeted has its default name or one that no player has (`GreetedName`). Both need the
other handlers to have left them alone, which is what `RequestHolds`, `HeldStep` and
`GreetedStep` say, one handler at a time. The four refinement lemmas (`RequestRefines`,
`InputRefines`, `JoinRefines`, `LeaveRefines`) then find the step of `Lobby`: its leavers are
those who are no longer logged in.

**The roster.**

| Theorem | Establishes |
|---|---|
| `PlayersKnown` | `ToldRoster`, for connections that began with their frame divisor |
| `LeftoverSmall` | `LeftoverFits` |

*Argument.* `RosterInv` is to names what `ToldInv` is to controllers. A picture holds the name of
nobody who is gone and announced (`NoGhost`); the players know a client by name from the moment
its login is announced, which is before it is a player itself (`KnownNames`); and the client being
greeted knows those that the loop has passed (`GreetingNames`), which at the loop's end are all.
That the announcement of a disconnect does not make the others forget the slot's
next connection needs `ReusedSlot` of `SlotInv`: that connection cannot have logged in yet.
`LeftoverInv` counts the announcements queued for a client that was lost while it was greeted
(`Sent`): one for each other client the loop has passed, hence at most `N-1`.

### NetplayProofs

For every number of slots and consoles, any frame divisors, pads, clicks and delays (`SessionAssumption`,
`ClientAssumption`):

| Theorem | Establishes |
|---|---|
| `TypeCorrect` | `TypeOK` is an invariant |
| `AskedFirst` | `HoldsByAsking` |
| `OneGame` | `SameGame` |
| `DelayStays` | the action property `DelayNeverFalls` |
| `PicturesRight` | `PicturesAgree` |

*Folds.* `Ends(step, a, s)` is what a function `step` makes of `a` along the list `s`. It stays
in its type, and along `s \o t` it is what `t` makes of what `s` makes (`EndsAll`), so that what
is said last is heard last; for `Plus` and for appending it adds up (`EndsAdd`, `EndsFrom`).
`AlongHeeded`, `AlongPlaying`, `AlongWaited` and `AlongFrameMore` bring the four folds of `Netplay`
to this form; `FlatWay` does it for the announcements that a loop over the slots sends.

*Argument.* The invariants build on each other.

* `TypeInv` is `TypeOK` in the form in which the steps use it, with the place in the loop of
  `ToggleReady` of a header whose payload is still to be sent (`Rounds`).
* `AskInv` follows a request from the click to the controller: what a console has sent
  asks for one only if its player clicked, as does the command that the server has half
  read, and the server gives controllers for nothing else. A controller whose holder is gone awaits
  the announcement of that, and no connection takes the slot before it (`LeftFirst`).
* `GameInv`: of what two connected consoles have yet to play, one is the end of the other (`AllNear`),
  since the server tells both the same and each plays in order. Who has just come has nothing to play,
  which is the end of anything. A session outside the slots is told nothing more.
* `DelayNeverFalls` needs no invariant of its own beside the types and `OnlineOpen`. `Delay` is a sum of
  five parts (`DelayParts`), and each step takes from one only what it adds to another:
  a console's update takes a frame and sends a piece, a pass of the server reads a piece and
  sends a frame (`OthersLate`, `ReadLater`, `PassLater`).
* `PictureInv` is `PicturesAgree` for everybody who is connected, logged in or not. Who is not may
  still believe that a controller is free which is not (`Guesses`), but nothing that is wrong, and
  the greeting that its login ends with puts all of it right, one slot per round
  (`GreetedMore`, `GreetingSeen`). The farewells of a pass do what `Freed` does to the server's table,
  one slot per round (`FarewellSeen`). `TellPicture` then reduces a step of the server to what a
  picture becomes when one more list of messages is heard.

Of these TLC evaluates `TypeOK`, and the properties themselves, on the session runs.

### StorageProofs

For every number of devices, cards and pieces of a directory (`StorageAssumption`), and with the
network thread at any point:

| Theorem | Establishes |
|---|---|
| `TypeCorrect` | `TypeOK` is an invariant |
| `Mounts` | `MountKnown` |
| `ListsComplete` | `ListComplete` |
| `Quietness` | the action property `DeviceQuiet` |

*Argument.* `IInv` has five parts beside the types, and `Inductive` proves them together.

* `DiskInv`: a device that the thread is about to unmount counts as mounted until the thread itself
  clears the flag, and main mounts only what does not count as mounted. So the two never
  work on the same device, and what a mount has just found out stays true.
* `HaltInv`: from the moment main has seen the device thread asleep it stays so, until main wakes it.
* `ParseInv`: the parse thread is awake only while main is in the browser or waits for it. So they
  are never in `ParseDirEntries` together, though no lock keeps them apart and
  `MenuGameSaves` does not halt the thread.
* `DirInv` and `ListInv`: whoever ends the parsing has closed the directory, and what the list misses
  is still in the directory or in the hands of one thread (`Pending`). A halt voids the
  count, until the next directory is opened. `ListInv` is also what keeps the
  type of the list: it is never short of more than it lacked.

### AudioRingProofs

For every ring, block, set of frame lengths and numbering (`AudioAssumption`: ring and block
are multiples of the unit of 8, and a block is smaller than the ring):

| Theorem | Establishes |
|---|---|
| `TypeCorrect` | `TypeOK` is an invariant |
| `Alignment` | `TailAligned` |
| `TwoBuffers` | the action property `DoubleBuffered` |
| `ConsecutiveSamples` | `InOrder` |
| `RingIsQueue` | `ImplementsQueue`: every step is one of `AudioQueue` or a stutter |

*Argument.* `InOrder` says that neighbours in the queue have neighbouring numbers.
That does not survive `Fill`, which writes samples that nobody sees yet: `QueueInv` adds
that those between `mixhead` and the register `head` carry on with the numbers, and that the last has the
number written last; and, for the restart on the main thread, that what it holds in registers
is what the ring held, as long as no interrupt has come between (`whole`). The arithmetic of the ring
is in lemmas about `Ahead` and `Behind`, which replace the code's wrapping by cases.

### FDSProofs

For every number of sides, sizes, widths, waits and original contents (`FDSAssumption`):

| Theorem | Establishes |
|---|---|
| `TypeCorrect` | `TypeOK` is an invariant |
| `SideSelected` | `SideInDrive` |
| `IsADrive` | `ImplementsDrive`: every step is one of `FloppyDrive` or a stutter |

*Argument.* `IInv` is `TypeOK` with `SideInDrive` and `Middle`, which says what the main thread knows in the middle
of each of its operations as long as the interrupt has not changed the disk there
(`~cut`): that the side it looked at or wrote down is still the one in the drive. For the refinement one needs that taking the
difference twice is the identity, which is what makes a restored state the saved one.

### GamesProofs

For every set of games and kinds, and all settings (`GamesAssumption`):

| Theorem | Establishes |
|---|---|
| `TypeCorrect` | `TypeOK` is an invariant |
| `NamedFiles` | `NamedAfterGame` |
| `SavesAreOwn` | `OwnSaves` |
| `NoProgressLost` | the action property `KeepsProgress` |

*Argument.* `Inv` relates the game, the cart that points to its memory and the content of that memory.
`KeepsProgress` needs `Ahead` besides: unless the player is `behind`, the memory of the game
that runs holds at least what its Auto file holds. It is lost only by loading less, and that sets `behind`.

### CheatsProofs

For every set of addresses, any games and cheat files, any length of `SubCheats` and any number of
loads (`CheatsAssumption`):

| Theorem | Establishes |
|---|---|
| `CheatTypes` | `TypeOK` is an invariant |
| `ReadsRight` | `ReadsAsListed` |

*Argument.* Under the substitutions, of which no two share an address, every handler is the same game's,
and each substitution remembers that game's (`Over`); what is installed are the first active cheats of
their addresses (`Matches`). `Rebuilt` shows that `RebuildSubCheats` establishes the second from the
first, whatever has become of the list. `SetupCheats` calls `FCEU_PowerCheats` a second time, which forgets
what is installed without restoring its handlers. That does no harm only because the list
is empty then, which the invariant has to say: closing the game before has dropped it, and without
a game, or with a music file, there never is one. All this is `Right`, and it holds until the two
threads race: what the netplay thread begins it ends, and what the main thread does meanwhile
without a list of cheats it does to nothing. `ReadsRight` says nothing once `overrun` is true, while
`CheatTypes` goes on counting entries: that no two share an address.

### GuiThreadsProofs

Without constants, and so without assumptions:

| Theorem | Establishes |
|---|---|
| `DividesSafely` | `NoZeroDivide` |
| `WindowRight` | `WindowTellsAction` |
| `AnswersReach` | `UserCanAnswer` |
| `ChangesAlone` | `NoDrawWhileChanged` |

TLC explores all of this system up to `crossed`; the theorems say no more than that, but why. Their
exceptions are needed: without `~crossed` TLC finds each of the four violated (section 5).

*Argument.* The invariant is `~crossed => Whole`, and `Whole` has four parts.

* `Control` says where the threads can be: `Stage` is the statement of `WindowPrompt`, `ShowAction`,
  `ShowProgress` or its own program that a thread executes or returns to, `Task` the one of its own program.
  Until `crossed` the main thread waits at a menu while an update is offered (`Clear`), so that at any
  time the progress thread has one of the two to reckon with.
* `ActionInv`: the progress thread is `Idle` unless an action is shown or being cancelled, and
  a bar that is shown has its total, or the progress thread is asleep until it has. `ShowProgress` sets
  `showProgress` first, and it is `CancelAction`'s wait, not the order, that makes this safe.
* `GuiInv`: whoever changes `mainWindow` finds the GUI thread `Frozen`, and between two such changes it is
  `Awake` or `Frozen`. A first attempt to connect that fails breaks this (`Rough`): the join button resumes the GUI thread in the middle of what the progress thread does to
  it. The prompt that reports the failure mends it, which is why the user can answer even then.
* `WindowInv` reads the contents of `mainWindow`, what reacts and the saved state off the
  three program counters.

### Only model-checked

That the waits of the storage and of the menu end, `RequestOver`, `Played`, `LeaverForgotten`,
`RequestsSettle`, `KeepsPlaying` and `RemovalNoticed`: liveness is out of TLAPS's reach and stays with TLC.

## 5. Where the code and its documentation disagree

Two violation runs show a behaviour that contradicts a line of the repository;
`PROJECT.json` quotes each.

* `server_full_buffer`: `Server::send` drops a client whose buffer is full, and
  goes on through its null socket in the same pass.
* `disk_switch`: `FDSInsert` toggles. A reset or a restored state that falls into a
  change of disks makes the steps that follow do the opposite of what their
  comments say, and the change ends with an empty drive, as does every later one
  until the next reset.

Further differences were met that no run shows.

*Netplay.*

* `Server::password` is never assigned (`server.cpp:148`, `dedicated_server.cpp:50`), so that every
  login is accepted. If it were set, `server.cpp:245` would compare it with the wrong
  part of the packet: the client sends its hash 16 bytes in (`fceunetwork.cpp:134`).
* `--maxclients` is stored and never read (`server.cpp:214` takes four;
  `dedicated_server.cpp:51`), and neither is `--timeout` (`dedicated_server.cpp:53`).
* A client that is lost in its own greeting leaves the announcements that follow in the buffer of its slot
  (`send_cmd` at `server.cpp:275-289` goes on), in front of the next connection's frame divisor. The next client
  takes the first byte of them, the length 22 of a `NEWCLIENT` record, for its divisor, and reads the
  rest out of step.
* The first `NEWCLIENT` is taken for one's own (`netplay.cpp:296`). A newcomer is announced before it is
  told who is there (`server.cpp:270-282`), so that it usually is; but the login of another is announced to
  everybody connected, and who has not logged in yet takes that one for itself.
* A login shorter than its fixed fields gives a negative `nick_len` (`server.cpp:252-257`), and negative
  lengths pass `reset_buffer` (`server.cpp:108-113`). No client of this repository sends either.
* The drop command and its number are two sends (`fceunetwork.cpp:201-202`): a byte of the
  netplay thread that comes between is taken for the number.
* READY clicked twice before the answer has come takes two controllers
  (`fceunetwork.cpp:193`; `fceunetwork.h:25` says it toggles).
* The disconnect button sets `OFFLINE` first (`menu.cpp:1856-1858`), and `FCEUI_NetplayStop`
  then says "Check your code!" (`netplay.cpp:84`).
* With a frame divisor of 2 or more, which the server offers (`dedicated_server.cpp:56`: "60 / framedivisor =
  updates per second"), a console takes one frame and then neither sends nor reads: the counter that
  skips updates is counted only in those it does not skip (`netplay.cpp:241-249, 418`). `KeepsPlaying` states it.
* FDS insert and select are sent as commands (`fceultra/input.cpp:567`) that
  the server answers with a disconnect (`server.cpp:411`).
* The console's reset button resets the local machine only (`fceugx.cpp:652-655`).
* `NetplayThread` sends its static array, which each frame overwrites: in the menu
  a console repeats the first controller's last byte.
* `main` of the dedicated server ignores that `ServerStart` failed
  (`dedicated_server.cpp:253`).

*Menu.*

* When its first attempt fails, the join button resumes the GUI thread (`menu.cpp:1828`) before
  `CancelAction` has ended the progress window. Its thread may be changing `mainWindow`
  then (the comment at `menu.cpp:235-241` excludes that), or waiting in `HaltGui`: that wait has lost its
  halt, and `CancelAction` and the progress thread wait for ever.
* The update is found in any pass of the GUI thread (`menu.cpp:443-449`), and its offer and the windows of the
  main thread are halted and resumed independently: one thread's `ResumeGui` ends the other's halt. After that
  TLC finds a window changed while it is drawn, a division by a total that the other thread set to
  zero, a progress window of the wrong kind, and a question that nobody can answer.
* `MainMenu` waits for the update thread with the GUI halted (`menu.cpp:4938-4945`): an
  offer that is open then waits for a user who is not heard, and the program stops.

*Devices.*

* After an error while reading, `isMounted` stays set, so that a retry does not mount again.
* A card that is exchanged within a second, or while the device thread is halted, is not noticed.
* `LoadFile` asks the user for an empty file even when told to be silent; `SaveFile` empties the
  file before it writes (`"wb"`), so that a failed save leaves neither version.
* The share is never marked as mounted, and is connected each time.
* A late network thread may set `networkInit` between the test and the reset of
  `InitializeNetwork`; the next call sorts it out.

*Audio.*

* `static u8 ConfigRequested` (`gcaudio.cpp:18`) hides the global of that name: the branch for a
  requested menu never runs.
* When fewer than 8 samples wait they are played, and stay, and are played again.
* Nobody looks whether the ring is full; in turbo mode the writer overruns the reader.
  A restart by the main thread can be interrupted, and the same block is played twice.

*Disk.*

* `if(DiskPtr<0)` is never true of an unsigned pointer; reads stop at byte 64999 of
  65500; sides from 4 on are accepted (8) and cannot be selected (`& 3`); the head does not go back to
  the start when the disk is changed; `FDSClose` saves nothing on the console.
* The disk is changed in an interrupt (`gcvideo.cpp:281-323`), which no operation of the main thread keeps out. Between
  `SELD` and `INDI` as a state is saved or restored (`fds.cpp:877-878`) it leaves a side in the drive that is not the
  one selected; within a write (`fds.cpp:653-661`) it may direct it to side 255.
* A restore that fails on the way still turns the disks into differences from the original (`state.cpp:670-679`).
  `FCEUSS_LoadFP` then goes back to its backup where it made one.

*Cheats.*

* `FCEUI_ToggleCheat(tc); // turn cheat off` (`cheatmgr.cpp:101`) turns on a cheat that was saved as off.
* A malformed line in a cheat file is read again for ever (`cheatmgr.cpp:77,85`).
* Start and end of netplay drop all cheats, although comments speak of saving and reloading them
  (`netplay.cpp:81-90`); `numcheats` is stale afterwards.
* `SubCheats[256]` is not checked (`cheat.cpp:80, 135`): a 257th active substitution is written behind it.
* `FCEUI_NetplayStop` on the netplay thread drops the list of cheats while the main thread may be loading a
  game with cheats. Handlers of substitutions that are gone may stay.

*Games.*

* UNIF games have the type of cartridges, for which `SaveRAM` saves through `iNESCart`: the
  memory of a cartridge that was closed, or "No data to save". VS games save through `UNIFCart`.
* Save 2 of game "X" and the save without number of game "X 2" are one file (`fceuram.cpp:157`).
* `ExitApp` on the GUI thread (`fceugx.cpp:575, 659`) between `romLoaded` and `LoadRAMAuto` saves empty
  memory over the file.
* With AutoLoad off, or after a silent failure, an automatic save overwrites the file with less.
  `KeepsProgress` names this way (`behind`).
* A file that cannot be loaded closes the game that ran.

## 6. Not modelled

The share of the repository's lines that the modules cover is small because most of
them are not the program: the tree holds a compiler with its headers
(`devkitpro/`), libraries (`utils/`), and 160 cartridge boards.

Of the modelled parts these are left out:

* *Server*: the content of queued bytes, negative and short lengths, the clock arithmetic of `delay`, the Wii's own `Socket`
  (`fceunetwork.cpp:300-445`), which no menu entry starts; command line.
* *Client and session*: text, nickname forms, the player list for the GUI. The netplay thread
  rebuilds it without a lock (`fceunetwork.cpp:252`) while the GUI thread draws it, so that
  there is no discipline to check. The thread may also miss its wake-up between the
  test of `netplayHalt` and its suspension (`menu.cpp:478`).
* *Menu*: `ExitRequested`, the count of a bar, lists that are refilled without `HaltGui`.
* *Storage*: paths and names, sorting, archives, and the GUI's reading of the list while it is
  sorted, which no lock prevents. The update check and download on the device thread.
* *Disk*: the emulated interrupts and timer, the bytes read, sound, the battery file that the console does not write.
* *Cheats*: what an overrun array overwrites, the search, cheats that are written each frame, Game Genie.
* *Games*: music files, patches, names that collide (section 5).

Not modelled at all:

* *Movies*: no menu of the port starts or plays one.
* *CPU, PPU, sound, boards, input devices*: sequential, cycle-driven code that is correct when it
  does what the hardware did; there is no smaller statement of it to check.
* *Widgets, preferences, archives, video, debugger, palettes, filters*: layout, conversion and I/O.
* *Libraries, toolchain, assets*: third-party code and data.
