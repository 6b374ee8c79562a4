------------------------------ MODULE GuiThreads ------------------------------
(***************************************************************************)
(* The threads of the menu (menu.cpp) and the window they share.           *)
(*                                                                         *)
(* "gui" draws mainWindow and hands it the user's input, "main" runs the   *)
(* menus, "progress" shows a window while main works, and "updater" offers *)
(* an update.  A thread that changes what mainWindow contains asks the GUI *)
(* thread to suspend itself (HaltGui), waits until it has, and wakes it    *)
(* afterwards (ResumeGui).  CancelAction does the same to the progress     *)
(* thread.                                                                 *)
(*                                                                         *)
(* pc[t] is the next access of thread t to what the threads share: a test  *)
(* and the suspension that follows it are two steps, and so are the two    *)
(* assignments of ResumeGui.  ret and back are what a thread's stack holds:*)
(* where it goes on after HaltGui, ResumeGui or CancelAction, and after    *)
(* WindowPrompt, ShowAction or ShowProgress.  The threads interleave       *)
(* without regard to their priorities, except that the GUI thread (70) has *)
(* suspended itself before the main thread (64), which created it, goes on.*)
(***************************************************************************)
EXTENDS Naturals

VARIABLES
    pc, ret, back,
    home,           \* main: what it goes back to when its work is done;
                    \* "loading": what "loaded" is while loadingFile is true
    guiHalt,
    asleep,         \* the threads that have suspended themselves
    showProgress,   \* 0: nothing, 1: a bar, 2: a throbber
    progressTotal,  \* 1 stands for every total that is not zero
    kind,           \* showProgress when the progress window was built
    alive,          \* mainWindow is not null
    windows,        \* what mainWindow contains
    live,           \* those that react to the user
    mainState,      \* mainWindow's state
    oldState,       \* the one ProgressWindow restores; it and kind are locals
    clicked,        \* those with a button that was clicked
    crossed         \* history: main did something while an update was offered

stack  == <<ret, back, home>>
look   == <<alive, windows, live, mainState, oldState, clicked>>
action == <<showProgress, progressTotal, kind>>
vars   == <<pc, stack, guiHalt, asleep, action, look, crossed>>

Editors == {"main", "progress", "updater"}
Threads == Editors \cup {"gui"}
Prompt  == [t \in Editors |-> t]      \* the window of the thread's WindowPrompt
Windows == {"menu"} \cup Editors

Init ==
    /\ pc = [t \in Threads |-> CASE t = "gui" -> "suspended" [] t = "main" -> "game"
                                 [] t = "progress" -> "test" [] OTHER -> "none"]
    /\ ret = [t \in Editors |-> "none"] /\ back = ret /\ home = "between"
    /\ guiHalt = TRUE /\ asleep = {"gui"}
    /\ showProgress = 0 /\ progressTotal = 0 /\ kind = 0
    /\ alive = FALSE /\ windows = {} /\ live = {} /\ clicked = {}
    /\ mainState = "DEFAULT" /\ oldState = "DEFAULT"
    /\ crossed = FALSE

At(t, l)   == pc[t] = l
Goto(t, l) == pc' = [pc EXCEPT ![t] = l] /\ UNCHANGED stack

\* Calls HaltGui, ResumeGui or CancelAction and goes on at k.
Call(t, routine, k) ==
    /\ pc' = [pc EXCEPT ![t] = routine]
    /\ ret' = [ret EXCEPT ![t] = k]
    /\ UNCHANGED <<back, home>>

\* Such a routine returns.
Back(t) ==
    /\ pc' = [pc EXCEPT ![t] = ret[t]]
    /\ ret' = [ret EXCEPT ![t] = "none"]
    /\ UNCHANGED <<back, home>>

\* GuiWindow::SetState.  What is appended afterwards still reacts.
SetState(s) == mainState' = s /\ live' = IF s = "DEFAULT" THEN windows' ELSE windows' \ windows

-----------------------------------------------------------------------------
(* The leaf routines. *)

Halt(t) ==
    /\ At(t, "halt")
    /\ guiHalt' = TRUE
    /\ Goto(t, "halting")
    /\ UNCHANGED <<asleep, action, look>>

\* Wrong: only asks.
BadHalted(t) ==
    /\ At(t, "halting")
    /\ Back(t)
    /\ UNCHANGED <<guiHalt, asleep, action, look>>

Halted(t) ==
    /\ At(t, "halting") /\ "gui" \in asleep
    /\ Back(t)
    /\ UNCHANGED <<guiHalt, asleep, action, look>>

Resume(t) ==
    /\ At(t, "resume")
    /\ guiHalt' = FALSE
    /\ Goto(t, "resuming")
    /\ UNCHANGED <<asleep, action, look>>

\* LWP_ResumeThread does nothing to a thread that is not suspended.
Resumed(t) ==
    /\ At(t, "resuming")
    /\ asleep' = asleep \ {"gui"}
    /\ Back(t)
    /\ UNCHANGED <<guiHalt, action, look>>

Cancel(t) ==
    /\ At(t, "cancel")
    /\ showProgress' = 0
    /\ Goto(t, "cancelling")
    /\ UNCHANGED <<guiHalt, asleep, progressTotal, kind, look>>

\* Wrong: does not wait for the progress thread.
BadCancelled(t) ==
    /\ At(t, "cancelling")
    /\ Back(t)
    /\ UNCHANGED <<guiHalt, asleep, action, look>>

Cancelled(t) ==
    /\ At(t, "cancelling") /\ "progress" \in asleep
    /\ Back(t)
    /\ UNCHANGED <<guiHalt, asleep, action, look>>

-----------------------------------------------------------------------------
(* ShowAction, ShowProgress and WindowPrompt, called by thread t, which goes on at k. *)

Return(t) ==
    /\ pc' = [pc EXCEPT ![t] = back[t]]
    /\ back' = [back EXCEPT ![t] = "none"]
    /\ UNCHANGED <<ret, home>>

\* They do nothing without a mainWindow.
Enter(t, k, first) ==
    IF alive THEN /\ pc'   = [pc EXCEPT ![t] = first[1]]
                  /\ ret'  = [ret EXCEPT ![t] = first[2]]
                  /\ back' = [back EXCEPT ![t] = k]
                  /\ UNCHANGED home
             ELSE Goto(t, k)

ShowAction(t, k) ==
    /\ Enter(t, k, IF showProgress # 0 THEN <<"cancel", "throbber">> ELSE <<"throbber", "none">>)
    /\ UNCHANGED <<guiHalt, asleep, action, look>>

\* Wrong: does not wait for another kind of window to go.
BadShowProgress(t, k) ==
    /\ Enter(t, k, <<"bar", "none">>)
    /\ UNCHANGED <<guiHalt, asleep, action, look>>

ShowProgress(t, k) ==
    /\ Enter(t, k, IF showProgress # 1 THEN <<"cancel", "bar">> ELSE <<"bar", "none">>)
    /\ UNCHANGED <<guiHalt, asleep, action, look>>

\* showProgress is set before progressTotal.
SetKind(t) ==
    /\ pc[t] \in {"throbber", "bar"}
    /\ showProgress' = IF At(t, "bar") THEN 1 ELSE 2
    /\ Goto(t, IF At(t, "bar") THEN "some" ELSE "zero")
    /\ UNCHANGED <<guiHalt, asleep, progressTotal, kind, look>>

SetTotal(t) ==
    /\ pc[t] \in {"some", "zero"}
    /\ progressTotal' = IF At(t, "some") THEN 1 ELSE 0
    /\ Goto(t, "wake")
    /\ UNCHANGED <<guiHalt, asleep, showProgress, kind, look>>

Wake(t) ==
    /\ At(t, "wake")
    /\ asleep' = asleep \ {"progress"}
    /\ Return(t)
    /\ UNCHANGED <<guiHalt, action, look>>

WindowPrompt(t, k) ==
    /\ Enter(t, k, <<"cancel", "prompt">>)
    /\ UNCHANGED <<guiHalt, asleep, action, look>>

PromptHalt(t) ==
    /\ At(t, "prompt")
    /\ Call(t, "halt", "open")
    /\ UNCHANGED <<guiHalt, asleep, action, look>>

PromptOpen(t) ==
    /\ At(t, "open")
    /\ windows' = windows \cup {Prompt[t]} /\ SetState("DISABLED")
    /\ Call(t, "resume", "ask")
    /\ UNCHANGED <<guiHalt, asleep, action, alive, oldState, clicked>>

PromptAsk(t) ==
    /\ At(t, "ask") /\ Prompt[t] \in clicked
    /\ clicked' = clicked \ {Prompt[t]}
    /\ Call(t, "halt", "close")
    /\ UNCHANGED <<guiHalt, asleep, action, alive, windows, live, mainState, oldState>>

PromptClose(t) ==
    /\ At(t, "close")
    /\ windows' = windows \ {Prompt[t]} /\ SetState("DEFAULT")
    /\ pc' = [pc EXCEPT ![t] = "resume"]
    /\ ret' = [ret EXCEPT ![t] = back[t]] /\ back' = [back EXCEPT ![t] = "none"]
    /\ UNCHANGED home
    /\ UNCHANGED <<guiHalt, asleep, action, alive, oldState, clicked>>

Routine(t) ==
    \/ Halt(t) \/ Halted(t) \/ Resume(t) \/ Resumed(t) \/ Cancel(t) \/ Cancelled(t)
    \/ SetKind(t) \/ SetTotal(t) \/ Wake(t)
    \/ PromptHalt(t) \/ PromptOpen(t) \/ PromptAsk(t) \/ PromptClose(t)

-----------------------------------------------------------------------------
(* UpdateGUI. *)

GuiTest ==
    /\ At("gui", "test")
    /\ Goto("gui", IF guiHalt THEN "suspend" ELSE "draw")
    /\ UNCHANGED <<guiHalt, asleep, action, look>>

GuiSuspend ==
    /\ At("gui", "suspend")
    /\ asleep' = asleep \cup {"gui"}
    /\ Goto("gui", "suspended")
    /\ UNCHANGED <<guiHalt, action, look>>

\* guiHalt is not tested again.
GuiWoken ==
    /\ At("gui", "suspended") /\ "gui" \notin asleep
    /\ Goto("gui", "draw")
    /\ UNCHANGED <<guiHalt, asleep, action, look>>

GuiDraw ==
    /\ At("gui", "draw")
    /\ Goto("gui", "update")
    /\ UNCHANGED <<guiHalt, asleep, action, look>>

\* mainWindow->Update for each player.  An update may have been found since: it
\* is offered once, unless a file is being loaded.
GuiUpdate ==
    /\ At("gui", "update")
    /\ \E w \in SUBSET live : clicked' = clicked \cup w
    /\ \/ pc' = [pc EXCEPT !["gui"] = "test"]
       \/ At("updater", "none") /\ home # "loading"
          /\ pc' = [pc EXCEPT !["gui"] = "test", !["updater"] = "offer"]
    /\ UNCHANGED <<stack, guiHalt, asleep, action, alive, windows, live, mainState, oldState>>

Gui == GuiTest \/ GuiSuspend \/ GuiWoken \/ GuiDraw \/ GuiUpdate

-----------------------------------------------------------------------------
(* ProgressThread and ProgressWindow. *)

ProgressTest ==
    /\ At("progress", "test")
    /\ Goto("progress", IF showProgress = 0 THEN "suspend" ELSE "build")
    /\ UNCHANGED <<guiHalt, asleep, action, look>>

ProgressSuspend ==
    /\ At("progress", "suspend")
    /\ asleep' = asleep \cup {"progress"}
    /\ Goto("progress", "suspended")
    /\ UNCHANGED <<guiHalt, action, look>>

ProgressWoken ==
    /\ At("progress", "suspended") /\ "progress" \notin asleep
    /\ Goto("progress", "build")
    /\ UNCHANGED <<guiHalt, asleep, action, look>>

ProgressBuild ==
    /\ At("progress", "build")
    /\ kind' = IF showProgress = 1 THEN 1 ELSE 2
    /\ Goto("progress", "wait")
    /\ UNCHANGED <<guiHalt, asleep, showProgress, progressTotal, look>>

\* The action that is over soon gets no window.
ProgressWait ==
    /\ At("progress", "wait")
    /\ IF showProgress = 0 THEN kind' = 0 /\ Goto("progress", "test")
                           ELSE kind' = kind /\ Call("progress", "halt", "append")
    /\ UNCHANGED <<guiHalt, asleep, showProgress, progressTotal, look>>

ProgressAppend ==
    /\ At("progress", "append")
    /\ oldState' = mainState
    /\ windows' = windows \cup {"progress"} /\ SetState("DISABLED")
    /\ Call("progress", "resume", "loop")
    /\ UNCHANGED <<guiHalt, asleep, action, alive, clicked>>

\* Wrong: looks at showProgress only when the action began.
BadProgressLoop ==
    /\ At("progress", "loop")
    /\ Goto("progress", "tile")
    /\ UNCHANGED <<guiHalt, asleep, action, look>>

ProgressLoop ==
    /\ At("progress", "loop")
    /\ IF showProgress = 0 THEN Call("progress", "halt", "remove") ELSE Goto("progress", "tile")
    /\ UNCHANGED <<guiHalt, asleep, action, look>>

ProgressTile ==
    /\ At("progress", "tile")
    /\ Goto("progress", IF showProgress = 1 THEN "divide" ELSE "loop")
    /\ UNCHANGED <<guiHalt, asleep, action, look>>

\* 100*progressDone/progressTotal.
ProgressDivide ==
    /\ At("progress", "divide")
    /\ Goto("progress", "loop")
    /\ UNCHANGED <<guiHalt, asleep, action, look>>

\* Wrong: leaves the window disabled.
BadProgressRemove ==
    /\ At("progress", "remove")
    /\ windows' = windows \ {"progress"} /\ live' = {} /\ oldState' = "DEFAULT" /\ kind' = 0
    /\ Call("progress", "resume", "test")
    /\ UNCHANGED <<guiHalt, asleep, showProgress, progressTotal, alive, mainState, clicked>>

ProgressRemove ==
    /\ At("progress", "remove")
    /\ windows' = windows \ {"progress"} /\ SetState(oldState)
    /\ oldState' = "DEFAULT" /\ kind' = 0
    /\ Call("progress", "resume", "test")
    /\ UNCHANGED <<guiHalt, asleep, showProgress, progressTotal, alive, clicked>>

Progress ==
    \/ ProgressTest \/ ProgressSuspend \/ ProgressWoken \/ ProgressBuild \/ ProgressWait
    \/ ProgressAppend \/ ProgressLoop \/ ProgressTile \/ ProgressDivide \/ ProgressRemove

-----------------------------------------------------------------------------
(* The main thread: MainMenu and its menus. *)

\* The loop of a menu has found a clicked button.
MenuClick ==
    /\ At("main", "poll") /\ "menu" \in clicked
    /\ clicked' = clicked \ {"menu"}
    /\ Goto("main", "chosen")
    /\ UNCHANGED <<guiHalt, asleep, action, alive, windows, live, mainState, oldState>>

\* What the button does: a prompt, work that may show its progress, the file
\* browser's loading of a file, a netplay connection, another menu.
MenuChosen ==
    /\ At("main", "chosen")
    /\ \/ /\ WindowPrompt("main", "poll")
       \/ /\ pc' = [pc EXCEPT !["main"] = "work"] /\ home' = "poll"
          /\ UNCHANGED <<ret, back, guiHalt, asleep, action, look>>
       \/ /\ UNCHANGED windows /\ SetState("DISABLED")
          /\ pc' = [pc EXCEPT !["main"] = "work"] /\ home' = "loaded"
          /\ UNCHANGED <<ret, back, guiHalt, asleep, action, alive, oldState, clicked>>
       \/ /\ \/ Call("main", "halt", "connect") \/ Call("main", "halt", "leave")
          /\ UNCHANGED <<guiHalt, asleep, action, look>>

\* Loading, saving, parsing, initialising the network: each ends with CancelAction.
\* BrowserLoadFile sets and resets loadingFile.
Work ==
    /\ At("main", "work")
    /\ \/ ShowAction("main", "work")
       \/ ShowProgress("main", "work")
       \/ WindowPrompt("main", "work")
       \/ /\ home \in {"loaded", "loading"} /\ home' \in {"loaded", "loading"} \ {home}
          /\ UNCHANGED <<pc, ret, back, guiHalt, asleep, action, look>>
       \/ /\ home # "loading"
          /\ pc' = [pc EXCEPT !["main"] = "cancel"]
          /\ ret' = [ret EXCEPT !["main"] = home] /\ home' = "between"
          /\ UNCHANGED <<back, guiHalt, asleep, action, look>>

\* The end of BrowserLoadFile's click: the game starts, or the menu stays.
Loaded ==
    /\ At("main", "loaded")
    /\ UNCHANGED windows /\ SetState("DEFAULT")
    /\ Goto("main", "poll") \/ Call("main", "halt", "leave")
    /\ UNCHANGED <<guiHalt, asleep, action, alive, oldState, clicked>>

MenuLeave ==
    /\ At("main", "leave")
    /\ windows' = windows \ {"menu"} /\ live' = live \ {"menu"}
    /\ clicked' = clicked \ {"menu"}
    /\ pc' = [pc EXCEPT !["main"] = "between"] /\ home' = "between"
    /\ UNCHANGED <<ret, back, guiHalt, asleep, action, alive, mainState, oldState>>

\* Between two menus the GUI thread usually is suspended.
Between ==
    /\ At("main", "between")
    /\ \/ Goto("main", "work") \/ WindowPrompt("main", "between")
       \/ Call("main", "halt", "enter") \/ Call("main", "cancel", "exit")
    /\ UNCHANGED <<guiHalt, asleep, action, look>>

MenuEnter ==
    /\ At("main", "enter")
    /\ windows' = windows \cup {"menu"} /\ live' = live \cup {"menu"}
    /\ Call("main", "resume", "poll")
    /\ UNCHANGED <<guiHalt, asleep, action, alive, mainState, oldState, clicked>>

\* connectionWaitMsg and FCEUD_NetworkConnect.
Connect ==
    \/ At("main", "connect") /\ ShowAction("main", "connecting")
    \/ At("main", "reconnect") /\ ShowAction("main", "reconnecting")

\* When the first attempt fails the join button resumes the GUI thread before
\* the prompt's CancelAction has ended the progress window; after a retry it goes
\* to the prompt at once.
Connecting ==
    /\ \/ /\ At("main", "connecting") /\ Call("main", "resume", "failed")
          /\ UNCHANGED <<guiHalt, asleep, action, look>>
       \/ /\ At("main", "reconnecting") /\ WindowPrompt("main", "again")
       \/ /\ pc["main"] \in {"connecting", "reconnecting"} /\ Call("main", "cancel", "connected")
          /\ UNCHANGED <<guiHalt, asleep, action, look>>

ConnectFailed ==
    /\ At("main", "failed")
    /\ WindowPrompt("main", "retry")

ConnectRetry ==
    /\ pc["main"] \in {"retry", "again"}
    /\ Call("main", "halt", "reconnect") \/ Call("main", "cancel", "connected")
    /\ UNCHANGED <<guiHalt, asleep, action, look>>

\* showNetplayGuiComponents, when it is connected.
Connected ==
    /\ At("main", "connected")
    /\ Call("main", "resume", "poll") \/ Call("main", "resume", "show")
    /\ UNCHANGED <<guiHalt, asleep, action, look>>

ShowComponents ==
    /\ \/ At("main", "show") /\ Call("main", "halt", "components")
       \/ At("main", "components") /\ Call("main", "resume", "poll")
    /\ UNCHANGED <<guiHalt, asleep, action, look>>

\* The end of MainMenu.
Exit ==
    /\ At("main", "exit")
    /\ Call("main", "halt", "join")
    /\ UNCHANGED <<guiHalt, asleep, action, look>>

Join ==
    /\ At("main", "join") /\ pc["updater"] \in {"none", "over"}
    /\ Goto("main", "delete")
    /\ UNCHANGED <<guiHalt, asleep, action, look>>

Delete ==
    /\ At("main", "delete")
    /\ alive' = FALSE /\ windows' = {} /\ live' = {} /\ clicked' = {}
    /\ Goto("main", "game")
    /\ UNCHANGED <<guiHalt, asleep, action, mainState, oldState>>

\* MainMenu up to its loop; a game that ends saves first.
Game ==
    /\ At("main", "game")
    /\ \/ ShowAction("main", "game") \/ WindowPrompt("main", "game")
       \/ /\ alive' = TRUE /\ mainState' = "DEFAULT"
          /\ Goto("main", "between") \/ Call("main", "resume", "between")
          /\ UNCHANGED <<guiHalt, asleep, action, windows, live, oldState, clicked>>

Main ==
    \/ MenuClick \/ MenuChosen \/ Work \/ Loaded \/ MenuLeave \/ Between \/ MenuEnter
    \/ Connect \/ Connecting \/ ConnectFailed \/ ConnectRetry \/ Connected \/ ShowComponents
    \/ Exit \/ Join \/ Delete \/ Game

-----------------------------------------------------------------------------
(* EmulatorUpdate. *)

\* The download shows its progress and ends with a prompt.
Updater ==
    \/ At("updater", "offer") /\ WindowPrompt("updater", "answered")
    \/ /\ At("updater", "answered")
       /\ Goto("updater", "over") \/ Goto("updater", "download")
       /\ UNCHANGED <<guiHalt, asleep, action, look>>
    \/ /\ At("updater", "download")
       /\ ShowProgress("updater", "download") \/ WindowPrompt("updater", "over")

\* An update is being offered or downloaded.
Offered == pc["updater"] \notin {"none", "over"}

Step(t) ==
    /\ \/ t \in Editors /\ Routine(t)
       \/ CASE t = "gui" -> Gui [] t = "main" -> Main [] t = "progress" -> Progress [] OTHER -> Updater
    /\ crossed' = (crossed \/ (Offered /\ ~At("main", "poll"))')

Next == \E t \in Threads : Step(t)

Spec     == Init /\ [][Next]_vars
FairSpec == Spec /\ \A t \in Threads : WF_vars(Step(t))

\* For TLC: once it is crossed it stays crossed, and no property says more.
NotCrossed == ~crossed

-----------------------------------------------------------------------------
Edits  == {"open", "close", "append", "remove", "leave", "enter", "components", "delete"}
Uses(t) == pc[t] \in IF t = "gui" THEN {"draw", "update"} ELSE Edits

\* The join button's first attempt has failed and its GUI thread runs, while the
\* progress thread may be in the middle of whatever it does (menu.cpp:1828).
JoinFails ==
    \/ pc["main"] \in {"resume", "resuming"} /\ ret["main"] = "failed"
    \/ At("main", "failed")
    \/ pc["main"] \in {"cancel", "cancelling"} /\ back["main"] = "retry"

\* While a thread adds to or removes from mainWindow, neither the GUI thread nor
\* another thread uses it: HaltGui "eliminates the possibility that the GUI is in
\* the middle of accessing an element that is being changed".  And whoever uses
\* mainWindow finds it: the threads are silent while a game runs, when MainMenu
\* has deleted it.  There are two exceptions: an update that is offered while the
\* main thread works, and the GUI thread against the progress thread when a
\* connection fails.
NoDrawWhileChanged ==
    ~crossed => \A t, u \in Threads : Uses(t) /\ Uses(u) =>
        /\ alive
        /\ t = u \/ (JoinFails /\ {t, u} = {"gui", "progress"})

\* The bar divides by a total that belongs to it, although ShowProgress sets
\* showProgress before progressTotal and ShowAction sets the total to zero, unless
\* the update thread shows its progress while the main thread works.
NoZeroDivide == ~crossed /\ At("progress", "divide") => progressTotal # 0

\* The progress window is of the kind of the action under way, whichever actions
\* of one thread follow each other how fast ever.
WindowTellsAction ==
    ~crossed /\ "progress" \in windows /\ showProgress # 0 => kind = showProgress

\* Whenever a thread waits for the user, the GUI thread is awake, the button can
\* be clicked, and a menu is not covered by another window unless by the offer of
\* an update: as long as no such offer coincides with the main thread's work.
MenuWaits == At("main", "poll") /\ ~Offered
UserCanAnswer ==
    ~crossed =>
      /\ MenuWaits => windows = {"menu"} /\ live = windows
      /\ \A t \in Editors : At(t, "ask") => Prompt[t] \in live
      /\ MenuWaits \/ (\E t \in Editors : At(t, "ask")) => ~guiHalt /\ "gui" \notin asleep

\* HaltGui and CancelAction return, whatever the GUI and progress threads do
\* meanwhile, with the same two exceptions: one thread's ResumeGui may end the
\* suspension that another waits for, and then that one waits for good.
WaitsEnd ==
    \A t \in Editors :
        /\ At(t, "halting") ~> ~At(t, "halting") \/ crossed \/ JoinFails
        /\ At(t, "cancelling") ~> ~At(t, "cancelling") \/ crossed \/ JoinFails
==============================================================================
