--------------------------- MODULE GuiThreadsProofs ---------------------------
(***************************************************************************)
(* Proofs about the threads of the menu.                                   *)
(*                                                                         *)
(* The argument: as long as no offer of an update has coincided with the   *)
(* main thread's work (~crossed), one of the two is idle at any time       *)
(* (Clear), and the other shares the window with the progress thread       *)
(* alone.  That one is idle unless an action is shown or being cancelled   *)
(* (ActionInv), which is why the two want the GUI thread at the same time  *)
(* only when a connection fails (GuiInv, Rough), and why what mainWindow   *)
(* contains can be read off the three program counters (WindowInv).        *)
(***************************************************************************)
EXTENDS GuiThreads, TLAPS

Leaf     == {"halt", "halting", "resume", "resuming", "cancel", "cancelling"}
Prompts  == {"prompt", "open", "ask", "close"}
Showings == {"throbber", "bar", "some", "zero", "wake"}

\* The statement of WindowPrompt, ShowAction, ShowProgress or its own program
\* that a thread executes or returns to, and the one of its own program.
Stage(t) == IF pc[t] \in Leaf THEN ret[t] ELSE pc[t]
Task(t)  == IF back[t] # "none" THEN back[t] ELSE Stage(t)

MainTasks ==
    {"game", "poll", "chosen", "work", "loaded", "leave", "between", "enter", "connect", "connecting",
     "reconnect", "reconnecting", "failed", "retry", "again", "connected", "show", "components", "exit", "join", "delete"}
UpdaterTasks  == {"none", "offer", "answered", "download", "over"}
ProgressTasks == {"test", "suspend", "suspended", "build", "wait", "append", "loop", "tile", "divide", "remove"}

Places == Leaf \cup Prompts \cup Showings \cup MainTasks \cup UpdaterTasks \cup ProgressTasks \cup {"draw", "update"}

Types ==
    /\ pc \in [Threads -> Places] /\ ret \in [Editors -> Places] /\ back \in [Editors -> Places]
    /\ home \in {"between", "poll", "loaded", "loading"}
    /\ guiHalt \in BOOLEAN /\ alive \in BOOLEAN
    /\ asleep \subseteq {"gui", "progress"}
    /\ showProgress \in 0..2 /\ progressTotal \in 0..1 /\ kind \in 0..2
    /\ windows \subseteq Windows /\ live \subseteq windows
    /\ mainState \in {"DEFAULT", "DISABLED"} /\ oldState \in {"DEFAULT", "DISABLED"}

-----------------------------------------------------------------------------
(* Where the threads can be. *)

MainPlaced ==
    /\ pc["main"] \in Leaf \cup Prompts \cup Showings \cup MainTasks
    /\ pc["main"] \notin Leaf => ret["main"] = "none"
    /\ pc["main"] \in {"halt", "halting"} =>
          ret["main"] \in {"open", "close", "connect", "reconnect", "leave", "enter", "components", "join"}
    /\ pc["main"] \in {"resume", "resuming"} =>
          ret["main"] \in {"ask", "poll", "show", "failed", "retry", "again", "between", "work"}
    /\ pc["main"] \in {"cancel", "cancelling"} =>
          ret["main"] \in {"bar", "throbber", "prompt", "poll", "loaded", "between", "exit", "connected"}
    /\ Stage("main") \notin Prompts \cup Showings => back["main"] = "none"
    /\ Stage("main") \in Prompts => back["main"] \in {"work", "poll", "between", "retry", "again"}
    /\ Stage("main") \in {"throbber", "zero", "wake"} => back["main"] \in {"work", "connecting", "reconnecting"}
    /\ Stage("main") \in {"bar", "some"} => back["main"] = "work"
    /\ home # "between" => Task("main") = "work"

UpdaterPlaced ==
    /\ pc["updater"] \in Leaf \cup Prompts \cup {"bar", "some", "wake"} \cup UpdaterTasks
    /\ pc["updater"] \notin Leaf => ret["updater"] = "none"
    /\ pc["updater"] \in {"halt", "halting"} => ret["updater"] \in {"open", "close"}
    /\ pc["updater"] \in {"resume", "resuming"} => ret["updater"] \in {"ask", "answered", "over"}
    /\ pc["updater"] \in {"cancel", "cancelling"} => ret["updater"] \in {"bar", "prompt"}
    /\ Stage("updater") \notin Prompts \cup Showings => back["updater"] = "none"
    /\ Stage("updater") \in Prompts => back["updater"] \in {"answered", "over"}
    /\ Stage("updater") \in Showings => back["updater"] = "download"

ProgressPlaced ==
    /\ pc["progress"] \in {"halt", "halting", "resume", "resuming"} \cup ProgressTasks
    /\ pc["progress"] \in {"halt", "halting"} => ret["progress"] \in {"append", "remove"}
    /\ pc["progress"] \in {"resume", "resuming"} => ret["progress"] \in {"loop", "test"}

GuiPlaced ==
    /\ pc["gui"] \in {"test", "suspend", "suspended", "draw", "update"}
    /\ "gui" \in asleep => At("gui", "suspended")
    /\ "progress" \in asleep => At("progress", "suspended")

\* An update is offered while the main thread waits for the user.
Clear == Offered => At("main", "poll")
Alone == Clear /\ (alive <=> ~At("main", "game"))

Control == Types /\ MainPlaced /\ UpdaterPlaced /\ ProgressPlaced /\ GuiPlaced /\ Alone

-----------------------------------------------------------------------------
(* The action under way. *)

\* The progress thread sleeps, or is about to.
Idle ==
    \/ pc["progress"] \in {"test", "suspend"}
    \/ At("progress", "suspended") /\ "progress" \in asleep

\* The thread goes on to report that its connection failed.
Failing(t) == pc[t] \in {"resume", "resuming"} /\ ret[t] = "failed"

\* The thread may be in the middle of an action that is shown.
Acting(t) ==
    \/ pc[t] \in {"work", "download", "connecting", "reconnecting", "failed", "cancel", "bar", "some", "zero", "wake"}
    \/ Failing(t)

ActionShown ==
    /\ showProgress # 0 => Acting("main") \/ Acting("updater")
    /\ showProgress = 0 => Idle \/ At("main", "cancelling") \/ At("updater", "cancelling")
    /\ \A t \in {"main", "updater"} :
          /\ pc[t] \in {"zero", "wake", "connecting", "reconnecting", "failed"} \/ Failing(t) => showProgress # 0
          /\ At(t, "some") => showProgress = 1
          /\ pc[t] = "zero" => showProgress = 2
          /\ At(t, "bar") => showProgress # 2

TotalSet ==
    /\ showProgress = 1 =>
          progressTotal = 1 \/ ("progress" \in asleep /\ \E t \in {"main", "updater"} : At(t, "some"))
    /\ showProgress = 0 /\ (At("main", "bar") \/ At("updater", "bar")) => "progress" \in asleep
    /\ At("progress", "divide") => showProgress # 2 /\ progressTotal = 1

\* The stages of the progress thread between the choice of its window and the
\* end of it, and those at which the window is open.
WindowUp == Stage("progress") \in {"loop", "tile", "divide", "remove"}
Chosen   == Stage("progress") \in {"wait", "append"} \/ WindowUp

KindKept == Chosen /\ showProgress # 0 => kind = showProgress

ActionInv == ActionShown /\ TotalSet /\ KindKept

-----------------------------------------------------------------------------
(* The GUI thread. *)

Awake  == ~guiHalt /\ "gui" \notin asleep /\ ~At("gui", "suspend")
Frozen == guiHalt /\ "gui" \in asleep

\* The thread changes the window, or must have the GUI thread asleep as it is
\* about to delete the window or has deleted it.
Holds(t) == pc[t] \in Edits \cup {"join", "game"}

\* The join button has resumed the GUI thread in the middle of whatever the
\* progress thread does to it; the prompt that reports the failure mends it.
Rough ==
    \/ Failing("main") \/ At("main", "failed")
    \/ back["main"] = "retry" /\ pc["main"] \in {"cancel", "cancelling", "prompt"}
    \/ back["main"] = "retry" /\ At("main", "halt") /\ ret["main"] = "open"

\* The main thread has left the user a menu that works.
Served == ~Offered /\ \/ Task("main") \in {"poll", "chosen", "loaded"}
                      \/ Task("main") = "work" /\ home # "between"

Changing(t) == pc[t] \in {"halting", "resume", "resuming"} \/ Holds(t)

GuiInv ==
    ~Rough =>
      /\ \A t \in Editors : At(t, "halting") => guiHalt
      /\ \A t \in Editors : Holds(t) => Frozen
      /\ \A t \in Editors : At(t, "resuming") => ~guiHalt /\ ~At("gui", "suspend")
      /\ (\A t \in Editors : pc[t] \notin {"halting", "resuming"}) => Awake \/ Frozen
      /\ (\A t \in Editors : ~Changing(t))
            /\ (Served \/ (\E t \in Editors : At(t, "ask")) \/ At("updater", "answered"))
         => Awake

-----------------------------------------------------------------------------
(* The windows. *)

InMenu ==
    \/ Task("main") \in {"poll", "chosen", "loaded", "leave", "connect", "connecting", "reconnect",
                         "reconnecting", "failed", "retry", "again", "connected", "show", "components"}
    \/ Task("main") = "work" /\ home # "between"

\* The prompt of the thread is open.
Asking(t) == pc[t] = "close" \/ Stage(t) = "ask" \/ (pc[t] \in {"halt", "halting"} /\ ret[t] = "close")

\* A file is loaded with the menu disabled.
Loading == Task("main") = "loaded" \/ home \in {"loaded", "loading"}

WindowInv ==
    /\ "progress" \in windows <=> WindowUp
    /\ "main" \in windows <=> Asking("main")
    /\ "updater" \in windows <=> Asking("updater")
    /\ "menu" \in windows <=> InMenu
    /\ mainState = "DEFAULT" => live = windows
    /\ mainState # "DEFAULT" => Asking("main") \/ Asking("updater") \/ WindowUp \/ Loading
    /\ oldState # "DEFAULT" => WindowUp /\ Loading
    /\ \A t \in {"main", "updater"} : Asking(t) => t \in live

Whole == Control /\ ActionInv /\ GuiInv /\ WindowInv
IInv  == ~crossed => Whole

\* A step of some thread.
Move == (\E t \in Editors : Routine(t)) \/ Gui \/ Progress \/ Main \/ Updater

-----------------------------------------------------------------------------
(* One step.  Each lemma takes the actions one by one. *)

\* Every step keeps the threads where they can be.
LEMMA ControlStep ==
  ASSUME Control, Clear',
         Move
  PROVE  Control'
<1> USE DEF Threads, Editors, Leaf, Prompts, Showings, MainTasks, UpdaterTasks, ProgressTasks, Places, Stage, Task,
             At, Goto, Call, Back, Return, stack, look, action,
             Control, Types, MainPlaced, UpdaterPlaced, ProgressPlaced, GuiPlaced, Alone, Clear, Offered
<1>1. ASSUME NEW t \in Editors, Routine(t) PROVE Control'
  <2>1. CASE Halt(t)
    BY <1>1, <2>1 DEF Halt
  <2>2. CASE Halted(t)
    BY <1>1, <2>2 DEF Halted
  <2>3. CASE Resume(t)
    <3>1. guiHalt' \in BOOLEAN
      BY <1>1, <2>3 DEF Resume
    <3> QED
      BY <1>1, <2>3, <3>1 DEF Resume
  <2>4. CASE Resumed(t)
    BY <1>1, <2>4 DEF Resumed
  <2>5. CASE Cancel(t)
    BY <1>1, <2>5 DEF Cancel
  <2>6. CASE Cancelled(t)
    BY <1>1, <2>6 DEF Cancelled
  <2>7. CASE SetKind(t)
    BY <1>1, <2>7 DEF SetKind
  <2>8. CASE SetTotal(t)
    BY <1>1, <2>8 DEF SetTotal
  <2>9. CASE Wake(t)
    BY <1>1, <2>9 DEF Wake
  <2>10. CASE PromptHalt(t)
    BY <1>1, <2>10 DEF PromptHalt
  <2>11. CASE PromptOpen(t)
    BY <1>1, <2>11 DEF PromptOpen, SetState, Prompt, Windows
  <2>12. CASE PromptAsk(t)
    BY <1>1, <2>12 DEF PromptAsk
  <2>13. CASE PromptClose(t)
    BY <1>1, <2>13 DEF PromptClose, SetState, Prompt, Windows
  <2> QED
    BY <1>1, <2>1, <2>2, <2>3, <2>4, <2>5, <2>6, <2>7,
       <2>8, <2>9, <2>10, <2>11, <2>12, <2>13 DEF Routine
<1>2. CASE Gui
  <2>1. CASE GuiTest
    BY <2>1 DEF GuiTest
  <2>2. CASE GuiSuspend
    BY <2>2 DEF GuiSuspend
  <2>3. CASE GuiWoken
    BY <2>3 DEF GuiWoken
  <2>4. CASE GuiDraw
    BY <2>4 DEF GuiDraw
  <2>5. CASE GuiUpdate
    BY <2>5 DEF GuiUpdate
  <2> QED
    BY <1>2, <2>1, <2>2, <2>3, <2>4, <2>5 DEF Gui
<1>3. CASE Progress
  <2>1. CASE ProgressTest
    BY <2>1 DEF ProgressTest
  <2>2. CASE ProgressSuspend
    BY <2>2 DEF ProgressSuspend
  <2>3. CASE ProgressWoken
    BY <2>3 DEF ProgressWoken
  <2>4. CASE ProgressBuild
    BY <2>4 DEF ProgressBuild
  <2>5. CASE ProgressWait
    BY <2>5 DEF ProgressWait
  <2>6. CASE ProgressAppend
    BY <2>6 DEF ProgressAppend, SetState, Windows
  <2>7. CASE ProgressLoop
    BY <2>7 DEF ProgressLoop
  <2>8. CASE ProgressTile
    BY <2>8 DEF ProgressTile
  <2>9. CASE ProgressDivide
    BY <2>9 DEF ProgressDivide
  <2>10. CASE ProgressRemove
    BY <2>10 DEF ProgressRemove, SetState, Windows
  <2> QED
    BY <1>3, <2>1, <2>2, <2>3, <2>4, <2>5, <2>6, <2>7, <2>8, <2>9,
       <2>10 DEF Progress
<1>4. CASE Main
  <2>1. CASE MenuClick
    BY <2>1 DEF MenuClick
  <2>2. CASE MenuChosen
    <3>1. CASE WindowPrompt("main", "poll")
      BY <2>2, <3>1 DEF MenuChosen, WindowPrompt, Enter
    <3>2. CASE /\ pc' = [pc EXCEPT !["main"] = "work"] /\ home' = "poll"
               /\ UNCHANGED <<ret, back, guiHalt, asleep, action, look>>
      BY <2>2, <3>2 DEF MenuChosen
    <3>3. CASE /\ UNCHANGED windows /\ SetState("DISABLED")
               /\ pc' = [pc EXCEPT !["main"] = "work"] /\ home' = "loaded"
               /\ UNCHANGED <<ret, back, guiHalt, asleep, action, alive, oldState, clicked>>
      BY <2>2, <3>3 DEF MenuChosen, SetState, Windows
    <3>4. CASE /\ Call("main", "halt", "connect") \/ Call("main", "halt", "leave")
               /\ UNCHANGED <<guiHalt, asleep, action, look>>
      BY <2>2, <3>4 DEF MenuChosen
    <3> QED
      BY <2>2, <3>1, <3>2, <3>3, <3>4 DEF MenuChosen
  <2>3. CASE Work
    <3>1. CASE ShowAction("main", "work")
      BY <2>3, <3>1 DEF Work, ShowAction, Enter
    <3>2. CASE ShowProgress("main", "work")
      BY <2>3, <3>2 DEF Work, ShowProgress, Enter
    <3>3. CASE WindowPrompt("main", "work")
      BY <2>3, <3>3 DEF Work, WindowPrompt, Enter
    <3>4. CASE /\ home # "loading"
               /\ pc' = [pc EXCEPT !["main"] = "cancel"]
               /\ ret' = [ret EXCEPT !["main"] = home] /\ home' = "between"
               /\ UNCHANGED <<back, guiHalt, asleep, action, look>>
      BY <2>3, <3>4 DEF Work
    <3>5. CASE /\ home \in {"loaded", "loading"} /\ home' \in {"loaded", "loading"} \ {home}
               /\ UNCHANGED <<pc, ret, back, guiHalt, asleep, action, look>>
      BY <2>3, <3>5 DEF Work
    <3> QED
      BY <2>3, <3>1, <3>2, <3>3, <3>4, <3>5 DEF Work
  <2>4. CASE Loaded
    BY <2>4 DEF Loaded, SetState, Windows
  <2>5. CASE MenuLeave
    BY <2>5 DEF MenuLeave, Windows
  <2>6. CASE Between
    BY <2>6 DEF Between, WindowPrompt, Enter
  <2>7. CASE MenuEnter
    BY <2>7 DEF MenuEnter, Windows
  <2>8. CASE Connect
    <3>1. CASE At("main", "connect") /\ ShowAction("main", "connecting")
      <4>1. alive /\ back' = [back EXCEPT !["main"] = "connecting"] /\ UNCHANGED <<home, guiHalt, asleep, action, look>>
        BY <3>1 DEF ShowAction, Enter
      <4>2. \/ pc' = [pc EXCEPT !["main"] = "cancel"] /\ ret' = [ret EXCEPT !["main"] = "throbber"]
            \/ pc' = [pc EXCEPT !["main"] = "throbber"] /\ ret' = [ret EXCEPT !["main"] = "none"]
        BY <3>1, <4>1 DEF ShowAction, Enter
      <4> QED
        BY <3>1, <4>1, <4>2
    <3>2. CASE At("main", "reconnect") /\ ShowAction("main", "reconnecting")
      <4>1. alive /\ back' = [back EXCEPT !["main"] = "reconnecting"] /\ UNCHANGED <<home, guiHalt, asleep, action, look>>
        BY <3>2 DEF ShowAction, Enter
      <4>2. \/ pc' = [pc EXCEPT !["main"] = "cancel"] /\ ret' = [ret EXCEPT !["main"] = "throbber"]
            \/ pc' = [pc EXCEPT !["main"] = "throbber"] /\ ret' = [ret EXCEPT !["main"] = "none"]
        BY <3>2, <4>1 DEF ShowAction, Enter
      <4> QED
        BY <3>2, <4>1, <4>2
    <3> QED
      BY <2>8, <3>1, <3>2 DEF Connect
  <2>9. CASE Connecting
    <3>1. CASE At("main", "connecting") /\ Call("main", "resume", "failed") /\ UNCHANGED <<guiHalt, asleep, action, look>>
      BY <3>1
    <3>2. CASE At("main", "reconnecting") /\ WindowPrompt("main", "again")
      <4>1. alive
        BY <3>2
      <4>2. /\ pc' = [pc EXCEPT !["main"] = "cancel"] /\ ret' = [ret EXCEPT !["main"] = "prompt"]
            /\ back' = [back EXCEPT !["main"] = "again"] /\ UNCHANGED <<home, guiHalt, asleep, action, look>>
        BY <3>2, <4>1 DEF WindowPrompt, Enter
      <4> QED
        BY <3>2, <4>2
    <3>3. CASE /\ pc["main"] \in {"connecting", "reconnecting"} /\ Call("main", "cancel", "connected")
               /\ UNCHANGED <<guiHalt, asleep, action, look>>
      BY <3>3
    <3> QED
      BY <2>9, <3>1, <3>2, <3>3 DEF Connecting
  <2>10. CASE ConnectFailed
    <3>1. At("main", "failed") /\ alive
      BY <2>10 DEF ConnectFailed
    <3>2. /\ pc' = [pc EXCEPT !["main"] = "cancel"] /\ ret' = [ret EXCEPT !["main"] = "prompt"]
          /\ back' = [back EXCEPT !["main"] = "retry"] /\ UNCHANGED <<home, guiHalt, asleep, action, look>>
      BY <2>10, <3>1 DEF ConnectFailed, WindowPrompt, Enter
    <3> QED
      BY <3>1, <3>2
  <2>11. CASE ConnectRetry
    BY <2>11 DEF ConnectRetry
  <2>12. CASE Connected
    BY <2>12 DEF Connected
  <2>13. CASE ShowComponents
    BY <2>13 DEF ShowComponents
  <2>14. CASE Exit
    BY <2>14 DEF Exit
  <2>15. CASE Join
    BY <2>15 DEF Join
  <2>16. CASE Delete
    <3>1. alive' \in BOOLEAN /\ ~alive'
      BY <2>16 DEF Delete
    <3> QED
      BY <2>16, <3>1 DEF Delete, Windows
  <2>17. CASE Game
    <3>0. At("main", "game")
      BY <2>17 DEF Game
    <3>1. CASE ShowAction("main", "game") \/ WindowPrompt("main", "game")
      <4>1. Goto("main", "game") /\ UNCHANGED <<guiHalt, asleep, action, look>>
        BY <2>17, <3>1 DEF Game, ShowAction, WindowPrompt, Enter
      <4> QED
        BY <3>0, <4>1
    <3>2. CASE /\ alive' = TRUE /\ mainState' = "DEFAULT"
               /\ Goto("main", "between") \/ Call("main", "resume", "between")
               /\ UNCHANGED <<guiHalt, asleep, action, windows, live, oldState, clicked>>
      <4>1. alive' \in BOOLEAN /\ alive'
        BY <3>2
      <4> QED
        BY <3>0, <3>2, <4>1
    <3> QED
      BY <2>17, <3>1, <3>2 DEF Game
  <2> QED
    BY <1>4, <2>1, <2>2, <2>3, <2>4, <2>5, <2>6, <2>7, <2>8, <2>9,
       <2>10, <2>11, <2>12, <2>13, <2>14, <2>15, <2>16, <2>17 DEF Main
<1>5. CASE Updater
  <2>1. CASE At("updater", "offer") /\ WindowPrompt("updater", "answered")
    BY <1>5, <2>1 DEF Updater, WindowPrompt, Enter
  <2>2. CASE /\ At("updater", "answered")
             /\ Goto("updater", "over") \/ Goto("updater", "download")
             /\ UNCHANGED <<guiHalt, asleep, action, look>>
    BY <1>5, <2>2 DEF Updater
  <2>3. CASE At("updater", "download") /\ ShowProgress("updater", "download")
    BY <1>5, <2>3 DEF Updater, ShowProgress, Enter
  <2>4. CASE At("updater", "download") /\ WindowPrompt("updater", "over")
    BY <1>5, <2>4 DEF Updater, WindowPrompt, Enter
  <2> QED
    BY <1>5, <2>1, <2>2, <2>3, <2>4 DEF Updater
<1> QED
  BY <1>1, <1>2, <1>3, <1>4, <1>5 DEF Move

\* The progress thread is idle unless an action is shown or being cancelled.
LEMMA ShownStep ==
  ASSUME Control, Clear', ActionShown,
         Move
  PROVE  ActionShown'
<1> USE DEF Threads, Editors, Leaf, Prompts, Showings, MainTasks, UpdaterTasks, ProgressTasks, Places, Stage, Task,
             At, Goto, Call, Back, Return, stack, look, action,
             Control, Types, MainPlaced, UpdaterPlaced, ProgressPlaced, GuiPlaced, Alone, Clear, Offered,
             ActionShown, Idle, Acting, Failing
<1>1. ASSUME NEW t \in Editors, Routine(t) PROVE ActionShown'
  <2>1. CASE Halt(t)
    BY <1>1, <2>1 DEF Halt
  <2>2. CASE Halted(t)
    BY <1>1, <2>2 DEF Halted
  <2>3. CASE Resume(t)
    BY <1>1, <2>3 DEF Resume
  <2>4. CASE Resumed(t)
    BY <1>1, <2>4 DEF Resumed
  <2>5. CASE Cancel(t)
    BY <1>1, <2>5 DEF Cancel
  <2>6. CASE Cancelled(t)
    BY <1>1, <2>6 DEF Cancelled
  <2>7. CASE SetKind(t)
    BY <1>1, <2>7 DEF SetKind
  <2>8. CASE SetTotal(t)
    BY <1>1, <2>8 DEF SetTotal
  <2>9. CASE Wake(t)
    BY <1>1, <2>9 DEF Wake
  <2>10. CASE PromptHalt(t)
    BY <1>1, <2>10 DEF PromptHalt
  <2>11. CASE PromptOpen(t)
    BY <1>1, <2>11 DEF PromptOpen, SetState, Prompt, Windows
  <2>12. CASE PromptAsk(t)
    BY <1>1, <2>12 DEF PromptAsk
  <2>13. CASE PromptClose(t)
    BY <1>1, <2>13 DEF PromptClose, SetState, Prompt, Windows
  <2> QED
    BY <1>1, <2>1, <2>2, <2>3, <2>4, <2>5, <2>6, <2>7,
       <2>8, <2>9, <2>10, <2>11, <2>12, <2>13 DEF Routine
<1>2. CASE Gui
  <2>1. CASE GuiTest
    BY <2>1 DEF GuiTest
  <2>2. CASE GuiSuspend
    BY <2>2 DEF GuiSuspend
  <2>3. CASE GuiWoken
    BY <2>3 DEF GuiWoken
  <2>4. CASE GuiDraw
    BY <2>4 DEF GuiDraw
  <2>5. CASE GuiUpdate
    BY <2>5 DEF GuiUpdate
  <2> QED
    BY <1>2, <2>1, <2>2, <2>3, <2>4, <2>5 DEF Gui
<1>3. CASE Progress
  <2>1. CASE ProgressTest
    BY <2>1 DEF ProgressTest
  <2>2. CASE ProgressSuspend
    BY <2>2 DEF ProgressSuspend
  <2>3. CASE ProgressWoken
    BY <2>3 DEF ProgressWoken
  <2>4. CASE ProgressBuild
    BY <2>4 DEF ProgressBuild
  <2>5. CASE ProgressWait
    BY <2>5 DEF ProgressWait
  <2>6. CASE ProgressAppend
    BY <2>6 DEF ProgressAppend, SetState, Windows
  <2>7. CASE ProgressLoop
    BY <2>7 DEF ProgressLoop
  <2>8. CASE ProgressTile
    BY <2>8 DEF ProgressTile
  <2>9. CASE ProgressDivide
    BY <2>9 DEF ProgressDivide
  <2>10. CASE ProgressRemove
    BY <2>10 DEF ProgressRemove, SetState, Windows
  <2> QED
    BY <1>3, <2>1, <2>2, <2>3, <2>4, <2>5, <2>6, <2>7, <2>8, <2>9,
       <2>10 DEF Progress
<1>4. CASE Main
  <2>1. CASE MenuClick
    BY <2>1 DEF MenuClick
  <2>2. CASE MenuChosen
    <3>1. CASE WindowPrompt("main", "poll")
      BY <2>2, <3>1 DEF MenuChosen, WindowPrompt, Enter
    <3>2. CASE /\ pc' = [pc EXCEPT !["main"] = "work"] /\ home' = "poll"
               /\ UNCHANGED <<ret, back, guiHalt, asleep, action, look>>
      BY <2>2, <3>2 DEF MenuChosen
    <3>3. CASE /\ UNCHANGED windows /\ SetState("DISABLED")
               /\ pc' = [pc EXCEPT !["main"] = "work"] /\ home' = "loaded"
               /\ UNCHANGED <<ret, back, guiHalt, asleep, action, alive, oldState, clicked>>
      BY <2>2, <3>3 DEF MenuChosen, SetState, Windows
    <3>4. CASE /\ Call("main", "halt", "connect") \/ Call("main", "halt", "leave")
               /\ UNCHANGED <<guiHalt, asleep, action, look>>
      BY <2>2, <3>4 DEF MenuChosen
    <3> QED
      BY <2>2, <3>1, <3>2, <3>3, <3>4 DEF MenuChosen
  <2>3. CASE Work
    <3>1. CASE ShowAction("main", "work")
      BY <2>3, <3>1 DEF Work, ShowAction, Enter
    <3>2. CASE ShowProgress("main", "work")
      BY <2>3, <3>2 DEF Work, ShowProgress, Enter
    <3>3. CASE WindowPrompt("main", "work")
      BY <2>3, <3>3 DEF Work, WindowPrompt, Enter
    <3>4. CASE /\ home # "loading"
               /\ pc' = [pc EXCEPT !["main"] = "cancel"]
               /\ ret' = [ret EXCEPT !["main"] = home] /\ home' = "between"
               /\ UNCHANGED <<back, guiHalt, asleep, action, look>>
      BY <2>3, <3>4 DEF Work
    <3>5. CASE /\ home \in {"loaded", "loading"} /\ home' \in {"loaded", "loading"} \ {home}
               /\ UNCHANGED <<pc, ret, back, guiHalt, asleep, action, look>>
      BY <2>3, <3>5 DEF Work
    <3> QED
      BY <2>3, <3>1, <3>2, <3>3, <3>4, <3>5 DEF Work
  <2>4. CASE Loaded
    BY <2>4 DEF Loaded, SetState, Windows
  <2>5. CASE MenuLeave
    BY <2>5 DEF MenuLeave, Windows
  <2>6. CASE Between
    BY <2>6 DEF Between, WindowPrompt, Enter
  <2>7. CASE MenuEnter
    BY <2>7 DEF MenuEnter, Windows
  <2>8. CASE Connect
    BY <2>8 DEF Connect, ShowAction, Enter
  <2>9. CASE Connecting
    BY <2>9 DEF Connecting, WindowPrompt, Enter
  <2>10. CASE ConnectFailed
    BY <2>10 DEF ConnectFailed, WindowPrompt, Enter
  <2>11. CASE ConnectRetry
    BY <2>11 DEF ConnectRetry
  <2>12. CASE Connected
    BY <2>12 DEF Connected
  <2>13. CASE ShowComponents
    BY <2>13 DEF ShowComponents
  <2>14. CASE Exit
    BY <2>14 DEF Exit
  <2>15. CASE Join
    BY <2>15 DEF Join
  <2>16. CASE Delete
    BY <2>16 DEF Delete, Windows
  <2>17. CASE Game
    BY <2>17 DEF Game, ShowAction, WindowPrompt, Enter
  <2> QED
    BY <1>4, <2>1, <2>2, <2>3, <2>4, <2>5, <2>6, <2>7, <2>8, <2>9,
       <2>10, <2>11, <2>12, <2>13, <2>14, <2>15, <2>16, <2>17 DEF Main
<1>5. CASE Updater
  BY <1>5 DEF Updater, WindowPrompt, ShowProgress, Enter
<1> QED
  BY <1>1, <1>2, <1>3, <1>4, <1>5 DEF Move

\* The total is set before the progress thread divides by it.
LEMMA TotalStep ==
  ASSUME Control, Clear', ActionShown, TotalSet,
         Move
  PROVE  TotalSet'
<1> USE DEF Threads, Editors, Leaf, Prompts, Showings, MainTasks, UpdaterTasks, ProgressTasks, Places, Stage, Task,
             At, Goto, Call, Back, Return, stack, look, action,
             Control, Types, MainPlaced, UpdaterPlaced, ProgressPlaced, GuiPlaced, Alone, Clear, Offered,
             ActionShown, Idle, Acting, Failing, TotalSet
<1>1. ASSUME NEW t \in Editors, Routine(t) PROVE TotalSet'
  <2>1. CASE Halt(t)
    BY <1>1, <2>1 DEF Halt
  <2>2. CASE Halted(t)
    BY <1>1, <2>2 DEF Halted
  <2>3. CASE Resume(t)
    BY <1>1, <2>3 DEF Resume
  <2>4. CASE Resumed(t)
    BY <1>1, <2>4 DEF Resumed
  <2>5. CASE Cancel(t)
    BY <1>1, <2>5 DEF Cancel
  <2>6. CASE Cancelled(t)
    BY <1>1, <2>6 DEF Cancelled
  <2>7. CASE SetKind(t)
    BY <1>1, <2>7 DEF SetKind
  <2>8. CASE SetTotal(t)
    BY <1>1, <2>8 DEF SetTotal
  <2>9. CASE Wake(t)
    BY <1>1, <2>9 DEF Wake
  <2>10. CASE PromptHalt(t)
    BY <1>1, <2>10 DEF PromptHalt
  <2>11. CASE PromptOpen(t)
    BY <1>1, <2>11 DEF PromptOpen, SetState, Prompt, Windows
  <2>12. CASE PromptAsk(t)
    BY <1>1, <2>12 DEF PromptAsk
  <2>13. CASE PromptClose(t)
    BY <1>1, <2>13 DEF PromptClose, SetState, Prompt, Windows
  <2> QED
    BY <1>1, <2>1, <2>2, <2>3, <2>4, <2>5, <2>6, <2>7,
       <2>8, <2>9, <2>10, <2>11, <2>12, <2>13 DEF Routine
<1>2. CASE Gui
  <2>1. CASE GuiTest
    BY <2>1 DEF GuiTest
  <2>2. CASE GuiSuspend
    BY <2>2 DEF GuiSuspend
  <2>3. CASE GuiWoken
    BY <2>3 DEF GuiWoken
  <2>4. CASE GuiDraw
    BY <2>4 DEF GuiDraw
  <2>5. CASE GuiUpdate
    BY <2>5 DEF GuiUpdate
  <2> QED
    BY <1>2, <2>1, <2>2, <2>3, <2>4, <2>5 DEF Gui
<1>3. CASE Progress
  <2>1. CASE ProgressTest
    BY <2>1 DEF ProgressTest
  <2>2. CASE ProgressSuspend
    BY <2>2 DEF ProgressSuspend
  <2>3. CASE ProgressWoken
    BY <2>3 DEF ProgressWoken
  <2>4. CASE ProgressBuild
    BY <2>4 DEF ProgressBuild
  <2>5. CASE ProgressWait
    BY <2>5 DEF ProgressWait
  <2>6. CASE ProgressAppend
    BY <2>6 DEF ProgressAppend, SetState, Windows
  <2>7. CASE ProgressLoop
    BY <2>7 DEF ProgressLoop
  <2>8. CASE ProgressTile
    BY <2>8 DEF ProgressTile
  <2>9. CASE ProgressDivide
    BY <2>9 DEF ProgressDivide
  <2>10. CASE ProgressRemove
    BY <2>10 DEF ProgressRemove, SetState, Windows
  <2> QED
    BY <1>3, <2>1, <2>2, <2>3, <2>4, <2>5, <2>6, <2>7, <2>8, <2>9,
       <2>10 DEF Progress
<1>4. CASE Main
  <2>1. CASE MenuClick
    BY <2>1 DEF MenuClick
  <2>2. CASE MenuChosen
    <3>1. CASE WindowPrompt("main", "poll")
      BY <2>2, <3>1 DEF MenuChosen, WindowPrompt, Enter
    <3>2. CASE /\ pc' = [pc EXCEPT !["main"] = "work"] /\ home' = "poll"
               /\ UNCHANGED <<ret, back, guiHalt, asleep, action, look>>
      BY <2>2, <3>2 DEF MenuChosen
    <3>3. CASE /\ UNCHANGED windows /\ SetState("DISABLED")
               /\ pc' = [pc EXCEPT !["main"] = "work"] /\ home' = "loaded"
               /\ UNCHANGED <<ret, back, guiHalt, asleep, action, alive, oldState, clicked>>
      BY <2>2, <3>3 DEF MenuChosen, SetState, Windows
    <3>4. CASE /\ Call("main", "halt", "connect") \/ Call("main", "halt", "leave")
               /\ UNCHANGED <<guiHalt, asleep, action, look>>
      BY <2>2, <3>4 DEF MenuChosen
    <3> QED
      BY <2>2, <3>1, <3>2, <3>3, <3>4 DEF MenuChosen
  <2>3. CASE Work
    <3>1. CASE ShowAction("main", "work")
      BY <2>3, <3>1 DEF Work, ShowAction, Enter
    <3>2. CASE ShowProgress("main", "work")
      BY <2>3, <3>2 DEF Work, ShowProgress, Enter
    <3>3. CASE WindowPrompt("main", "work")
      BY <2>3, <3>3 DEF Work, WindowPrompt, Enter
    <3>4. CASE /\ home # "loading"
               /\ pc' = [pc EXCEPT !["main"] = "cancel"]
               /\ ret' = [ret EXCEPT !["main"] = home] /\ home' = "between"
               /\ UNCHANGED <<back, guiHalt, asleep, action, look>>
      BY <2>3, <3>4 DEF Work
    <3>5. CASE /\ home \in {"loaded", "loading"} /\ home' \in {"loaded", "loading"} \ {home}
               /\ UNCHANGED <<pc, ret, back, guiHalt, asleep, action, look>>
      BY <2>3, <3>5 DEF Work
    <3> QED
      BY <2>3, <3>1, <3>2, <3>3, <3>4, <3>5 DEF Work
  <2>4. CASE Loaded
    BY <2>4 DEF Loaded, SetState, Windows
  <2>5. CASE MenuLeave
    BY <2>5 DEF MenuLeave, Windows
  <2>6. CASE Between
    BY <2>6 DEF Between, WindowPrompt, Enter
  <2>7. CASE MenuEnter
    BY <2>7 DEF MenuEnter, Windows
  <2>8. CASE Connect
    BY <2>8 DEF Connect, ShowAction, Enter
  <2>9. CASE Connecting
    BY <2>9 DEF Connecting, WindowPrompt, Enter
  <2>10. CASE ConnectFailed
    BY <2>10 DEF ConnectFailed, WindowPrompt, Enter
  <2>11. CASE ConnectRetry
    BY <2>11 DEF ConnectRetry
  <2>12. CASE Connected
    BY <2>12 DEF Connected
  <2>13. CASE ShowComponents
    BY <2>13 DEF ShowComponents
  <2>14. CASE Exit
    BY <2>14 DEF Exit
  <2>15. CASE Join
    BY <2>15 DEF Join
  <2>16. CASE Delete
    BY <2>16 DEF Delete, Windows
  <2>17. CASE Game
    BY <2>17 DEF Game, ShowAction, WindowPrompt, Enter
  <2> QED
    BY <1>4, <2>1, <2>2, <2>3, <2>4, <2>5, <2>6, <2>7, <2>8, <2>9,
       <2>10, <2>11, <2>12, <2>13, <2>14, <2>15, <2>16, <2>17 DEF Main
<1>5. CASE Updater
  BY <1>5 DEF Updater, WindowPrompt, ShowProgress, Enter
<1> QED
  BY <1>1, <1>2, <1>3, <1>4, <1>5 DEF Move

\* The window is of the kind that showProgress asks for.
LEMMA KindStep ==
  ASSUME Control, Clear', ActionShown, KindKept,
         Move
  PROVE  KindKept'
<1> USE DEF Threads, Editors, Leaf, Prompts, Showings, MainTasks, UpdaterTasks, ProgressTasks, Places, Stage, Task,
             At, Goto, Call, Back, Return, stack, look, action,
             Control, Types, MainPlaced, UpdaterPlaced, ProgressPlaced, GuiPlaced, Alone, Clear, Offered,
             ActionShown, Idle, Acting, Failing, KindKept, Chosen, WindowUp
<1>1. ASSUME NEW t \in Editors, Routine(t) PROVE KindKept'
  <2>1. CASE Halt(t)
    BY <1>1, <2>1 DEF Halt
  <2>2. CASE Halted(t)
    BY <1>1, <2>2 DEF Halted
  <2>3. CASE Resume(t)
    BY <1>1, <2>3 DEF Resume
  <2>4. CASE Resumed(t)
    BY <1>1, <2>4 DEF Resumed
  <2>5. CASE Cancel(t)
    BY <1>1, <2>5 DEF Cancel
  <2>6. CASE Cancelled(t)
    BY <1>1, <2>6 DEF Cancelled
  <2>7. CASE SetKind(t)
    BY <1>1, <2>7 DEF SetKind
  <2>8. CASE SetTotal(t)
    BY <1>1, <2>8 DEF SetTotal
  <2>9. CASE Wake(t)
    BY <1>1, <2>9 DEF Wake
  <2>10. CASE PromptHalt(t)
    BY <1>1, <2>10 DEF PromptHalt
  <2>11. CASE PromptOpen(t)
    BY <1>1, <2>11 DEF PromptOpen, SetState, Prompt, Windows
  <2>12. CASE PromptAsk(t)
    BY <1>1, <2>12 DEF PromptAsk
  <2>13. CASE PromptClose(t)
    BY <1>1, <2>13 DEF PromptClose, SetState, Prompt, Windows
  <2> QED
    BY <1>1, <2>1, <2>2, <2>3, <2>4, <2>5, <2>6, <2>7,
       <2>8, <2>9, <2>10, <2>11, <2>12, <2>13 DEF Routine
<1>2. CASE Gui
  <2>1. CASE GuiTest
    BY <2>1 DEF GuiTest
  <2>2. CASE GuiSuspend
    BY <2>2 DEF GuiSuspend
  <2>3. CASE GuiWoken
    BY <2>3 DEF GuiWoken
  <2>4. CASE GuiDraw
    BY <2>4 DEF GuiDraw
  <2>5. CASE GuiUpdate
    BY <2>5 DEF GuiUpdate
  <2> QED
    BY <1>2, <2>1, <2>2, <2>3, <2>4, <2>5 DEF Gui
<1>3. CASE Progress
  <2>1. CASE ProgressTest
    BY <2>1 DEF ProgressTest
  <2>2. CASE ProgressSuspend
    BY <2>2 DEF ProgressSuspend
  <2>3. CASE ProgressWoken
    BY <2>3 DEF ProgressWoken
  <2>4. CASE ProgressBuild
    BY <2>4 DEF ProgressBuild
  <2>5. CASE ProgressWait
    BY <2>5 DEF ProgressWait
  <2>6. CASE ProgressAppend
    BY <2>6 DEF ProgressAppend, SetState, Windows
  <2>7. CASE ProgressLoop
    BY <2>7 DEF ProgressLoop
  <2>8. CASE ProgressTile
    BY <2>8 DEF ProgressTile
  <2>9. CASE ProgressDivide
    BY <2>9 DEF ProgressDivide
  <2>10. CASE ProgressRemove
    BY <2>10 DEF ProgressRemove, SetState, Windows
  <2> QED
    BY <1>3, <2>1, <2>2, <2>3, <2>4, <2>5, <2>6, <2>7, <2>8, <2>9,
       <2>10 DEF Progress
<1>4. CASE Main
  <2>1. CASE MenuClick
    BY <2>1 DEF MenuClick
  <2>2. CASE MenuChosen
    <3>1. CASE WindowPrompt("main", "poll")
      BY <2>2, <3>1 DEF MenuChosen, WindowPrompt, Enter
    <3>2. CASE /\ pc' = [pc EXCEPT !["main"] = "work"] /\ home' = "poll"
               /\ UNCHANGED <<ret, back, guiHalt, asleep, action, look>>
      BY <2>2, <3>2 DEF MenuChosen
    <3>3. CASE /\ UNCHANGED windows /\ SetState("DISABLED")
               /\ pc' = [pc EXCEPT !["main"] = "work"] /\ home' = "loaded"
               /\ UNCHANGED <<ret, back, guiHalt, asleep, action, alive, oldState, clicked>>
      BY <2>2, <3>3 DEF MenuChosen, SetState, Windows
    <3>4. CASE /\ Call("main", "halt", "connect") \/ Call("main", "halt", "leave")
               /\ UNCHANGED <<guiHalt, asleep, action, look>>
      BY <2>2, <3>4 DEF MenuChosen
    <3> QED
      BY <2>2, <3>1, <3>2, <3>3, <3>4 DEF MenuChosen
  <2>3. CASE Work
    <3>1. CASE ShowAction("main", "work")
      BY <2>3, <3>1 DEF Work, ShowAction, Enter
    <3>2. CASE ShowProgress("main", "work")
      BY <2>3, <3>2 DEF Work, ShowProgress, Enter
    <3>3. CASE WindowPrompt("main", "work")
      BY <2>3, <3>3 DEF Work, WindowPrompt, Enter
    <3>4. CASE /\ home # "loading"
               /\ pc' = [pc EXCEPT !["main"] = "cancel"]
               /\ ret' = [ret EXCEPT !["main"] = home] /\ home' = "between"
               /\ UNCHANGED <<back, guiHalt, asleep, action, look>>
      BY <2>3, <3>4 DEF Work
    <3>5. CASE /\ home \in {"loaded", "loading"} /\ home' \in {"loaded", "loading"} \ {home}
               /\ UNCHANGED <<pc, ret, back, guiHalt, asleep, action, look>>
      BY <2>3, <3>5 DEF Work
    <3> QED
      BY <2>3, <3>1, <3>2, <3>3, <3>4, <3>5 DEF Work
  <2>4. CASE Loaded
    BY <2>4 DEF Loaded, SetState, Windows
  <2>5. CASE MenuLeave
    BY <2>5 DEF MenuLeave, Windows
  <2>6. CASE Between
    BY <2>6 DEF Between, WindowPrompt, Enter
  <2>7. CASE MenuEnter
    BY <2>7 DEF MenuEnter, Windows
  <2>8. CASE Connect
    BY <2>8 DEF Connect, ShowAction, Enter
  <2>9. CASE Connecting
    BY <2>9 DEF Connecting, WindowPrompt, Enter
  <2>10. CASE ConnectFailed
    BY <2>10 DEF ConnectFailed, WindowPrompt, Enter
  <2>11. CASE ConnectRetry
    BY <2>11 DEF ConnectRetry
  <2>12. CASE Connected
    BY <2>12 DEF Connected
  <2>13. CASE ShowComponents
    BY <2>13 DEF ShowComponents
  <2>14. CASE Exit
    BY <2>14 DEF Exit
  <2>15. CASE Join
    BY <2>15 DEF Join
  <2>16. CASE Delete
    BY <2>16 DEF Delete, Windows
  <2>17. CASE Game
    BY <2>17 DEF Game, ShowAction, WindowPrompt, Enter
  <2> QED
    BY <1>4, <2>1, <2>2, <2>3, <2>4, <2>5, <2>6, <2>7, <2>8, <2>9,
       <2>10, <2>11, <2>12, <2>13, <2>14, <2>15, <2>16, <2>17 DEF Main
<1>5. CASE Updater
  BY <1>5 DEF Updater, WindowPrompt, ShowProgress, Enter
<1> QED
  BY <1>1, <1>2, <1>3, <1>4, <1>5 DEF Move

\* What mainWindow contains follows the threads.
LEMMA WindowStep ==
  ASSUME Control, Clear', ActionShown, WindowInv,
         Move
  PROVE  WindowInv'
<1> USE DEF Threads, Editors, Leaf, Prompts, Showings, MainTasks, UpdaterTasks, ProgressTasks, Places, Stage, Task,
             At, Goto, Call, Back, Return, stack, look, action,
             Control, Types, MainPlaced, UpdaterPlaced, ProgressPlaced, GuiPlaced, Alone, Clear, Offered,
             ActionShown, Idle, Acting, Failing, WindowInv, WindowUp, Loading, Asking, InMenu, Windows, Prompt
<1>1. ASSUME NEW t \in Editors, Routine(t) PROVE WindowInv'
  <2>1. CASE Halt(t)
    BY <1>1, <2>1 DEF Halt
  <2>2. CASE Halted(t)
    BY <1>1, <2>2 DEF Halted
  <2>3. CASE Resume(t)
    BY <1>1, <2>3 DEF Resume
  <2>4. CASE Resumed(t)
    BY <1>1, <2>4 DEF Resumed
  <2>5. CASE Cancel(t)
    BY <1>1, <2>5 DEF Cancel
  <2>6. CASE Cancelled(t)
    BY <1>1, <2>6 DEF Cancelled
  <2>7. CASE SetKind(t)
    BY <1>1, <2>7 DEF SetKind
  <2>8. CASE SetTotal(t)
    BY <1>1, <2>8 DEF SetTotal
  <2>9. CASE Wake(t)
    BY <1>1, <2>9 DEF Wake
  <2>10. CASE PromptHalt(t)
    BY <1>1, <2>10 DEF PromptHalt
  <2>11. CASE PromptOpen(t)
    BY <1>1, <2>11 DEF PromptOpen, SetState, Prompt, Windows
  <2>12. CASE PromptAsk(t)
    BY <1>1, <2>12 DEF PromptAsk
  <2>13. CASE PromptClose(t)
    BY <1>1, <2>13 DEF PromptClose, SetState, Prompt, Windows
  <2> QED
    BY <1>1, <2>1, <2>2, <2>3, <2>4, <2>5, <2>6, <2>7,
       <2>8, <2>9, <2>10, <2>11, <2>12, <2>13 DEF Routine
<1>2. CASE Gui
  <2>1. CASE GuiTest
    BY <2>1 DEF GuiTest
  <2>2. CASE GuiSuspend
    BY <2>2 DEF GuiSuspend
  <2>3. CASE GuiWoken
    BY <2>3 DEF GuiWoken
  <2>4. CASE GuiDraw
    BY <2>4 DEF GuiDraw
  <2>5. CASE GuiUpdate
    BY <2>5 DEF GuiUpdate
  <2> QED
    BY <1>2, <2>1, <2>2, <2>3, <2>4, <2>5 DEF Gui
<1>3. CASE Progress
  <2>1. CASE ProgressTest
    BY <2>1 DEF ProgressTest
  <2>2. CASE ProgressSuspend
    BY <2>2 DEF ProgressSuspend
  <2>3. CASE ProgressWoken
    BY <2>3 DEF ProgressWoken
  <2>4. CASE ProgressBuild
    BY <2>4 DEF ProgressBuild
  <2>5. CASE ProgressWait
    BY <2>5 DEF ProgressWait
  <2>6. CASE ProgressAppend
    BY <2>6 DEF ProgressAppend, SetState, Windows
  <2>7. CASE ProgressLoop
    BY <2>7 DEF ProgressLoop
  <2>8. CASE ProgressTile
    BY <2>8 DEF ProgressTile
  <2>9. CASE ProgressDivide
    BY <2>9 DEF ProgressDivide
  <2>10. CASE ProgressRemove
    BY <2>10 DEF ProgressRemove, SetState, Windows
  <2> QED
    BY <1>3, <2>1, <2>2, <2>3, <2>4, <2>5, <2>6, <2>7, <2>8, <2>9,
       <2>10 DEF Progress
<1>4. CASE Main
  <2>1. CASE MenuClick
    BY <2>1 DEF MenuClick
  <2>2. CASE MenuChosen
    <3>1. CASE WindowPrompt("main", "poll")
      BY <2>2, <3>1 DEF MenuChosen, WindowPrompt, Enter
    <3>2. CASE /\ pc' = [pc EXCEPT !["main"] = "work"] /\ home' = "poll"
               /\ UNCHANGED <<ret, back, guiHalt, asleep, action, look>>
      BY <2>2, <3>2 DEF MenuChosen
    <3>3. CASE /\ UNCHANGED windows /\ SetState("DISABLED")
               /\ pc' = [pc EXCEPT !["main"] = "work"] /\ home' = "loaded"
               /\ UNCHANGED <<ret, back, guiHalt, asleep, action, alive, oldState, clicked>>
      BY <2>2, <3>3 DEF MenuChosen, SetState, Windows
    <3>4. CASE /\ Call("main", "halt", "connect") \/ Call("main", "halt", "leave")
               /\ UNCHANGED <<guiHalt, asleep, action, look>>
      BY <2>2, <3>4 DEF MenuChosen
    <3> QED
      BY <2>2, <3>1, <3>2, <3>3, <3>4 DEF MenuChosen
  <2>3. CASE Work
    <3>1. CASE ShowAction("main", "work")
      BY <2>3, <3>1 DEF Work, ShowAction, Enter
    <3>2. CASE ShowProgress("main", "work")
      BY <2>3, <3>2 DEF Work, ShowProgress, Enter
    <3>3. CASE WindowPrompt("main", "work")
      BY <2>3, <3>3 DEF Work, WindowPrompt, Enter
    <3>4. CASE /\ home # "loading"
               /\ pc' = [pc EXCEPT !["main"] = "cancel"]
               /\ ret' = [ret EXCEPT !["main"] = home] /\ home' = "between"
               /\ UNCHANGED <<back, guiHalt, asleep, action, look>>
      BY <2>3, <3>4 DEF Work
    <3>5. CASE /\ home \in {"loaded", "loading"} /\ home' \in {"loaded", "loading"} \ {home}
               /\ UNCHANGED <<pc, ret, back, guiHalt, asleep, action, look>>
      BY <2>3, <3>5 DEF Work
    <3> QED
      BY <2>3, <3>1, <3>2, <3>3, <3>4, <3>5 DEF Work
  <2>4. CASE Loaded
    BY <2>4 DEF Loaded, SetState, Windows
  <2>5. CASE MenuLeave
    BY <2>5 DEF MenuLeave, Windows
  <2>6. CASE Between
    BY <2>6 DEF Between, WindowPrompt, Enter
  <2>7. CASE MenuEnter
    BY <2>7 DEF MenuEnter, Windows
  <2>8. CASE Connect
    BY <2>8 DEF Connect, ShowAction, Enter
  <2>9. CASE Connecting
    BY <2>9 DEF Connecting, WindowPrompt, Enter
  <2>10. CASE ConnectFailed
    BY <2>10 DEF ConnectFailed, WindowPrompt, Enter
  <2>11. CASE ConnectRetry
    BY <2>11 DEF ConnectRetry
  <2>12. CASE Connected
    BY <2>12 DEF Connected
  <2>13. CASE ShowComponents
    BY <2>13 DEF ShowComponents
  <2>14. CASE Exit
    BY <2>14 DEF Exit
  <2>15. CASE Join
    BY <2>15 DEF Join
  <2>16. CASE Delete
    BY <2>16 DEF Delete, Windows
  <2>17. CASE Game
    BY <2>17 DEF Game, ShowAction, WindowPrompt, Enter
  <2> QED
    BY <1>4, <2>1, <2>2, <2>3, <2>4, <2>5, <2>6, <2>7, <2>8, <2>9,
       <2>10, <2>11, <2>12, <2>13, <2>14, <2>15, <2>16, <2>17 DEF Main
<1>5. CASE Updater
  BY <1>5 DEF Updater, WindowPrompt, ShowProgress, Enter
<1> QED
  BY <1>1, <1>2, <1>3, <1>4, <1>5 DEF Move

\* The GUI thread is awake or safely asleep.
LEMMA GuiStep ==
  ASSUME Control, Clear', ActionShown, GuiInv,
         Move
  PROVE  GuiInv'
<1> USE DEF Threads, Editors, Leaf, Prompts, Showings, MainTasks, UpdaterTasks, ProgressTasks, Places, Stage, Task,
             At, Goto, Call, Back, Return, stack, look, action,
             Control, Types, MainPlaced, UpdaterPlaced, ProgressPlaced, GuiPlaced, Alone, Clear, Offered,
             ActionShown, Idle, Acting, Failing, GuiInv, Awake, Frozen, Holds, Edits, Rough, Served, Changing
<1>1. ASSUME NEW t \in Editors, Routine(t) PROVE GuiInv'
  <2>1. CASE Halt(t)
    <3>1. guiHalt' /\ pc' = [pc EXCEPT ![t] = "halting"] /\ UNCHANGED <<stack, asleep>> /\ At(t, "halt")
      BY <1>1, <2>1 DEF Halt
    <3>2. CASE t = "main"
      <4>1. /\ Rough' \/ (pc["progress"] \notin {"halting", "resuming"} /\ ~Holds("progress"))
            /\ pc["updater"] \in {"none", "over"}
        BY <3>1, <3>2
      <4> QED
        BY <3>1, <3>2, <4>1
    <3>3. CASE t = "updater"
      <4>1. Idle /\ At("main", "poll")
        BY <3>1, <3>3
      <4> QED
        BY <3>1, <3>3, <4>1
    <3>4. CASE t = "progress"
      <4>1. /\ Rough' \/ (pc["main"] \notin {"halting", "resuming"} /\ ~Holds("main"))
            /\ pc["updater"] \notin {"halting", "resuming"} /\ ~Holds("updater")
        BY <3>1, <3>4
      <4> QED
        BY <3>1, <3>4, <4>1
    <3> QED
      BY <1>1, <3>2, <3>3, <3>4
  <2>2. CASE Halted(t)
    BY <1>1, <2>2 DEF Halted
  <2>3. CASE Resume(t)
    <3>1. ~guiHalt' /\ pc' = [pc EXCEPT ![t] = "resuming"] /\ UNCHANGED <<stack, asleep>> /\ At(t, "resume")
      BY <1>1, <2>3 DEF Resume
    <3>2. CASE t = "main"
      <4>1. /\ Rough' \/ (pc["progress"] \notin {"halting", "resuming"} /\ ~Holds("progress"))
            /\ pc["updater"] \in {"none", "over"}
        BY <3>1, <3>2
      <4> QED
        BY <3>1, <3>2, <4>1
    <3>3. CASE t = "updater"
      <4>1. Idle /\ At("main", "poll")
        BY <3>1, <3>3
      <4> QED
        BY <3>1, <3>3, <4>1
    <3>4. CASE t = "progress"
      <4>1. /\ Rough' \/ (pc["main"] \notin {"halting", "resuming"} /\ ~Holds("main"))
            /\ pc["updater"] \notin {"halting", "resuming"} /\ ~Holds("updater")
        BY <3>1, <3>4
      <4> QED
        BY <3>1, <3>4, <4>1
    <3> QED
      BY <1>1, <3>2, <3>3, <3>4
  <2>4. CASE Resumed(t)
    BY <1>1, <2>4 DEF Resumed
  <2>5. CASE Cancel(t)
    BY <1>1, <2>5 DEF Cancel
  <2>6. CASE Cancelled(t)
    BY <1>1, <2>6 DEF Cancelled
  <2>7. CASE SetKind(t)
    BY <1>1, <2>7 DEF SetKind
  <2>8. CASE SetTotal(t)
    BY <1>1, <2>8 DEF SetTotal
  <2>9. CASE Wake(t)
    BY <1>1, <2>9 DEF Wake
  <2>10. CASE PromptHalt(t)
    BY <1>1, <2>10 DEF PromptHalt
  <2>11. CASE PromptOpen(t)
    BY <1>1, <2>11 DEF PromptOpen, SetState, Prompt, Windows
  <2>12. CASE PromptAsk(t)
    BY <1>1, <2>12 DEF PromptAsk
  <2>13. CASE PromptClose(t)
    BY <1>1, <2>13 DEF PromptClose, SetState, Prompt, Windows
  <2> QED
    BY <1>1, <2>1, <2>2, <2>3, <2>4, <2>5, <2>6, <2>7,
       <2>8, <2>9, <2>10, <2>11, <2>12, <2>13 DEF Routine
<1>2. CASE Gui
  <2>1. CASE GuiTest
    BY <2>1 DEF GuiTest
  <2>2. CASE GuiSuspend
    BY <2>2 DEF GuiSuspend
  <2>3. CASE GuiWoken
    BY <2>3 DEF GuiWoken
  <2>4. CASE GuiDraw
    BY <2>4 DEF GuiDraw
  <2>5. CASE GuiUpdate
    BY <2>5 DEF GuiUpdate
  <2> QED
    BY <1>2, <2>1, <2>2, <2>3, <2>4, <2>5 DEF Gui
<1>3. CASE Progress
  <2>1. CASE ProgressTest
    BY <2>1 DEF ProgressTest
  <2>2. CASE ProgressSuspend
    BY <2>2 DEF ProgressSuspend
  <2>3. CASE ProgressWoken
    BY <2>3 DEF ProgressWoken
  <2>4. CASE ProgressBuild
    BY <2>4 DEF ProgressBuild
  <2>5. CASE ProgressWait
    BY <2>5 DEF ProgressWait
  <2>6. CASE ProgressAppend
    BY <2>6 DEF ProgressAppend, SetState, Windows
  <2>7. CASE ProgressLoop
    BY <2>7 DEF ProgressLoop
  <2>8. CASE ProgressTile
    BY <2>8 DEF ProgressTile
  <2>9. CASE ProgressDivide
    BY <2>9 DEF ProgressDivide
  <2>10. CASE ProgressRemove
    BY <2>10 DEF ProgressRemove, SetState, Windows
  <2> QED
    BY <1>3, <2>1, <2>2, <2>3, <2>4, <2>5, <2>6, <2>7, <2>8, <2>9,
       <2>10 DEF Progress
<1>4. CASE Main
  <2>1. CASE MenuClick
    BY <2>1 DEF MenuClick
  <2>2. CASE MenuChosen
    <3>1. CASE WindowPrompt("main", "poll")
      BY <2>2, <3>1 DEF MenuChosen, WindowPrompt, Enter
    <3>2. CASE /\ pc' = [pc EXCEPT !["main"] = "work"] /\ home' = "poll"
               /\ UNCHANGED <<ret, back, guiHalt, asleep, action, look>>
      BY <2>2, <3>2 DEF MenuChosen
    <3>3. CASE /\ UNCHANGED windows /\ SetState("DISABLED")
               /\ pc' = [pc EXCEPT !["main"] = "work"] /\ home' = "loaded"
               /\ UNCHANGED <<ret, back, guiHalt, asleep, action, alive, oldState, clicked>>
      BY <2>2, <3>3 DEF MenuChosen, SetState, Windows
    <3>4. CASE /\ Call("main", "halt", "connect") \/ Call("main", "halt", "leave")
               /\ UNCHANGED <<guiHalt, asleep, action, look>>
      BY <2>2, <3>4 DEF MenuChosen
    <3> QED
      BY <2>2, <3>1, <3>2, <3>3, <3>4 DEF MenuChosen
  <2>3. CASE Work
    <3>1. CASE ShowAction("main", "work")
      BY <2>3, <3>1 DEF Work, ShowAction, Enter
    <3>2. CASE ShowProgress("main", "work")
      BY <2>3, <3>2 DEF Work, ShowProgress, Enter
    <3>3. CASE WindowPrompt("main", "work")
      BY <2>3, <3>3 DEF Work, WindowPrompt, Enter
    <3>4. CASE /\ home # "loading"
               /\ pc' = [pc EXCEPT !["main"] = "cancel"]
               /\ ret' = [ret EXCEPT !["main"] = home] /\ home' = "between"
               /\ UNCHANGED <<back, guiHalt, asleep, action, look>>
      BY <2>3, <3>4 DEF Work
    <3>5. CASE /\ home \in {"loaded", "loading"} /\ home' \in {"loaded", "loading"} \ {home}
               /\ UNCHANGED <<pc, ret, back, guiHalt, asleep, action, look>>
      BY <2>3, <3>5 DEF Work
    <3> QED
      BY <2>3, <3>1, <3>2, <3>3, <3>4, <3>5 DEF Work
  <2>4. CASE Loaded
    BY <2>4 DEF Loaded, SetState, Windows
  <2>5. CASE MenuLeave
    BY <2>5 DEF MenuLeave, Windows
  <2>6. CASE Between
    BY <2>6 DEF Between, WindowPrompt, Enter
  <2>7. CASE MenuEnter
    BY <2>7 DEF MenuEnter, Windows
  <2>8. CASE Connect
    BY <2>8 DEF Connect, ShowAction, Enter
  <2>9. CASE Connecting
    BY <2>9 DEF Connecting, WindowPrompt, Enter
  <2>10. CASE ConnectFailed
    BY <2>10 DEF ConnectFailed, WindowPrompt, Enter
  <2>11. CASE ConnectRetry
    BY <2>11 DEF ConnectRetry
  <2>12. CASE Connected
    BY <2>12 DEF Connected
  <2>13. CASE ShowComponents
    BY <2>13 DEF ShowComponents
  <2>14. CASE Exit
    BY <2>14 DEF Exit
  <2>15. CASE Join
    BY <2>15 DEF Join
  <2>16. CASE Delete
    BY <2>16 DEF Delete, Windows
  <2>17. CASE Game
    <3>0. At("main", "game")
      BY <2>17 DEF Game
    <3>1. CASE ShowAction("main", "game") \/ WindowPrompt("main", "game")
      <4>1. Goto("main", "game") /\ UNCHANGED <<guiHalt, asleep, action, look>>
        BY <2>17, <3>1 DEF Game, ShowAction, WindowPrompt, Enter
      <4> QED
        BY <3>0, <4>1
    <3>2. CASE /\ alive' = TRUE /\ mainState' = "DEFAULT"
               /\ Goto("main", "between") \/ Call("main", "resume", "between")
               /\ UNCHANGED <<guiHalt, asleep, action, windows, live, oldState, clicked>>
      <4>1. alive' \in BOOLEAN /\ alive'
        BY <3>2
      <4> QED
        BY <3>0, <3>2, <4>1
    <3> QED
      BY <2>17, <3>1, <3>2 DEF Game
  <2> QED
    BY <1>4, <2>1, <2>2, <2>3, <2>4, <2>5, <2>6, <2>7, <2>8, <2>9,
       <2>10, <2>11, <2>12, <2>13, <2>14, <2>15, <2>16, <2>17 DEF Main
<1>5. CASE Updater
  BY <1>5 DEF Updater, WindowPrompt, ShowProgress, Enter
<1> QED
  BY <1>1, <1>2, <1>3, <1>4, <1>5 DEF Move

-----------------------------------------------------------------------------
(* The invariant as a whole. *)

\* No thread runs, and the game has the screen.
LEMMA InitHolds == Init => Whole
<1> SUFFICES ASSUME Init PROVE Whole
  OBVIOUS
<1> USE DEF Init, Threads, Editors, Leaf, Prompts, Showings, MainTasks, UpdaterTasks, ProgressTasks, Places, Stage,
             Task, At, Offered
<1>1. /\ pc = [t \in Threads |-> CASE t = "gui" -> "suspended" [] t = "main" -> "game"
                                   [] t = "progress" -> "test" [] OTHER -> "none"]
      /\ pc["gui"] = "suspended" /\ pc["main"] = "game" /\ pc["progress"] = "test" /\ pc["updater"] = "none"
  OBVIOUS
<1>2. \A t \in Editors : ret[t] = "none" /\ back[t] = "none"
  OBVIOUS
<1>3. pc \in [Threads -> Places] /\ ret \in [Editors -> Places] /\ back \in [Editors -> Places]
  BY <1>1
<1>4. Types
  <2>1. guiHalt \in BOOLEAN /\ alive \in BOOLEAN
    OBVIOUS
  <2>2. showProgress \in 0..2 /\ progressTotal \in 0..1 /\ kind \in 0..2
    OBVIOUS
  <2>3. asleep \subseteq {"gui", "progress"} /\ windows \subseteq Windows /\ live \subseteq windows
    OBVIOUS
  <2> QED
    BY <1>3, <2>1, <2>2, <2>3 DEF Types
<1>5. MainPlaced /\ UpdaterPlaced /\ ProgressPlaced /\ GuiPlaced /\ Alone
  BY <1>1, <1>2 DEF MainPlaced, UpdaterPlaced, ProgressPlaced, GuiPlaced, Alone, Clear
<1>6. ActionInv
  BY <1>1, <1>2 DEF ActionInv, ActionShown, TotalSet, KindKept, Idle, Acting, Failing, Chosen, WindowUp
<1>7. GuiInv
  BY <1>1, <1>2 DEF GuiInv, Frozen, Holds, Edits, Awake, Served, Changing, Rough, Failing
<1>8. WindowInv
  BY <1>1, <1>2 DEF WindowInv, WindowUp, Asking, InMenu, Loading
<1> QED
  BY <1>4, <1>5, <1>6, <1>7, <1>8 DEF Whole, Control

\* Nothing changes in a step of nobody.
LEMMA StutterHolds == Whole /\ UNCHANGED vars => Whole'
<1> SUFFICES ASSUME Whole, UNCHANGED vars PROVE Whole'
  OBVIOUS
<1>1. Control'
  BY DEF Whole, Control, Types, MainPlaced, UpdaterPlaced, ProgressPlaced, GuiPlaced, Alone, Clear, Offered, Stage, Task,
         At, vars, stack, look, action
<1>2. ActionInv'
  BY DEF Whole, ActionInv, ActionShown, TotalSet, KindKept, Idle, Acting, Failing, Chosen, WindowUp, Stage, At,
         vars, stack, look, action
<1>3. GuiInv'
  BY DEF Whole, GuiInv, Frozen, Holds, Awake, Served, Changing, Rough, Failing, Offered, Stage, Task, At,
         vars, stack, look, action
<1>4. WindowInv'
  BY DEF Whole, WindowInv, WindowUp, Asking, InMenu, Loading, Stage, Task, At, vars, stack, look, action
<1> QED
  BY <1>1, <1>2, <1>3, <1>4 DEF Whole

\* A step after which the two have not met.
LEMMA StepHolds == ASSUME Whole, Move, Clear' PROVE Whole'
<1>1. Control'
  BY ControlStep DEF Whole
<1>2. ActionShown' /\ TotalSet' /\ KindKept'
  BY ShownStep, TotalStep, KindStep DEF Whole, ActionInv
<1>3. GuiInv' /\ WindowInv'
  BY GuiStep, WindowStep DEF Whole, ActionInv
<1> QED
  BY <1>1, <1>2, <1>3 DEF Whole, ActionInv

\* The invariant holds until an offer of an update has coincided with the main
\* thread's work; that it has is remembered.
LEMMA Invariance == Spec => []IInv
<1>1. ASSUME IInv, Next PROVE IInv'
  <2>1. PICK t \in Threads : Step(t)
    BY <1>1 DEF Next
  <2>2. Move
    BY <2>1 DEF Step, Move, Threads
  <2>3. crossed' = (crossed \/ (Offered /\ ~At("main", "poll"))')
    BY <2>1 DEF Step
  <2>4. ASSUME ~crossed' PROVE Whole'
    <3>1. Whole /\ Clear'
      BY <1>1, <2>3, <2>4 DEF IInv, Clear
    <3> QED
      BY <2>2, <3>1, StepHolds
  <2> QED
    BY <2>4 DEF IInv
<1>2. IInv /\ UNCHANGED vars => IInv'
  BY StutterHolds DEF IInv, vars
<1>3. Init => IInv
  BY InitHolds DEF IInv
<1> QED
  BY <1>1, <1>2, <1>3, PTL DEF Spec

-----------------------------------------------------------------------------
(* What the runs check. *)

\* The bar of the progress window never divides by zero (ProgressWindow),
\* whenever connections fail, until an update's offer meets the main thread's work.
THEOREM DividesSafely == Spec => []NoZeroDivide
<1>1. IInv => NoZeroDivide
  BY DEF IInv, Whole, ActionInv, TotalSet, NoZeroDivide, At
<1> QED
  BY <1>1, Invariance, PTL

\* The progress window is of the kind of the action under way (ShowAction,
\* ShowProgress), whenever connections fail, until an update's offer meets the main
\* thread's work.
THEOREM WindowRight == Spec => []WindowTellsAction
<1>1. IInv => WindowTellsAction
  BY DEF IInv, Whole, ActionInv, KindKept, Chosen, WindowInv, WindowTellsAction
<1> QED
  BY <1>1, Invariance, PTL

\* Whoever waits for the user can be answered (WindowPrompt, the menus'
\* loops), whenever connections fail, until an update's offer meets the main thread's
\* work.
THEOREM AnswersReach == Spec => []UserCanAnswer
<1>1. ASSUME Whole PROVE UserCanAnswer
  <2> USE DEF At, Stage, Task, Leaf, Prompts, Showings, Threads, Editors, Offered
  <2>1. ASSUME MenuWaits PROVE windows = {"menu"} /\ live = windows /\ Awake
    <3>1. Idle /\ ~Rough /\ pc["updater"] \in {"none", "over"} /\ At("main", "poll") /\ back["main"] = "none"
      BY <1>1, <2>1 DEF Whole, Control, MainPlaced, UpdaterPlaced, ActionInv, ActionShown, Idle, Acting, Failing,
                        MenuWaits, Rough
    <3>2. Awake
      BY <1>1, <2>1, <3>1 DEF Whole, Control, MainPlaced, UpdaterPlaced, GuiInv, Served, Changing, Holds, Edits, Idle
    <3>3. ~WindowUp /\ ~Asking("main") /\ ~Asking("updater") /\ ~Loading /\ InMenu
      BY <1>1, <3>1 DEF Whole, Control, MainPlaced, UpdaterPlaced, WindowUp, Idle, Asking, Loading, InMenu
    <3>4. windows = {"menu"}
      BY <1>1, <3>3 DEF Whole, Control, Types, WindowInv, Windows
    <3> QED
      BY <1>1, <3>2, <3>3, <3>4 DEF Whole, WindowInv, Control, Types
  <2>2. ASSUME NEW t \in Editors, At(t, "ask") PROVE Prompt[t] \in live /\ Awake
    <3>1. t \in {"main", "updater"} /\ Asking(t)
      BY <1>1, <2>2 DEF Whole, Control, ProgressPlaced, ProgressTasks, Asking
    <3>2. Idle /\ ~Rough /\ \A u \in Editors \ {t} : ~Changing(u)
      BY <1>1, <2>2, <3>1 DEF Whole, Control, MainPlaced, UpdaterPlaced, Alone, Clear, ActionInv, ActionShown, Idle, Acting,
                              Failing, Rough, Changing, Holds, Edits
    <3>3. Awake
      BY <1>1, <2>2, <3>1, <3>2 DEF Whole, GuiInv, Changing, Holds, Edits
    <3> QED
      BY <1>1, <3>1, <3>3 DEF Whole, WindowInv, Prompt
  <2> QED
    BY <2>1, <2>2 DEF UserCanAnswer, Awake, MenuWaits
<1>2. IInv => UserCanAnswer
  BY <1>1 DEF IInv, UserCanAnswer
<1> QED
  BY <1>2, Invariance, PTL

\* Nobody draws mainWindow or changes it while another thread changes it
\* (HaltGui), and whoever uses it finds it, until an update's offer meets the main
\* thread's work; when a connection has failed the GUI thread and the progress thread
\* may meet, and nobody else.
THEOREM ChangesAlone == Spec => []NoDrawWhileChanged
<1>1. ASSUME Whole, NEW t \in Threads, NEW u \in Threads, Uses(t), Uses(u)
      PROVE  alive /\ (t = u \/ (JoinFails /\ {t, u} = {"gui", "progress"}))
  <2> USE DEF At, Threads, Editors, Edits, Uses
  <2>1. alive /\ (t = u \/ t = "gui" \/ u = "gui")
    <3>1. alive
      <4>1. CASE Rough
        BY <1>1, <4>1 DEF Whole, Control, Alone, Rough, Failing, MainPlaced
      <4>2. CASE ~Rough
        <5>1. ASSUME NEW v \in Editors, Holds(v) PROVE ~Uses("gui")
          BY <4>2, <5>1, <1>1 DEF Whole, Control, GuiPlaced, GuiInv, Frozen
        <5> QED
          BY <1>1, <5>1 DEF Whole, Control, MainPlaced, UpdaterPlaced, ProgressPlaced, Alone, Clear, Offered, ActionInv,
                            ActionShown, Idle, Acting, Failing, Holds, UpdaterTasks, Leaf, Prompts
      <4> QED
        BY <4>1, <4>2
    <3>2. ASSUME t \in Editors, u \in Editors PROVE t = u
      BY <1>1, <3>2 DEF Whole, Control, MainPlaced, UpdaterPlaced, ProgressPlaced, Alone, Clear, Offered, ActionInv,
                        ActionShown, Idle, Acting, Failing
    <3> QED
      BY <3>1, <3>2
  <2>2. CASE ~Rough
    <3>1. ASSUME NEW v \in Editors, Holds(v) PROVE ~Uses("gui")
      BY <1>1, <2>2, <3>1 DEF Whole, Control, GuiPlaced, GuiInv, Frozen
    <3> QED
      BY <1>1, <2>1, <3>1 DEF Holds
  <2>3. CASE Rough
    <3>1. ~Uses("main") /\ ~Uses("updater")
      BY <1>1, <2>3 DEF Whole, Control, MainPlaced, UpdaterPlaced, Alone, Clear, Offered, Rough, Failing, Stage, Leaf
    <3>2. Uses("progress") => JoinFails
      BY <1>1, <2>3 DEF Whole, Control, MainPlaced, UpdaterPlaced, ProgressPlaced, Alone, Clear, Offered, ActionInv,
                        ActionShown, Idle, Acting, Rough, Failing, Stage, Leaf, JoinFails
    <3> QED
      BY <1>1, <2>1, <3>1, <3>2
  <2> QED
    BY <2>2, <2>3
<1>2. IInv => NoDrawWhileChanged
  BY <1>1 DEF IInv, NoDrawWhileChanged
<1> QED
  BY <1>2, Invariance, PTL
==============================================================================
