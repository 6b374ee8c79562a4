------------------------------- MODULE Network -------------------------------
(***************************************************************************)
(* The network thread and InitializeNetwork (networkop.cpp).               *)
(*                                                                         *)
(* The thread initialises the network, says so in networkInit and suspends *)
(* itself; StopNetworkThread ends it.  main is where the main thread is in *)
(* InitializeNetwork; the module that uses it sets main to "stop" and goes *)
(* on when it is "idle".  net is the state of the console's network, which *)
(* the program knows only through net_gethostip.                           *)
(***************************************************************************)
EXTENDS Naturals

VARIABLES
    thread,         \* where netcb is; "none": there is no thread
    main,
    netHalt, networkInit, prevInit,
    net             \* the network is up

netvars == <<thread, main, netHalt, networkInit, prevInit, net>>

NetworkInit ==
    /\ thread = "init" /\ main = "idle"
    /\ netHalt = 0 /\ networkInit = FALSE /\ prevInit = FALSE /\ net = FALSE

-----------------------------------------------------------------------------
(* netcb. *)

\* What was initialised before is taken down first; the attempts for as long
\* as the thread is not told to stop are one step.
ThreadInit ==
    /\ thread = "init"
    /\ net' \in (IF prevInit THEN BOOLEAN ELSE {net, TRUE})
    /\ prevInit' \in {FALSE, prevInit}
    /\ thread' = "tell"
    /\ UNCHANGED <<main, netHalt, networkInit>>

ThreadTell ==
    /\ thread = "tell"
    /\ networkInit' = (networkInit \/ net) /\ prevInit' = (prevInit \/ net)
    /\ thread' = IF netHalt = 2 THEN "loop" ELSE "suspend"
    /\ UNCHANGED <<main, netHalt, net>>

ThreadSuspend ==
    /\ thread = "suspend"
    /\ thread' = "suspended"
    /\ UNCHANGED <<main, netHalt, networkInit, prevInit, net>>

ThreadLoop ==
    /\ thread = "loop"
    /\ thread' = IF netHalt = 2 THEN "over" ELSE "init"
    /\ UNCHANGED <<main, netHalt, networkInit, prevInit, net>>

\* The address is lost.
NetworkDown ==
    /\ net /\ networkInit
    /\ net' = FALSE
    /\ UNCHANGED <<thread, main, netHalt, networkInit, prevInit>>

NetworkThread == ThreadInit \/ ThreadTell \/ ThreadSuspend \/ ThreadLoop

-----------------------------------------------------------------------------
(* InitializeNetwork, on the main thread. *)

Woken == IF thread = "suspended" THEN "loop" ELSE thread

\* Wrong: stops a thread that is still at work without waking it.
BadStopNetworkThread ==
    /\ main = "stop"
    /\ IF thread = "none" THEN main' = "test" /\ UNCHANGED netHalt
                          ELSE main' = "join" /\ netHalt' = 2
    /\ UNCHANGED <<thread, networkInit, prevInit, net>>

\* StopNetworkThread leaves a thread alone that has not suspended itself.
StopNetworkThread ==
    /\ main = "stop"
    /\ IF thread = "suspended" THEN main' = "resume" /\ netHalt' = 2
                               ELSE main' = "test" /\ UNCHANGED netHalt
    /\ UNCHANGED <<thread, networkInit, prevInit, net>>

StopResume ==
    /\ main = "resume"
    /\ thread' = Woken /\ main' = "join"
    /\ UNCHANGED <<netHalt, networkInit, prevInit, net>>

StopJoin ==
    /\ main = "join" /\ thread = "over"
    /\ thread' = "none" /\ main' = "test"
    /\ UNCHANGED <<netHalt, networkInit, prevInit, net>>

InitializeTest ==
    /\ main = "test"
    /\ main' = IF networkInit /\ net THEN "idle" ELSE "reset"
    /\ UNCHANGED <<thread, netHalt, networkInit, prevInit, net>>

InitializeReset ==
    /\ main = "reset"
    /\ networkInit' = FALSE /\ main' = "start"
    /\ UNCHANGED <<thread, netHalt, prevInit, net>>

\* StartNetworkThread.
Start ==
    /\ main = "start"
    /\ netHalt' = 0
    /\ thread' = IF thread = "none" THEN "init" ELSE Woken
    /\ main' = "wait"
    /\ UNCHANGED <<networkInit, prevInit, net>>

\* The main thread gives up after ten seconds.
InitializeWait ==
    /\ main = "wait"
    /\ main' = "look"
    /\ UNCHANGED <<thread, netHalt, networkInit, prevInit, net>>

\* It is up, or the user is asked, unless the call is a silent one.
InitializeLook ==
    /\ main = "look"
    /\ main' \in (IF networkInit THEN {"idle"} ELSE {"idle", "start"})
    /\ UNCHANGED <<thread, netHalt, networkInit, prevInit, net>>

InitializeNetwork ==
    \/ StopNetworkThread \/ StopResume \/ StopJoin \/ InitializeTest \/ InitializeReset
    \/ Start \/ InitializeWait \/ InitializeLook

-----------------------------------------------------------------------------
NetworkTypeOK ==
    /\ thread \in {"none", "init", "tell", "suspend", "suspended", "loop", "over"}
    /\ main \in {"idle", "stop", "resume", "join", "test", "reset", "start", "wait", "look"}
    /\ netHalt \in {0, 2} /\ networkInit \in BOOLEAN /\ prevInit \in BOOLEAN /\ net \in BOOLEAN
==============================================================================
