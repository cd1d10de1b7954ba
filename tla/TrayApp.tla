------------------------------- MODULE TrayApp -------------------------------
(***************************************************************************)
(* Processes of the tray application (src/app/tray.py) on one data folder: *)
(* the lifespan of ServiceLifecycle in a server thread, and beside it the  *)
(* threads of the tray.  The main thread starts the server, waits for it,  *)
(* and then belongs to the tray icon.  Exit and "Save & restart" each run  *)
(* shutdown() in a thread of their own, and the main thread runs it too    *)
(* when the icon's loop has ended.                                         *)
(*                                                                         *)
(* All these threads are daemons, except the main thread and the           *)
(* recorder's: once the main thread returns, the interpreter starts no     *)
(* thread any more, waits for the recorder's thread and then ends the      *)
(* process, wherever its daemons are.  A restart is another process        *)
(* launched while the old one is still on its way out.                     *)
(*                                                                         *)
(* The settings window only counts for its button; a save that fails is    *)
(* shown and no thread follows it.                                         *)
(***************************************************************************)
EXTENDS ServiceLifecycle

CONSTANTS
    Handled,        \* bound: the processes at whose icon something happens
    TrayFaults      \* what may go wrong in the tray, of AllTrayFaults

AllTrayFaults == {
    "slowStart",    \* the server needs more than twelve seconds to start
    "tcp",          \* the TCP port of the dashboard is taken
    "slowStop",     \* the server needs more than twelve seconds to stop, as it does
                    \* while a browser still downloads
    "icon",         \* the icon's loop ends though nobody has stopped it
    "crash"}        \* a process is killed

ASSUME TrayAssumption == TrayFaults \subseteq AllTrayFaults /\ "refused" \in Faults

Threads == {"main", "exit", "restart"}  \* the threads that may run shutdown()

VARIABLES
    main,           \* where the main thread of each process is
    pc,             \* where each thread is in shutdown()
    started,        \* the processes with server.started
    shouldExit,     \* ... with server.should_exit
    shuttingDown,   \* ... with _shutting_down set
    iconStopped,    \* ... with icon.stop() called
    gaveUp          \* history: the processes in which a join() of the server timed out

lifespanVars == <<lock, port, step, publisher, recorder, launches>>
serverVars == <<started, shouldExit>>
trayVars == <<main, pc, started, shouldExit, shuttingDown, iconStopped, gaveUp>>
allVars == <<lifespanVars, trayVars>>

Nowhere == [t \in Threads |-> "none"]

TrayInit ==
    /\ Init
    /\ main = [p \in Procs |-> "off"]
    /\ pc = [p \in Procs |-> Nowhere]
    /\ started = {}
    /\ shouldExit = {}
    /\ shuttingDown = {}
    /\ iconStopped = {}
    /\ gaveUp = {}

MainGoto(p, place) == main' = [main EXCEPT ![p] = place]
ThreadGoto(p, t, place) == pc' = [pc EXCEPT ![p][t] = place]

\* main() has returned: the interpreter is on its way out.
MainOver(p) == main[p] = "failed" \/ pc[p]["main"] = "done"

\* main() up to the start of the server thread.
StartServer(p) ==
    /\ Launch(p)
    /\ MainGoto(p, "waiting")

LaunchByUser(p) ==
    /\ StartServer(p)
    /\ UNCHANGED <<pc, serverVars, shuttingDown, iconStopped, gaveUp>>

----------------------------------------------------------------------------
(* The server thread: uvicorn with the lifespan of main.py.                *)

\* No thread can be started once the main thread is over; the publisher, the
\* recorder and the rest of the lifespan do not depend on it.
LifespanRuns(p) ==
    /\ \/ SetUp(p) \/ Acquire(p) \/ InitializeStorage(p)
       \/ StartRecorder(p) /\ ~MainOver(p)
       \/ Bind(p) \/ BindRaises(p) \/ Discover(p)
       \/ CloseSocket(p) \/ CancelPublisher(p)
       \/ TellRecorder(p) /\ ~MainOver(p)
       \/ TellRefused(p) /\ MainOver(p)
       \/ Join(p) \/ Release(p)
    /\ UNCHANGED trayVars

ThreadsRun(p) ==
    /\ PublisherDies(p) \/ RecorderEnds(p) \/ RecorderFails(p)
    /\ UNCHANGED trayVars

\* Between lifespan startup and serving uvicorn opens the TCP port; if it cannot, it
\* ends the lifespan and the thread.
Serve(p) ==
    /\ step[p] = "serving"
    /\ p \notin started
    /\ \/ started' = started \cup {p} /\ UNCHANGED lifespanVars
       \/ "tcp" \in TrayFaults /\ ShutDown(p) /\ UNCHANGED started
    /\ UNCHANGED <<main, pc, shouldExit, shuttingDown, iconStopped, gaveUp>>

\* uvicorn sees should_exit and has waited for its connections.
StopServing(p) ==
    /\ p \in started \cap shouldExit
    /\ ShutDown(p)
    /\ UNCHANGED trayVars

----------------------------------------------------------------------------
(* The main thread.                                                        *)

\* The icon is made and shown.
ShowIcon(p) ==
    /\ main[p] = "waiting"
    /\ p \in started
    /\ MainGoto(p, "icon")
    /\ UNCHANGED <<lifespanVars, pc, serverVars, shuttingDown, iconStopped, gaveUp>>

\* The server thread is dead, or twelve seconds are over: RuntimeError, a dialog, and
\* main() returns 1 without shutdown().
StartFails(p) ==
    /\ main[p] = "waiting"
    /\ step[p] = "ended" \/ ("slowStart" \in TrayFaults /\ p \notin started)
    /\ MainGoto(p, "failed")
    /\ UNCHANGED <<lifespanVars, pc, serverVars, shuttingDown, iconStopped, gaveUp>>

\* icon.run returns, stopped or "broken"; the finally block calls shutdown().
IconEnds(p) ==
    /\ main[p] = "icon"
    /\ \/ p \in iconStopped /\ MainGoto(p, "shutdown")
       \/ "icon" \in TrayFaults /\ p \in Handled \ iconStopped /\ MainGoto(p, "broken")
    /\ ThreadGoto(p, "main", "check")
    /\ UNCHANGED <<lifespanVars, serverVars, shuttingDown, iconStopped, gaveUp>>

\* The process ends wherever its daemon threads are: for the lifespan, a crash.
Vanish(p) ==
    /\ Crash(p)
    /\ MainGoto(p, "off")
    /\ pc' = [pc EXCEPT ![p] = Nowhere]
    /\ started' = started \ {p}
    /\ shouldExit' = shouldExit \ {p}
    /\ shuttingDown' = shuttingDown \ {p}
    /\ iconStopped' = iconStopped \ {p}
    /\ gaveUp' = gaveUp \ {p}

\* The interpreter is left: no thread but daemons, and those die with it.
ProcessEnds(p) ==
    /\ MainOver(p)
    /\ recorder[p] \in {"off", "dead"}
    /\ Vanish(p)

\* The process is killed.
Killed(p) == "crash" \in TrayFaults /\ Vanish(p)

----------------------------------------------------------------------------
(* The menu and the settings window.                                       *)

\* A click on Exit, or on "Save & restart" with settings that could be written.  A
\* second click on either does what a click on the other does.
Click(p, t) ==
    /\ main[p] = "icon"
    /\ p \in Handled
    /\ t \in {"exit", "restart"}
    /\ pc[p][t] = "none"
    /\ ThreadGoto(p, t, "check")
    /\ UNCHANGED <<lifespanVars, main, serverVars, shuttingDown, iconStopped, gaveUp>>

----------------------------------------------------------------------------
(* shutdown(), in any of the three threads.                                *)

Check(p, t) ==
    /\ pc[p][t] = "check"
    /\ ThreadGoto(p, t, IF p \in shuttingDown THEN "done" ELSE "set")
    /\ UNCHANGED <<lifespanVars, main, serverVars, shuttingDown, iconStopped, gaveUp>>

Set(p, t) ==
    /\ pc[p][t] = "set"
    /\ shuttingDown' = shuttingDown \cup {p}
    /\ shouldExit' = shouldExit \cup {p}
    /\ ThreadGoto(p, t, "join")
    /\ UNCHANGED <<lifespanVars, main, started, iconStopped, gaveUp>>

\* Mutant: the icon is not stopped.
StopIconNot(p) == UNCHANGED iconStopped

StopIcon(p) == iconStopped' = iconStopped \cup {p}

\* Mutant: the server thread is not waited for.
JoinServerNot(p, t) ==
    /\ pc[p][t] = "join"
    /\ StopIcon(p)
    /\ ThreadGoto(p, t, IF t = "restart" THEN "popen" ELSE "done")
    /\ UNCHANGED <<lifespanVars, main, serverVars, shuttingDown, gaveUp>>

\* The server thread is dead, or twelve seconds are over; the icon is stopped.
JoinServer(p, t) ==
    /\ pc[p][t] = "join"
    /\ \/ step[p] = "ended" /\ UNCHANGED gaveUp
       \/ step[p] # "ended" /\ "slowStop" \in TrayFaults /\ gaveUp' = gaveUp \cup {p}
    /\ StopIcon(p)
    /\ ThreadGoto(p, t, IF t = "restart" THEN "popen" ELSE "done")
    /\ UNCHANGED <<lifespanVars, main, serverVars, shuttingDown>>

\* Within the bounds there may be no process left to launch.
Popen(p, t) ==
    /\ pc[p][t] = "popen"
    /\ \/ \E q \in Procs : StartServer(q)
       \/ /\ \A q \in Procs : step[q] # "down" \/ launches[q] = MaxLaunches
          /\ UNCHANGED <<lifespanVars, main>>
    /\ ThreadGoto(p, t, "done")
    /\ UNCHANGED <<serverVars, shuttingDown, iconStopped, gaveUp>>

ShutdownStep(p, t) == Check(p, t) \/ Set(p, t) \/ JoinServer(p, t) \/ Popen(p, t)

MainThread(p) ==
    \/ ShowIcon(p) \/ StartFails(p) \/ (p \in iconStopped /\ IconEnds(p))
    \/ ShutdownStep(p, "main") \/ ProcessEnds(p)
ServerThread(p) == LifespanRuns(p) \/ Serve(p)
RecorderThread(p) == RecorderEnds(p) /\ UNCHANGED trayVars

TrayNext == \E p \in Procs :
    \/ LaunchByUser(p)
    \/ LifespanRuns(p) \/ ThreadsRun(p) \/ Serve(p) \/ StopServing(p)
    \/ ShowIcon(p) \/ StartFails(p) \/ IconEnds(p) \/ ProcessEnds(p) \/ Killed(p)
    \/ \E t \in Threads : Click(p, t) \/ ShutdownStep(p, t)

TraySpec == TrayInit /\ [][TrayNext]_allVars

\* Every thread runs on, and a recorder that was told ends.  The user need not do
\* anything, nothing need fail, and the browsers need not let the server stop.
FairTraySpec ==
    /\ TraySpec
    /\ \A p \in Procs :
          /\ WF_allVars(ServerThread(p)) /\ WF_allVars(RecorderThread(p))
          /\ WF_allVars(MainThread(p))
          /\ p \in Handled => \A t \in {"exit", "restart"} : WF_allVars(ShutdownStep(p, t))

----------------------------------------------------------------------------
(* Properties.                                                             *)

\* The main thread is over and nobody can tell the recorder any more.
Orphaned(p) == MainOver(p) /\ recorder[p] = "running"

\* What may leave a recorder untold though shutdown() has run: the exception of a dead
\* publisher left stop(), or the icon has ended by itself: the main thread, if it finds
\* _shutting_down set, goes without waiting for the server.
Untold(p) == publisher[p] = "died" \/ main[p] = "broken"

\* Unless a join() timed out, the old process has let go of the lock and of the UDP
\* port before the restart launches the new one, which so cannot be refused, and before
\* the main thread returns from an icon that was stopped, whichever of the threads that
\* came into shutdown() did the work.  "Exiting normally finalizes the current driving
\* session" (docs/windows-tray-app.md): by then its recorder has been told to stop, or
\* is dead, but for the two cases of Untold.  A recorder that outlasts its own join()
\* counts as told: its session may still be open then, and the interpreter waits for it.
ServerStopsFirst ==
    \A p \in Procs \ gaveUp :
        \/ pc[p]["restart"] = "popen"
        \/ pc[p]["main"] = "done" /\ p \in iconStopped
        => /\ step[p] = "ended" /\ p \notin {lock, port}
           /\ recorder[p] # "running" \/ Untold(p)

\* A stop that has told the recorder ends the process, however long the recorder's
\* thread outlasts its join() and whatever the tray's threads do meanwhile.
StopExits ==
    \A p \in Procs : step[p] = "joining" ~> step[p] = "down"

\* Exit always ends the process, also when a restart or another failure comes in
\* between, unless the main thread has left a recorder that was not told: the join of
\* the server timed out, or one of the two cases of Untold.
ExitCompletes ==
    \A p \in Handled : pc[p]["exit"] = "check" ~>
        main[p] = "off" \/ (Orphaned(p) /\ (p \in gaveUp \/ Untold(p)))

\* "Port changes are written [...] and the app restarts itself"
\* (docs/windows-tray-app.md): a process in which a restart was asked for, and nobody
\* asked for Exit, does not end before the new process is launched.
RestartHappens ==
    [][\A p \in Procs :
          ProcessEnds(p) /\ pc[p]["exit"] = "none" => pc[p]["restart"] \in {"none", "done"}]_allVars
=============================================================================
