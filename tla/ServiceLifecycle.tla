-------------------------- MODULE ServiceLifecycle --------------------------
(***************************************************************************)
(* The life of a process of the service: the lifespan of the web           *)
(* application (src/app/main.py), start() and stop() of                    *)
(* LiveTelemetryService (src/app/telemetry/service.py) and the lock on the *)
(* data folder (src/app/runtime/single_instance.py).                       *)
(*                                                                         *)
(* Several processes may be launched on one data folder and one UDP port.  *)
(* A step is what the lifespan does from one await or system call that can *)
(* fail to the next; the publisher task and the recorder's thread run      *)
(* beside it.  The recorder's thread is no daemon: the interpreter waits   *)
(* for it before the process exits.  What the recorder does with its       *)
(* events is the subject of SessionRecorder; here it is a thread that may  *)
(* write until it has been told to stop.                                   *)
(***************************************************************************)
EXTENDS Integers

CONSTANTS
    Procs,          \* processes that may be launched on the data folder
    Faults,         \* what may go wrong, of AllFaults
    MaxLaunches,    \* bound: launches of each process
    NoProc          \* the lock or the port is free

AllFaults == {
    "setup",        \* the configuration is invalid, or a folder cannot be made
    "storage",      \* the database cannot be initialized
    "port",         \* another program holds the UDP port: OSError
    "bind",         \* create_datagram_endpoint raises something else
    "discovery",    \* discover_lan_ipv4 raises
    "recorder",     \* the recorder's thread gives up on an SQLite error
    "publisher",    \* the publisher task dies of an exception
    "refused",      \* the interpreter is on its way out and starts no more threads
    "join"}         \* the recorder's thread outlasts the five seconds of join()

ASSUME LifecycleAssumption ==
    /\ NoProc \notin Procs
    /\ Faults \subseteq AllFaults
    /\ MaxLaunches \in Nat

VARIABLES
    lock,           \* who holds the operating system's lock on the lock file
    port,           \* whose socket is bound to the UDP port
    step,           \* where the lifespan of each process is
    publisher,      \* _publisher_task
    recorder,       \* the recorder's thread
    launches        \* history: how often each process was launched

vars == <<lock, port, step, publisher, recorder, launches>>

Steps == {"down", "setup", "locking", "storage", "starting", "binding", "discovering",
          "serving", "closing", "cancelling", "telling", "joining", "releasing", "ended"}
PublisherStates == {"none", "running", "cancelled", "died"}
RecorderStates == {"off", "running", "told", "dead"}

Init ==
    /\ lock = NoProc
    /\ port = NoProc
    /\ step = [p \in Procs |-> "down"]
    /\ publisher = [p \in Procs |-> "none"]
    /\ recorder = [p \in Procs |-> "off"]
    /\ launches = [p \in Procs |-> 0]

Goto(p, place) == step' = [step EXCEPT ![p] = place]

Launch(p) ==
    /\ step[p] = "down"
    /\ launches[p] < MaxLaunches
    /\ launches' = [launches EXCEPT ![p] = @ + 1]
    /\ Goto(p, "setup")
    /\ UNCHANGED <<lock, port, publisher, recorder>>

\* Folders, configuration and logging; the lock is not taken yet.
SetUp(p) ==
    /\ step[p] = "setup"
    /\ \/ Goto(p, "locking")
       \/ "setup" \in Faults /\ Goto(p, "releasing")
    /\ UNCHANGED <<lock, port, publisher, recorder, launches>>

\* Mutant: a lock that cannot be taken is ignored.
AcquireAnyway(p) ==
    /\ step[p] = "locking"
    /\ lock' = IF lock = NoProc THEN p ELSE lock
    /\ Goto(p, "storage")
    /\ UNCHANGED <<port, publisher, recorder, launches>>

\* SingleInstanceLock.acquire: AlreadyRunningError if another process has it.
Acquire(p) ==
    /\ step[p] = "locking"
    /\ IF lock = NoProc
       THEN lock' = p /\ Goto(p, "storage")
       ELSE Goto(p, "releasing") /\ UNCHANGED lock
    /\ UNCHANGED <<port, publisher, recorder, launches>>

InitializeStorage(p) ==
    /\ step[p] = "storage"
    /\ \/ Goto(p, "starting")
       \/ "storage" \in Faults /\ Goto(p, "releasing")
    /\ UNCHANGED <<lock, port, publisher, recorder, launches>>

\* service.start: the recorder's thread first.
StartRecorder(p) ==
    /\ step[p] = "starting"
    /\ recorder' = [recorder EXCEPT ![p] = "running"]
    /\ Goto(p, "binding")
    /\ UNCHANGED <<lock, port, publisher, launches>>

\* The socket, or listener_failed on an OSError; the publisher starts either way.
Bind(p) ==
    /\ step[p] = "binding"
    /\ \/ port = NoProc /\ port' = p
       \/ (port # NoProc \/ "port" \in Faults) /\ UNCHANGED port
    /\ publisher' = [publisher EXCEPT ![p] = "running"]
    /\ Goto(p, "discovering")
    /\ UNCHANGED <<lock, recorder, launches>>

\* Any other exception leaves start(), and the lifespan before its inner try.
BindRaises(p) ==
    /\ step[p] = "binding"
    /\ "bind" \in Faults
    /\ Goto(p, "releasing")
    /\ UNCHANGED <<lock, port, publisher, recorder, launches>>

\* The addresses; from here on service.stop() is called whatever happens.
Discover(p) ==
    /\ step[p] = "discovering"
    /\ \/ Goto(p, "serving")
       \/ "discovery" \in Faults /\ Goto(p, "closing")
    /\ UNCHANGED <<lock, port, publisher, recorder, launches>>

PublisherDies(p) ==
    /\ "publisher" \in Faults
    /\ publisher[p] = "running"
    /\ publisher' = [publisher EXCEPT ![p] = "died"]
    /\ UNCHANGED <<lock, port, step, recorder, launches>>

\* The web server is asked to exit and leaves the yield of the lifespan.
ShutDown(p) ==
    /\ step[p] = "serving"
    /\ Goto(p, "closing")
    /\ UNCHANGED <<lock, port, publisher, recorder, launches>>

\* Mutant: the socket is left to the end of the process.
CloseSocketLater(p) ==
    /\ step[p] = "closing"
    /\ Goto(p, "cancelling")
    /\ UNCHANGED <<lock, port, publisher, recorder, launches>>

\* service.stop: the socket is closed by the loop during sleep(0).
CloseSocket(p) ==
    /\ step[p] = "closing"
    /\ port' = IF port = p THEN NoProc ELSE port
    /\ Goto(p, "cancelling")
    /\ UNCHANGED <<lock, publisher, recorder, launches>>

\* Mutant: the publisher is left running.
CancelPublisherNot(p) ==
    /\ step[p] = "cancelling"
    /\ Goto(p, "telling")
    /\ UNCHANGED <<lock, port, publisher, recorder, launches>>

\* cancel() and await: CancelledError is caught, the exception of a task that has
\* died is raised again here and leaves stop().
CancelPublisher(p) ==
    /\ step[p] = "cancelling"
    /\ IF publisher[p] = "died"
       THEN Goto(p, "releasing") /\ UNCHANGED publisher
       ELSE /\ publisher' = [publisher EXCEPT ![p] = "cancelled"]
            /\ Goto(p, "telling")
    /\ UNCHANGED <<lock, port, recorder, launches>>

\* Mutant: the pill is not put.
TellRecorderNot(p) ==
    /\ step[p] = "telling"
    /\ Goto(p, "joining")
    /\ UNCHANGED <<lock, port, publisher, recorder, launches>>

\* recorder.stop on a thread of its own: the pill.
TellRecorder(p) ==
    /\ step[p] = "telling"
    /\ recorder' = [recorder EXCEPT ![p] = IF @ = "running" THEN "told" ELSE @]
    /\ Goto(p, "joining")
    /\ UNCHANGED <<lock, port, publisher, launches>>

\* asyncio.to_thread raises a RuntimeError, which leaves stop().
TellRefused(p) ==
    /\ step[p] = "telling"
    /\ "refused" \in Faults
    /\ Goto(p, "releasing")
    /\ UNCHANGED <<lock, port, publisher, recorder, launches>>

\* join(5): the thread is dead, or an error is logged and stop() returns.
Join(p) ==
    /\ step[p] = "joining"
    /\ recorder[p] = "dead" \/ "join" \in Faults
    /\ Goto(p, "releasing")
    /\ UNCHANGED <<lock, port, publisher, recorder, launches>>

\* The thread takes the pill, ends its session and closes the database.
RecorderEnds(p) ==
    /\ recorder[p] = "told"
    /\ recorder' = [recorder EXCEPT ![p] = "dead"]
    /\ UNCHANGED <<lock, port, step, publisher, launches>>

\* The thread gives up before it is told.
RecorderFails(p) ==
    /\ "recorder" \in Faults
    /\ recorder[p] = "running"
    /\ recorder' = [recorder EXCEPT ![p] = "dead"]
    /\ UNCHANGED <<lock, port, step, publisher, launches>>

\* Mutant: the lock is left to the end of the process.
ReleaseAtExit(p) ==
    /\ step[p] = "releasing"
    /\ Goto(p, "ended")
    /\ UNCHANGED <<lock, port, publisher, recorder, launches>>

\* SingleInstanceLock.release: nothing to do without a handle of its own.
Release(p) ==
    /\ step[p] = "releasing"
    /\ lock' = IF lock = p THEN NoProc ELSE lock
    /\ Goto(p, "ended")
    /\ UNCHANGED <<port, publisher, recorder, launches>>

Gone(p) ==
    /\ Goto(p, "down")
    /\ publisher' = [publisher EXCEPT ![p] = "none"]
    /\ recorder' = [recorder EXCEPT ![p] = "off"]
    /\ port' = IF port = p THEN NoProc ELSE port
    /\ lock' = IF lock = p THEN NoProc ELSE lock
    /\ UNCHANGED launches

\* The interpreter exits once no thread but daemons is left.
Exit(p) == step[p] = "ended" /\ recorder[p] \in {"off", "dead"} /\ Gone(p)

\* The process is killed; the operating system closes its handles.
Crash(p) == step[p] # "down" /\ Gone(p)

LifespanStep(p) ==
    \/ SetUp(p) \/ Acquire(p) \/ InitializeStorage(p)
    \/ StartRecorder(p) \/ Bind(p) \/ BindRaises(p) \/ Discover(p)
    \/ CloseSocket(p) \/ CancelPublisher(p) \/ TellRecorder(p) \/ TellRefused(p)
    \/ Join(p) \/ Release(p) \/ Exit(p)

Next == \E p \in Procs :
    \/ Launch(p) \/ ShutDown(p) \/ Crash(p)
    \/ LifespanStep(p) \/ PublisherDies(p)
    \/ RecorderEnds(p) \/ RecorderFails(p)

Spec == Init /\ [][Next]_vars

----------------------------------------------------------------------------
(* Properties.                                                             *)

\* Every variable has its type: what the proofs start from.
TypeOK ==
    /\ lock \in Procs \cup {NoProc}
    /\ port \in Procs \cup {NoProc}
    /\ step \in [Procs -> Steps]
    /\ publisher \in [Procs -> PublisherStates]
    /\ recorder \in [Procs -> RecorderStates]
    /\ launches \in [Procs -> Nat]

\* Between acquire() and release() a process counts on being alone.
Managed == {"storage", "starting", "binding", "discovering", "serving",
            "closing", "cancelling", "telling", "joining"}

\* Whatever fails, in whatever process, two lifespans are never past acquire() at
\* once; in particular the launch that is refused does not unlock the folder of the
\* process that refused it (main.py, the outer finally).
OneOwner ==
    \A p, q \in Procs : step[p] \in Managed /\ step[q] \in Managed => p = q

\* No lock outlives its process, after a crash or after any failure of the start:
\* "a leftover file is harmless" (docs/phase9-runtime-foundation.md).
NoStaleLock == lock # NoProc => step[lock] \in Managed \cup {"releasing"}

\* The port goes with the lock: a process that gets the lock never finds the port
\* held by its predecessor, so a restart on the same port is not degraded
\* (service.stop closes the socket before anything in it can fail).
PortFollowsLock == port # NoProc => lock = port

\* "Stop new packets first, then finish the publisher and recorder"
\* (service.py): once the recorder has its pill, no observe() can follow, which
\* SessionRecorder takes for granted.
StopOrder ==
    \A p \in Procs : recorder[p] = "told" =>
        port # p /\ publisher[p] # "running"
=============================================================================
