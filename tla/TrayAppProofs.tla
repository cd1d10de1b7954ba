---------------------------- MODULE TrayAppProofs ----------------------------
(***************************************************************************)
(* Theorems about ServiceLifecycle, for any processes and faults, and about *)
(* TrayApp, whose lifespan takes its steps, for any bounds besides.        *)
(***************************************************************************)
EXTENDS TrayApp, TLAPS

----------------------------------------------------------------------------
(* The lifespan alone.                                                     *)

\* The invariant behind the properties: who is past acquire() has the lock, who has
\* the lock is on its way to release(), the socket is open only while the service
\* runs, and the recorder is told only after the publisher has been cancelled.
LifeInv ==
    /\ TypeOK
    /\ \A p \in Procs : step[p] \in Managed => lock = p
    /\ NoStaleLock
    /\ port # NoProc => step[port] \in {"discovering", "serving", "closing"}
    /\ \A p \in Procs : step[p] = "telling" => publisher[p] = "cancelled"
    /\ \A p \in Procs : recorder[p] = "told" =>
          /\ step[p] \in {"joining", "releasing", "ended"}
          /\ publisher[p] = "cancelled"

\* The invariant holds when no process is up.
LEMMA LifeInit == Init => LifeInv
  BY LifecycleAssumption
  DEF Init, LifeInv, TypeOK, NoStaleLock, Managed, Steps, PublisherStates, RecorderStates

\* Every step of every process preserves the invariant.
LEMMA LifeStep == LifeInv /\ [Next]_vars => LifeInv'
  <1> SUFFICES ASSUME LifeInv, [Next]_vars PROVE LifeInv'
    OBVIOUS
  <1> USE LifecycleAssumption
      DEF LifeInv, TypeOK, NoStaleLock, Managed, Steps, PublisherStates, RecorderStates, Goto
  <1>1. CASE UNCHANGED vars
    BY <1>1 DEF vars
  <1>2. CASE Next
    <2> PICK p \in Procs :
            \/ Launch(p) \/ ShutDown(p) \/ Crash(p)
            \/ LifespanStep(p) \/ PublisherDies(p)
            \/ RecorderEnds(p) \/ RecorderFails(p)
      BY <1>2 DEF Next
    <2>1. CASE Launch(p)
      BY <2>1 DEF Launch
    <2>2. CASE ShutDown(p)
      BY <2>2 DEF ShutDown
    <2>3. CASE Gone(p)
      BY <2>3 DEF Gone
    <2>4. CASE SetUp(p)
      BY <2>4 DEF SetUp
    <2>5. CASE Acquire(p)
      BY <2>5 DEF Acquire
    <2>6. CASE InitializeStorage(p)
      BY <2>6 DEF InitializeStorage
    <2>7. CASE StartRecorder(p)
      BY <2>7 DEF StartRecorder
    <2>8. CASE Bind(p)
      BY <2>8 DEF Bind
    <2>9. CASE BindRaises(p)
      BY <2>9 DEF BindRaises
    <2>10. CASE Discover(p)
      BY <2>10 DEF Discover
    <2>11. CASE CloseSocket(p)
      BY <2>11 DEF CloseSocket
    <2>12. CASE CancelPublisher(p)
      BY <2>12 DEF CancelPublisher
    <2>13. CASE TellRecorder(p)
      BY <2>13 DEF TellRecorder
    <2>14. CASE Join(p)
      BY <2>14 DEF Join
    <2>15. CASE Release(p)
      BY <2>15 DEF Release
    <2>16. CASE PublisherDies(p)
      BY <2>16 DEF PublisherDies
    <2>17. CASE RecorderEnds(p)
      BY <2>17 DEF RecorderEnds
    <2>18. CASE RecorderFails(p)
      BY <2>18 DEF RecorderFails
    <2>19. CASE TellRefused(p)
      BY <2>19 DEF TellRefused
    <2> QED
      BY <2>1, <2>2, <2>3, <2>4, <2>5, <2>6, <2>7, <2>8, <2>9, <2>10, <2>11, <2>12,
         <2>13, <2>14, <2>15, <2>16, <2>17, <2>18, <2>19
      DEF LifespanStep, Exit, Crash
  <1> QED
    BY <1>1, <1>2

\* The invariant holds in every execution.
LEMMA LifeAlways == Spec => []LifeInv
  BY LifeInit, LifeStep, PTL DEF Spec

\* Whatever goes wrong in any number of processes, at most one of them is between
\* acquire() and release() of the lock of the data folder.
THEOREM OneOwnerAlways == Spec => []OneOwner
  <1>1. LifeInv => OneOwner
    BY DEF LifeInv, OneOwner
  <1> QED
    BY <1>1, LifeAlways, PTL

\* No failure and no crash leaves the lock taken by a process that is not going to
\* release it.
THEOREM LockNeverStale == Spec => []NoStaleLock
  <1>1. LifeInv => NoStaleLock
    BY DEF LifeInv
  <1> QED
    BY <1>1, LifeAlways, PTL

\* The socket of stop() is closed before the lock is released, on every path.
THEOREM PortAlwaysFollowsLock == Spec => []PortFollowsLock
  <1>1. LifeInv => PortFollowsLock
    BY DEF LifeInv, PortFollowsLock, TypeOK, Managed
  <1> QED
    BY <1>1, LifeAlways, PTL

\* The recorder is told to stop only when neither a packet nor an observation can
\* come any more.
THEOREM StopAlwaysInOrder == Spec => []StopOrder
  <1>1. LifeInv => StopOrder
    BY LifecycleAssumption DEF LifeInv, StopOrder, TypeOK
  <1> QED
    BY <1>1, LifeAlways, PTL

----------------------------------------------------------------------------
(* Under the tray.                                                         *)

\* Whatever the threads of the tray do, the lifespan only takes the steps of
\* ServiceLifecycle: a process that ends under its daemons ends as in a crash.
LEMMA TrayStep == [TrayNext]_allVars => [Next]_vars
  <1> SUFFICES ASSUME [TrayNext]_allVars PROVE [Next]_vars
    OBVIOUS
  <1> USE DEF lifespanVars
  <1>1. CASE UNCHANGED allVars
    BY <1>1 DEF allVars, vars
  <1>2. CASE TrayNext
    <2> PICK p \in Procs :
            \/ LaunchByUser(p)
            \/ LifespanRuns(p) \/ ThreadsRun(p) \/ Serve(p) \/ StopServing(p)
            \/ ShowIcon(p) \/ StartFails(p) \/ IconEnds(p) \/ ProcessEnds(p) \/ Killed(p)
            \/ \E t \in Threads : Click(p, t) \/ ShutdownStep(p, t)
      BY <1>2 DEF TrayNext
    <2>1. CASE LaunchByUser(p)
      BY <2>1 DEF LaunchByUser, StartServer, Next
    <2>2. CASE LifespanRuns(p)
      BY <2>2 DEF LifespanRuns, LifespanStep, Next
    <2>3. CASE ThreadsRun(p)
      BY <2>3 DEF ThreadsRun, Next
    <2>4. CASE Serve(p) \/ StopServing(p)
      BY <2>4 DEF Serve, StopServing, Next, vars
    <2>5. CASE ShowIcon(p) \/ StartFails(p) \/ IconEnds(p)
      BY <2>5 DEF ShowIcon, StartFails, IconEnds, vars
    <2>6. CASE ProcessEnds(p) \/ Killed(p)
      BY <2>6 DEF ProcessEnds, Killed, Vanish, Next
    <2>7. CASE \E t \in Threads : Click(p, t) \/ ShutdownStep(p, t)
      <3> PICK t \in Threads : Click(p, t) \/ ShutdownStep(p, t)
        BY <2>7
      <3>1. CASE Click(p, t) \/ Check(p, t) \/ Set(p, t) \/ JoinServer(p, t)
        BY <3>1 DEF Click, Check, Set, JoinServer, vars
      <3>2. CASE Popen(p, t)
        BY <3>2 DEF Popen, StartServer, Next, vars
      <3> QED
        BY <3>1, <3>2 DEF ShutdownStep
    <2> QED
      BY <2>1, <2>2, <2>3, <2>4, <2>5, <2>6, <2>7
  <1> QED
    BY <1>1, <1>2

\* Processes of the tray application are processes of the service: whatever their
\* threads do, and whatever users do to them, TrayApp implements ServiceLifecycle.
THEOREM TrayImplementsLifecycle == TraySpec => Spec
  <1>1. TrayInit => Init
    BY DEF TrayInit
  <1> QED
    BY <1>1, TrayStep, PTL DEF TraySpec, Spec

\* The main thread has shown the icon, and may have left it.
Shown == {"icon", "shutdown", "broken"}

\* The lifespan has reached its yield.
FromServing ==
    {"serving", "closing", "cancelling", "telling", "joining", "releasing", "ended"}

\* Where a process is, for the main thread, for the server and for shutdown(): it is up
\* from the main thread's start; the server serves from server.started to should_exit;
\* threads come into shutdown() once the icon was shown, the main thread only from an
\* icon that was stopped or has ended by itself.
PlaceInv ==
    /\ pc \in [Procs -> [Threads -> {"none", "check", "set", "join", "popen", "done"}]]
    /\ main \in [Procs -> {"off", "waiting", "failed"} \cup Shown]
    /\ \A p \in Procs : main[p] = "off" <=> step[p] = "down"
    /\ \A p \in Procs :
          p \in started =>
              /\ main[p] # "off"
              /\ step[p] \in FromServing
              /\ step[p] = "serving" \/ p \in shouldExit
    /\ \A p \in Procs : main[p] \in Shown => p \in started
    /\ \A p \in Procs :
          p \in shouldExit \/ p \in iconStopped \/ p \in gaveUp => main[p] \in Shown
    /\ \A p \in Procs, t \in Threads : pc[p][t] # "none" => main[p] \in Shown
    /\ \A p \in Procs : pc[p]["main"] # "none" => main[p] \in {"shutdown", "broken"}
    /\ \A p \in Procs : main[p] = "shutdown" => p \in iconStopped

\* What ServerStopsFirst says of the server: once it has ended it stays so while its
\* process lives, and the threads of a new process start afresh.
EndInv ==
    \A p \in Procs \ gaveUp :
        p \in iconStopped \/ pc[p]["restart"] = "popen" => step[p] = "ended"

\* What it says of the recorder, from the step of the server that should tell it.  It
\* could only refuse to if the main thread were over, and that waits for the server.
ToldInv ==
    \A p \in Procs \ gaveUp :
        main[p] \in Shown /\ step[p] \in {"joining", "releasing", "ended"} =>
            recorder[p] # "running" \/ Untold(p)

TrayInv == PlaceInv /\ EndInv /\ ToldInv

\* No process is up, and no thread is anywhere.
LEMMA TrayInvInit == TrayInit => TrayInv
  BY DEF TrayInit, Init, TrayInv, PlaceInv, EndInv, ToldInv, Nowhere, Threads, Shown

\* The steps of the server's threads: a server that has ended stays so until the process
\* vanishes; until should_exit is set, one that serves goes on; none of them starts or
\* ends a process, and the recorder is left untold only by a server whose publisher has
\* died, or that finds the main thread over.
LEMMA ServerSteps ==
  ASSUME TypeOK, PlaceInv, NEW p \in Procs,
         LifespanRuns(p) \/ ThreadsRun(p) \/ Serve(p) \/ StopServing(p)
  PROVE  /\ UNCHANGED <<main, pc, shouldExit, shuttingDown, iconStopped, gaveUp>>
         /\ started \subseteq started' /\ started' \subseteq started \cup {p}
         /\ p \in started' \ started => step'[p] = "serving"
         /\ \A q \in Procs :
               /\ step[q] = "ended" => step'[q] = "ended"
               /\ step'[q] = "down" <=> step[q] = "down"
               /\ q \in started /\ q \notin shouldExit => step'[q] = step[q]
               /\ q \in started => step'[q] \in FromServing
               /\ q \in started /\ publisher[q] = "died" => publisher'[q] = "died"
               /\ /\ q \in started
                  /\ recorder'[q] = "running"
                  /\ step'[q] \in {"joining", "releasing", "ended"}
                  => \/ step[q] \in {"joining", "releasing", "ended"} /\ recorder[q] = "running"
                     \/ publisher'[q] = "died"
                     \/ step[q] = "telling" /\ MainOver(q)
  <1> USE DEF TypeOK, Steps, PlaceInv, FromServing, Goto, trayVars, lifespanVars, PublisherStates
  <1>1. CASE LifespanRuns(p)
    <2>1. CASE SetUp(p) \/ InitializeStorage(p)
      BY <1>1, <2>1 DEF LifespanRuns, SetUp, InitializeStorage
    <2>2. CASE Acquire(p)
      BY <1>1, <2>2 DEF LifespanRuns, Acquire
    <2>3. CASE StartRecorder(p) \/ BindRaises(p) \/ Discover(p)
      BY <1>1, <2>3 DEF LifespanRuns, StartRecorder, BindRaises, Discover
    <2>4. CASE Bind(p)
      BY <1>1, <2>4 DEF LifespanRuns, Bind
    <2>5. CASE CloseSocket(p) \/ CancelPublisher(p)
      BY <1>1, <2>5 DEF LifespanRuns, CloseSocket, CancelPublisher
    <2>6. CASE TellRecorder(p)
      BY <1>1, <2>6 DEF LifespanRuns, TellRecorder
    <2>7. CASE TellRefused(p) /\ MainOver(p)
      BY <1>1, <2>7 DEF LifespanRuns, TellRefused
    <2>8. CASE Join(p) \/ Release(p)
      BY <1>1, <2>8 DEF LifespanRuns, Join, Release
    <2> QED
      BY <1>1, <2>1, <2>2, <2>3, <2>4, <2>5, <2>6, <2>7, <2>8 DEF LifespanRuns
  <1>2. CASE ThreadsRun(p)
    BY <1>2 DEF ThreadsRun, PublisherDies, RecorderEnds, RecorderFails
  <1>3. CASE Serve(p) \/ StopServing(p)
    BY <1>3 DEF Serve, StopServing, ShutDown
  <1> QED
    BY <1>1, <1>2, <1>3

\* A server that still has to tell its recorder finds the main thread over only if the
\* icon has ended by itself: shutdown() of a stopped icon waits for the server.
LEMMA NeverOverBeforeTold ==
  ASSUME PlaceInv, EndInv, NEW p \in Procs \ gaveUp, main[p] \in Shown,
         step[p] # "ended", MainOver(p)
  PROVE  main[p] = "broken"
  BY DEF PlaceInv, EndInv, MainOver, Shown, Threads

\* Every step of every thread preserves the invariant.
LEMMA TrayInvStep == TypeOK /\ TrayInv /\ [TrayNext]_allVars => TrayInv'
  <1> SUFFICES ASSUME TypeOK, TrayInv, [TrayNext]_allVars PROVE TrayInv'
    OBVIOUS
  <1> USE DEF TypeOK, Threads, lifespanVars, serverVars, MainGoto, ThreadGoto, Untold
  <1>0. PlaceInv /\ EndInv /\ ToldInv
    BY DEF TrayInv
  <1>1. CASE UNCHANGED allVars
    BY <1>1 DEF allVars, trayVars, TrayInv, PlaceInv, EndInv, ToldInv
  <1>2. CASE TrayNext
    <2> PICK p \in Procs :
            \/ LaunchByUser(p)
            \/ LifespanRuns(p) \/ ThreadsRun(p) \/ Serve(p) \/ StopServing(p)
            \/ ShowIcon(p) \/ StartFails(p) \/ IconEnds(p) \/ ProcessEnds(p) \/ Killed(p)
            \/ \E t \in Threads : Click(p, t) \/ ShutdownStep(p, t)
      BY <1>2 DEF TrayNext
    <2>1. CASE LaunchByUser(p)
      <3>1. PlaceInv'
        BY <1>0, <2>1 DEF LaunchByUser, StartServer, Launch, Goto, PlaceInv, Shown, FromServing
      <3>2. EndInv'
        BY <1>0, <2>1 DEF LaunchByUser, StartServer, Launch, Goto, EndInv, PlaceInv, Shown, FromServing
      <3>3. ToldInv'
        BY <1>0, <2>1 DEF LaunchByUser, StartServer, Launch, Goto, ToldInv, PlaceInv, Shown, FromServing
      <3> QED
        BY <3>1, <3>2, <3>3 DEF TrayInv
    <2>2. CASE LifespanRuns(p) \/ ThreadsRun(p) \/ Serve(p) \/ StopServing(p)
      <3>1. PlaceInv'
        BY <1>0, <2>2, ServerSteps DEF PlaceInv, Shown, FromServing
      <3>2. EndInv'
        BY <1>0, <2>2, ServerSteps DEF EndInv
      <3>3. ToldInv'
        <4> SUFFICES ASSUME NEW q \in Procs \ gaveUp, main[q] \in Shown,
                            step'[q] \in {"joining", "releasing", "ended"},
                            recorder'[q] = "running"
                     PROVE  publisher'[q] = "died" \/ main[q] = "broken"
          BY <1>0, <2>2, ServerSteps DEF ToldInv
        <4>1. q \in started
          BY <1>0 DEF PlaceInv
        <4>2. CASE step[q] \in {"joining", "releasing", "ended"} /\ recorder[q] = "running"
          BY <1>0, <2>2, <4>1, <4>2, ServerSteps DEF ToldInv
        <4>3. CASE step[q] = "telling" /\ MainOver(q)
          BY <1>0, <4>3, NeverOverBeforeTold
        <4> QED
          BY <1>0, <2>2, <4>1, <4>2, <4>3, ServerSteps
      <3> QED
        BY <3>1, <3>2, <3>3 DEF TrayInv
    <2>3. CASE ShowIcon(p) \/ StartFails(p)
      <3>1. PlaceInv'
        <4>1. CASE ShowIcon(p)
          BY <1>0, <4>1 DEF ShowIcon, PlaceInv, Shown
        <4>2. CASE StartFails(p)
          BY <1>0, <4>2 DEF StartFails, PlaceInv, Shown
        <4> QED
          BY <2>3, <4>1, <4>2
      <3>2. EndInv'
        BY <1>0, <2>3 DEF ShowIcon, StartFails, EndInv
      <3>3. ToldInv'
        BY <1>0, <2>3 DEF ShowIcon, StartFails, ToldInv, PlaceInv, Shown, FromServing
      <3> QED
        BY <3>1, <3>2, <3>3 DEF TrayInv
    <2>4. CASE IconEnds(p)
      <3>1. PlaceInv'
        <4> PICK place \in {"shutdown", "broken"} :
                /\ main' = [main EXCEPT ![p] = place]
                /\ place = "shutdown" => p \in iconStopped
          BY <2>4 DEF IconEnds
        <4> main[p] = "icon" /\ pc' = [pc EXCEPT ![p]["main"] = "check"]
          BY <2>4 DEF IconEnds
        <4> UNCHANGED <<step, started, shouldExit, iconStopped, gaveUp>>
          BY <2>4 DEF IconEnds
        <4> QED
          BY <1>0 DEF PlaceInv, Shown
      <3>2. EndInv'
        BY <1>0, <2>4 DEF IconEnds, EndInv, PlaceInv
      <3>3. ToldInv'
        BY <1>0, <2>4 DEF IconEnds, ToldInv, PlaceInv, Shown
      <3> QED
        BY <3>1, <3>2, <3>3 DEF TrayInv
    <2>5. CASE ProcessEnds(p) \/ Killed(p)
      <3>1. PlaceInv'
        <4> Vanish(p)
          BY <2>5 DEF ProcessEnds, Killed
        <4>1. /\ main' = [main EXCEPT ![p] = "off"] /\ step' = [step EXCEPT ![p] = "down"]
              /\ started' = started \ {p} /\ shouldExit' = shouldExit \ {p}
              /\ iconStopped' = iconStopped \ {p} /\ gaveUp' = gaveUp \ {p}
              /\ pc' = [pc EXCEPT ![p] = Nowhere]
          BY DEF Vanish, Crash, Gone, Goto
        <4>2. pc' \in [Procs -> [Threads -> {"none", "check", "set", "join", "popen", "done"}]]
          BY <1>0, <4>1 DEF PlaceInv, Nowhere
        <4>3. \A q \in Procs, t \in Threads : pc'[q][t] = IF q = p THEN "none" ELSE pc[q][t]
          BY <1>0, <4>1 DEF PlaceInv, Nowhere
        <4> QED
          BY <1>0, <4>1, <4>2, <4>3 DEF PlaceInv, Shown, FromServing
      <3>2. EndInv'
        BY <1>0, <2>5 DEF ProcessEnds, Killed, Vanish, Crash, Gone, Goto, Nowhere,
              EndInv, PlaceInv
      <3>3. ToldInv'
        BY <1>0, <2>5 DEF ProcessEnds, Killed, Vanish, Crash, Gone, Goto, Nowhere,
              ToldInv, PlaceInv, Shown
      <3> QED
        BY <3>1, <3>2, <3>3 DEF TrayInv
    <2>6. CASE \E t \in Threads : Click(p, t) \/ ShutdownStep(p, t)
      <3> PICK t \in Threads : Click(p, t) \/ ShutdownStep(p, t)
        BY <2>6
      <3> USE DEF TrayInv, PlaceInv, EndInv, ToldInv, Shown
      <3>1. CASE Click(p, t)
        BY <3>1 DEF Click
      <3>2. CASE Check(p, t)
        BY <3>2 DEF Check
      <3>3. CASE Set(p, t)
        BY <3>3 DEF Set
      <3>4. CASE JoinServer(p, t)
        BY <3>4 DEF JoinServer, StopIcon
      <3>5. CASE Popen(p, t)
        <4>1. CASE \E q \in Procs : StartServer(q)
          <5> PICK q \in Procs : StartServer(q)
            BY <4>1
          <5>1. /\ main' = [main EXCEPT ![q] = "waiting"]
                /\ step' = [step EXCEPT ![q] = "setup"]
            BY DEF StartServer, Launch, Goto
          <5>2. main[q] = "off" /\ q \notin started /\ p # q
            BY <3>5 DEF StartServer, Launch, Popen
          <5>3. pc' = [pc EXCEPT ![p][t] = "done"] /\ UNCHANGED <<recorder, publisher>>
            BY <3>5 DEF Popen, StartServer, Launch
          <5>4. UNCHANGED <<started, shouldExit, iconStopped, gaveUp>>
            BY <3>5 DEF Popen
          <5> QED
            BY <3>5, <5>1, <5>2, <5>3, <5>4 DEF Popen
        <4>2. CASE ~\E q \in Procs : StartServer(q)
          BY <3>5, <4>2 DEF Popen
        <4> QED
          BY <4>1, <4>2
      <3> QED
        BY <3>1, <3>2, <3>3, <3>4, <3>5 DEF ShutdownStep
    <2> QED
      BY <2>1, <2>2, <2>3, <2>4, <2>5, <2>6
  <1> QED
    BY <1>1, <1>2

\* Whatever threads come into shutdown(), in however many processes: unless a join
\* timed out, the server has ended, given back the lock and the port, and told its
\* recorder, but for the cases of Untold, before the restart launches a process and
\* before the main thread leaves a stopped icon.
THEOREM ServerAlwaysStopsFirst == TraySpec => []ServerStopsFirst
  <1>1. LifeInv /\ TrayInv => ServerStopsFirst
    <2> SUFFICES ASSUME LifeInv, TrayInv, NEW p \in Procs \ gaveUp,
                        \/ pc[p]["restart"] = "popen"
                        \/ pc[p]["main"] = "done" /\ p \in iconStopped
                 PROVE  /\ step[p] = "ended" /\ p \notin {lock, port}
                        /\ recorder[p] # "running" \/ Untold(p)
      BY DEF ServerStopsFirst
    <2>1. step[p] = "ended" /\ main[p] \in Shown
      BY DEF TrayInv, PlaceInv, EndInv, Threads
    <2>2. p \notin {lock, port}
      BY <2>1, LifecycleAssumption DEF LifeInv, TypeOK, NoStaleLock, Managed
    <2> QED
      BY <2>1, <2>2 DEF TrayInv, ToldInv
  <1>2. LifeInv => TypeOK
    BY DEF LifeInv
  <1>3. TraySpec => []LifeInv
    BY TrayImplementsLifecycle, LifeAlways
  <1>4. TraySpec => []TrayInv
    BY <1>2, <1>3, TrayInvInit, TrayInvStep, PTL DEF TraySpec
  <1> QED
    BY <1>1, <1>3, <1>4, PTL
=============================================================================
