-------------------------- MODULE SessionRecorder --------------------------
(***************************************************************************)
(* The session recorder: src/app/sessions/recorder.py with the writes of   *)
(* src/app/sessions/storage.py, driven by the publisher task of            *)
(* src/app/telemetry/service.py.                                           *)
(*                                                                         *)
(* Two threads share a queue of one place.  The event loop is the only     *)
(* producer: the publisher task calls observe() and, once that task is     *)
(* cancelled, stop() puts the pill.  The writer thread takes one event at  *)
(* a time and commits to SQLite.  A step of the model is what happens      *)
(* between two points where the other thread can run or the process can    *)
(* die: one queue operation, one commit, one locked update of the status.  *)
(*                                                                         *)
(* Time is a bounded clock; observed_monotonic and observed_at are read    *)
(* together in observe() and are the same instant here.                    *)
(***************************************************************************)
EXTENDS Integers, Sequences

CONSTANTS
    Cars,               \* car ordinals a packet may carry; 0 is "no car"
    RecordingEnabled,   \* settings.recording_enabled
    TelemetryTimeout,   \* settings.telemetry_timeout_seconds
    EndTimeout,         \* settings.session_end_timeout_seconds
    SampleGap,          \* 1 / settings.recording_hz
    MaxTime,            \* bound: last instant of the clock
    MaxRevision,        \* bound: packets received by one process
    MaxObservations,    \* bound: calls of observe() in one process
    MaxFailures,        \* bound: SQLite errors
    MaxRestarts,        \* bound: times the process dies and is started again
    Pill,               \* the None that stop() puts in the queue
    Empty,              \* the queue holds nothing
    NoEvent             \* no event in hand

NotEnded == 0   \* ended_at IS NULL; the clock starts at 1
NoError == "none"
NoSession == 0  \* session_id is None; a session is its position in db

Instant == Nat \ {0}

Event == [rev : Nat, car : Cars, connected : BOOLEAN, at : Instant]

ASSUME RecorderAssumption ==
    /\ Cars \subseteq Nat /\ 0 \in Cars
    /\ RecordingEnabled \in BOOLEAN
    /\ TelemetryTimeout \in Nat /\ EndTimeout \in Nat /\ SampleGap \in Nat
    /\ MaxTime \in Nat /\ MaxRevision \in Nat /\ MaxObservations \in Nat
    /\ MaxFailures \in Nat /\ MaxRestarts \in Nat
    /\ Pill \notin Event /\ Empty \notin Event /\ NoEvent \notin Event
    /\ Pill # Empty /\ Pill # NoEvent /\ Empty # NoEvent

VARIABLES
    now,            \* time.monotonic()
    feed,           \* state.revision, the car of latest_packet, last_good_monotonic
    producer,       \* where the event loop is in observe() or stop()
    held,           \* the event observe() has made and not yet queued
    queue,          \* self._queue, Queue(maxsize=1)
    dropped,        \* self._dropped_events
    pc,             \* where the writer thread is in _run()
    ev,             \* the event the writer thread is working on
    loc,            \* the local variables of _run()
    active,         \* self._active_session_id
    sampleCount,    \* self._sample_count
    lastError,      \* self._last_error: NoError or the failure's text
    db,             \* the committed sessions, each with its samples
    base,           \* history: sessions in db when this process started
    observed,       \* history: events made by observe() in this process
    taken,          \* history: events the writer took in this process
    failures,       \* history: SQLite errors so far
    restarts        \* history: restarts so far

clock == <<now, feed>>
mailbox == <<producer, held, queue, dropped>>
thread == <<pc, ev, loc>>
status == <<active, sampleCount, lastError>>
history == <<base, observed, taken, failures, restarts>>
vars == <<clock, mailbox, thread, status, db, history>>

Producers == {"new", "publish", "evict", "reput", "count",
              "stopPut", "stopEvict", "join", "stopped"}
WriterStates == {"off", "open", "get", "endCar", "start", "activate", "sample",
                 "addCount", "endTimeout", "clear", "endShutdown", "close", "dead"}
Reasons == {"none", "car_changed", "telemetry_timeout", "service_shutdown"}

Sample == [rev : Nat, car : Cars, at : Nat]
Row == [car : Cars, startedAt : Nat, endedAt : Nat, duration : Nat,
        reason : Reasons, samples : Seq(Sample)]
Locals == [session : Nat, startedAt : Nat, lastSeen : Nat, nextSample : Nat,
           lastSample : Int, lastObserved : Int, car : Cars]

\* The None that car_ordinal starts with acts like 0: both mean "not known".
InitialLocals ==
    [session |-> NoSession, startedAt |-> 0, lastSeen |-> 0, nextSample |-> 0,
     lastSample |-> -1, lastObserved |-> -1, car |-> 0]

InitialFeed == [rev |-> 0, car |-> 0, at |-> 0]

----------------------------------------------------------------------------
(* Operators of the code.                                                  *)

AtLeast0(n) == IF n > 0 THEN n ELSE 0
Larger(m, n) == IF m > n THEN m ELSE n

\* snapshot["connection"]["connected"], as the publisher passes it to observe().
Connected == feed.rev > 0 /\ now - feed.at <= TelemetryTimeout

\* Mutant: the revision is not compared with the last one observed.
IsNewPacketAnyRevision(e) == e.connected /\ e.rev > 0
IsNewPacket(e) == e.connected /\ e.rev > 0 /\ e.rev # loc.lastObserved

CarChanged(e) ==
    /\ loc.session # NoSession
    /\ loc.car # 0
    /\ e.car \notin {0, loc.car}

Due(e, l) == e.rev # l.lastSample /\ e.at >= l.nextSample

TimedOut ==
    /\ loc.session # NoSession
    /\ loc.lastSeen # 0
    /\ now - loc.lastSeen >= EndTimeout

\* SessionWriter.end_session: one UPDATE and its commit.
EndedRow(row, at, why) ==
    [row EXCEPT !.endedAt = at,
                !.duration = Larger(@, AtLeast0(at - loc.startedAt)),
                !.reason = why]

\* SessionWriter.start_session: one INSERT and its commit.
NewRow(e) ==
    [car |-> e.car, startedAt |-> e.at, endedAt |-> NotEnded, duration |-> 0,
     reason |-> "none", samples |-> <<>>]

\* SessionWriter.add_sample: the sample and the summary in one commit.
SampledRow(row, e) ==
    [row EXCEPT !.samples = Append(@, [rev |-> e.rev, car |-> e.car, at |-> e.at]),
                !.duration = Larger(@, AtLeast0(e.at - loc.startedAt))]

----------------------------------------------------------------------------
(* A new process: SessionRecorder.__init__ and no writer thread.           *)

Init ==
    /\ now = 1 /\ feed = InitialFeed
    /\ producer = "new" /\ held = NoEvent /\ queue = Empty /\ dropped = 0
    /\ pc = "off" /\ ev = NoEvent /\ loc = InitialLocals
    /\ active = NoSession /\ sampleCount = 0 /\ lastError = NoError
    /\ db = <<>>
    /\ base = 0 /\ observed = 0 /\ taken = 0 /\ failures = 0 /\ restarts = 0

Tick ==
    /\ now < MaxTime
    /\ now' = now + 1
    /\ UNCHANGED <<feed, mailbox, thread, status, db, history>>

\* TelemetryState.handle_datagram accepts a packet; the event loop is not in observe().
ReceivePacket ==
    /\ producer = "publish"
    /\ feed.rev < MaxRevision
    /\ \E c \in Cars : feed' = [rev |-> feed.rev + 1, car |-> c, at |-> now]
    /\ UNCHANGED <<now, mailbox, thread, status, db, history>>

----------------------------------------------------------------------------
(* The event loop: start(), observe() and stop().                          *)

Start ==
    /\ RecordingEnabled
    /\ producer = "new"
    /\ producer' = "publish"
    /\ pc' = "open"
    /\ UNCHANGED <<clock, held, queue, dropped, ev, loc, status, db, history>>

\* observe() makes the event and its first put_nowait succeeds or raises Full.
Observe ==
    /\ producer = "publish"
    /\ observed < MaxObservations
    /\ observed' = observed + 1
    /\ LET e == [rev |-> feed.rev, car |-> feed.car, connected |-> Connected, at |-> now]
       IN  \/ /\ queue = Empty
              /\ queue' = e
              /\ UNCHANGED <<producer, held>>
           \/ /\ queue # Empty
              /\ held' = e
              /\ producer' = "evict"
              /\ UNCHANGED queue
    /\ UNCHANGED <<clock, dropped, thread, status, db, base, taken, failures, restarts>>

\* Mutant: the old event is left in the queue.
EvictNothing ==
    /\ producer = "evict"
    /\ producer' = "reput"
    /\ UNCHANGED <<clock, held, queue, dropped, thread, status, db, history>>

\* get_nowait; Empty is ignored: the writer thread may have been faster.
Evict ==
    /\ producer = "evict"
    /\ queue' = Empty
    /\ producer' = "reput"
    /\ UNCHANGED <<clock, held, dropped, thread, status, db, history>>

\* Mutant: the event is forgotten before it is put again.
ReputForgotten ==
    /\ producer = "reput"
    /\ queue' = IF queue = Empty THEN NoEvent ELSE queue
    /\ held' = NoEvent
    /\ producer' = "count"
    /\ UNCHANGED <<clock, dropped, thread, status, db, history>>

\* The second put_nowait; Full is ignored.
Reput ==
    /\ producer = "reput"
    /\ queue' = IF queue = Empty THEN held ELSE queue
    /\ held' = NoEvent
    /\ producer' = "count"
    /\ UNCHANGED <<clock, dropped, thread, status, db, history>>

\* Mutant: the replaced update is not counted.
CountNothing ==
    /\ producer = "count"
    /\ producer' = "publish"
    /\ UNCHANGED <<clock, held, queue, dropped, thread, status, db, history>>

CountDropped ==
    /\ producer = "count"
    /\ dropped' = dropped + 1
    /\ producer' = "publish"
    /\ UNCHANGED <<clock, held, queue, thread, status, db, history>>

\* service.stop has awaited the cancelled publisher; recorder.stop() clears _thread.
Stop ==
    /\ producer = "publish"
    /\ producer' = "stopPut"
    /\ UNCHANGED <<clock, held, queue, dropped, thread, status, db, history>>

StopPut ==
    /\ producer = "stopPut"
    /\ \/ /\ queue = Empty
          /\ queue' = Pill
          /\ producer' = "join"
       \/ /\ queue # Empty
          /\ producer' = "stopEvict"
          /\ UNCHANGED queue
    /\ UNCHANGED <<clock, held, dropped, thread, status, db, history>>

StopEvict ==
    /\ producer = "stopEvict"
    /\ queue' = Empty
    /\ producer' = "stopPut"
    /\ UNCHANGED <<clock, held, dropped, thread, status, db, history>>

\* thread.join(timeout) returns: the thread is dead, or five seconds have passed.
Joined ==
    /\ producer = "join"
    /\ producer' = "stopped"
    /\ UNCHANGED <<clock, held, queue, dropped, thread, status, db, history>>

----------------------------------------------------------------------------
(* The writer thread: _run().                                              *)

Open ==
    /\ pc = "open"
    /\ pc' = "get"
    /\ UNCHANGED <<clock, mailbox, ev, loc, status, db, history>>

\* open_writer() raises outside the try block: the thread dies, last_error stays None.
OpenFails ==
    /\ pc = "open"
    /\ failures < MaxFailures
    /\ failures' = failures + 1
    /\ pc' = "dead"
    /\ UNCHANGED <<clock, mailbox, ev, loc, status, db, base, observed, taken, restarts>>

\* Mutant: with no session open the pill is taken for an empty poll.
TakePillGoOn ==
    /\ pc = "get"
    /\ queue = Pill
    /\ queue' = Empty
    /\ pc' = IF loc.session # NoSession THEN "endShutdown" ELSE "get"
    /\ UNCHANGED <<clock, producer, held, dropped, ev, loc, status, db, history>>

TakePill ==
    /\ pc = "get"
    /\ queue = Pill
    /\ queue' = Empty
    /\ pc' = IF loc.session # NoSession THEN "endShutdown" ELSE "close"
    /\ UNCHANGED <<clock, producer, held, dropped, ev, loc, status, db, history>>

\* An event that brings a new packet, dispatched to the commits it needs.
TakePacket ==
    /\ pc = "get"
    /\ queue \notin {Empty, Pill}
    /\ LET e == queue
       IN  /\ IsNewPacket(e)
           /\ loc' = [loc EXCEPT !.lastSeen = e.at, !.lastObserved = e.rev]
           /\ pc' = IF CarChanged(e) THEN "endCar"
                    ELSE IF loc.session = NoSession THEN "start"
                    ELSE IF Due(e, loc) THEN "sample" ELSE "get"
           /\ ev' = IF pc' = "get" THEN NoEvent ELSE e
    /\ queue' = Empty
    /\ taken' = taken + 1
    /\ UNCHANGED <<clock, producer, held, dropped, status, db, base, observed, failures, restarts>>

\* An event without a new packet: only the silence is checked.
TakeStale ==
    /\ pc = "get"
    /\ queue \notin {Empty, Pill}
    /\ ~IsNewPacket(queue)
    /\ queue' = Empty
    /\ taken' = taken + 1
    /\ pc' = IF TimedOut THEN "endTimeout" ELSE "get"
    /\ UNCHANGED <<clock, producer, held, dropped, ev, loc, status, db, base, observed, failures, restarts>>

\* get(timeout=0.25) raises Empty; it changes something only after the silence.
PollEmpty ==
    /\ pc = "get"
    /\ queue = Empty
    /\ TimedOut
    /\ pc' = "endTimeout"
    /\ UNCHANGED <<clock, mailbox, ev, loc, status, db, history>>

EndOnCarChange ==
    /\ pc = "endCar"
    /\ db' = [db EXCEPT ![loc.session] = EndedRow(@, ev.at, "car_changed")]
    /\ loc' = [loc EXCEPT !.session = NoSession]
    /\ pc' = "start"
    /\ UNCHANGED <<clock, mailbox, ev, status, history>>

StartSession ==
    /\ pc = "start"
    /\ db' = Append(db, NewRow(ev))
    /\ loc' = [loc EXCEPT !.session = Len(db) + 1, !.startedAt = ev.at,
                          !.nextSample = ev.at, !.lastSample = -1, !.car = ev.car]
    /\ pc' = "activate"
    /\ UNCHANGED <<clock, mailbox, ev, status, history>>

\* Mutant: the count of the session before is kept.
SetActiveKeepCount ==
    /\ pc = "activate"
    /\ active' = loc.session
    /\ pc' = IF Due(ev, loc) THEN "sample" ELSE "get"
    /\ ev' = IF pc' = "get" THEN NoEvent ELSE ev
    /\ UNCHANGED <<clock, mailbox, loc, sampleCount, lastError, db, history>>

SetActive ==
    /\ pc = "activate"
    /\ active' = loc.session
    /\ sampleCount' = 0
    /\ pc' = IF Due(ev, loc) THEN "sample" ELSE "get"
    /\ ev' = IF pc' = "get" THEN NoEvent ELSE ev
    /\ UNCHANGED <<clock, mailbox, loc, lastError, db, history>>

AddSample ==
    /\ pc = "sample"
    /\ db' = [db EXCEPT ![loc.session] = SampledRow(@, ev)]
    /\ loc' = [loc EXCEPT !.lastSample = ev.rev, !.nextSample = ev.at + SampleGap]
    /\ ev' = NoEvent
    /\ pc' = "addCount"
    /\ UNCHANGED <<clock, mailbox, status, history>>

CountSample ==
    /\ pc = "addCount"
    /\ sampleCount' = sampleCount + 1
    /\ pc' = "get"
    /\ UNCHANGED <<clock, mailbox, ev, loc, active, lastError, db, history>>

\* Mutant: the session ends when the silence is noticed.
EndOnTimeoutNow ==
    /\ pc = "endTimeout"
    /\ db' = [db EXCEPT ![loc.session] =
                 [@ EXCEPT !.endedAt = now, !.reason = "telemetry_timeout"]]
    /\ loc' = [loc EXCEPT !.session = NoSession]
    /\ pc' = "clear"
    /\ UNCHANGED <<clock, mailbox, ev, status, history>>

\* Mutant: the loop does not forget the session it has ended.
EndOnTimeoutKeepSession ==
    /\ pc = "endTimeout"
    /\ db' = [db EXCEPT ![loc.session] = EndedRow(@, loc.lastSeen, "telemetry_timeout")]
    /\ pc' = "clear"
    /\ UNCHANGED <<clock, mailbox, ev, loc, status, history>>

EndOnTimeout ==
    /\ pc = "endTimeout"
    /\ db' = [db EXCEPT ![loc.session] = EndedRow(@, loc.lastSeen, "telemetry_timeout")]
    /\ loc' = [loc EXCEPT !.session = NoSession]
    /\ pc' = "clear"
    /\ UNCHANGED <<clock, mailbox, ev, status, history>>

ClearActive ==
    /\ pc = "clear"
    /\ active' = NoSession
    /\ sampleCount' = 0
    /\ pc' = "get"
    /\ UNCHANGED <<clock, mailbox, ev, loc, lastError, db, history>>

\* Mutant: the loop breaks without ending the session.
EndOnShutdownForgotten ==
    /\ pc = "endShutdown"
    /\ pc' = "close"
    /\ UNCHANGED <<clock, mailbox, ev, loc, status, db, history>>

EndOnShutdown ==
    /\ pc = "endShutdown"
    /\ db' = [db EXCEPT ![loc.session] = EndedRow(@, loc.lastSeen, "service_shutdown")]
    /\ pc' = "close"
    /\ UNCHANGED <<clock, mailbox, ev, loc, status, history>>

\* Any commit may raise sqlite3.Error: nothing of it is stored, the thread gives up.
WriterFails ==
    /\ pc \in {"endCar", "start", "sample", "endTimeout", "endShutdown"}
    /\ failures < MaxFailures
    /\ failures' = failures + 1
    /\ lastError' = "failed"
    /\ pc' = "close"
    /\ UNCHANGED <<clock, mailbox, ev, loc, active, sampleCount, db, base, observed, taken, restarts>>

\* finally: writer.close() and _set_active(None, None, 0).
CloseWriter ==
    /\ pc = "close"
    /\ pc' = "dead"
    /\ ev' = NoEvent
    /\ active' = NoSession
    /\ sampleCount' = 0
    /\ UNCHANGED <<clock, mailbox, loc, lastError, db, history>>

----------------------------------------------------------------------------

\* The process dies at any point, or exits, and is started again on the same data.
Restart ==
    /\ restarts < MaxRestarts
    /\ producer # "new"
    /\ restarts' = restarts + 1
    /\ feed' = InitialFeed
    /\ producer' = "new" /\ held' = NoEvent /\ queue' = Empty /\ dropped' = 0
    /\ pc' = "off" /\ ev' = NoEvent /\ loc' = InitialLocals
    /\ active' = NoSession /\ sampleCount' = 0 /\ lastError' = NoError
    /\ base' = Len(db) /\ observed' = 0 /\ taken' = 0
    /\ UNCHANGED <<now, db, failures>>

ProducerStep ==
    \/ Evict \/ Reput \/ CountDropped
    \/ StopPut \/ StopEvict \/ Joined

WriterStep ==
    \/ Open \/ TakePill \/ TakePacket \/ TakeStale \/ PollEmpty
    \/ EndOnCarChange \/ StartSession \/ SetActive \/ AddSample \/ CountSample
    \/ EndOnTimeout \/ ClearActive \/ EndOnShutdown \/ CloseWriter

Next ==
    \/ Tick \/ ReceivePacket \/ Start \/ Observe \/ Stop
    \/ ProducerStep
    \/ WriterStep \/ OpenFails \/ WriterFails
    \/ Restart

Spec == Init /\ [][Next]_vars

\* Both threads keep running: observe() and stop() never block, and the writer
\* wakes up at least every 0.25 s.
FairSpec == Spec /\ WF_vars(ProducerStep) /\ WF_vars(WriterStep)

----------------------------------------------------------------------------
(* Properties.                                                             *)

\* Every variable has its type: what the proofs start from.
TypeOK ==
    /\ now \in Instant
    /\ feed \in [rev : Nat, car : Cars, at : Nat]
    /\ producer \in Producers
    /\ held \in Event \cup {NoEvent}
    /\ queue \in Event \cup {Pill, Empty}
    /\ dropped \in Nat
    /\ pc \in WriterStates
    /\ ev \in Event \cup {NoEvent}
    /\ loc \in Locals
    /\ active \in Nat /\ sampleCount \in Nat /\ lastError \in {NoError, "failed"}
    /\ db \in Seq(Row)
    /\ base \in Nat /\ observed \in Nat /\ taken \in Nat
    /\ failures \in Nat /\ restarts \in Nat

Queued == IF queue \in {Empty, Pill} THEN 0 ELSE 1
InHand == IF held = NoEvent THEN 0 ELSE 1

\* Events made by observe() that no one will ever see.
Lost == observed - taken - Queued - InHand

\* The drop-oldest queue of observe() never loses the newest update and stop()
\* never loses its pill, however the writer thread's get() falls between the two
\* puts: the second put_nowait always finds room, so its "except Full: pass" is
\* never taken, and nothing displaces the pill once it is in the queue.
NewestKept ==
    /\ producer = "reput" => queue = Empty /\ held # NoEvent
    /\ producer \in {"join", "stopped"} =>
           \/ queue = Pill
           \/ pc \in {"endShutdown", "close", "dead"}
    /\ queue = Pill => producer \in {"join", "stopped"}

\* dropped_events may count an update the writer took after all, but it never
\* hides a loss: apart from the update being replaced right now and the one
\* that stop() discards for its pill, every lost update has been counted.
DropsAccounted ==
    /\ Lost >= 0
    /\ producer \in {"publish", "evict"} => Lost <= dropped
    /\ Lost <= dropped + 1

Rows == base + 1 .. Len(db)
Times(row) == {row.samples[i].at : i \in 1..Len(row.samples)}
Revisions(row) == {row.samples[i].rev : i \in 1..Len(row.samples)}

\* Of the sessions of this process only the last can be open, and then the
\* writer thread is still responsible for it, or it has failed: no car change
\* or timeout leaves a session behind without its end.
OnlyLastOpen ==
    \A i \in Rows : db[i].endedAt = NotEnded =>
        /\ i = Len(db)
        /\ loc.session = i
        /\ pc \in {"close", "dead"} => lastError # NoError

\* A packet is recorded at most once: over all the sessions of a process, and
\* across car changes and timeouts, the recorded revisions strictly increase.
RecordedOnce ==
    /\ \A i \in Rows : \A m, n \in 1..Len(db[i].samples) :
           m < n => db[i].samples[m].rev < db[i].samples[n].rev
    /\ \A i, j \in Rows : i < j =>
           \A r \in Revisions(db[i]), q \in Revisions(db[j]) : r < q

\* What the status tells the pages of the writer's work is never ahead of what
\* is committed, and whenever the writer waits for the next update it names the
\* session being written, with the count of its committed samples: it lags only
\* between a commit and the locked update that follows it.
StatusFollows ==
    /\ active # NoSession => active \in Rows /\ sampleCount <= Len(db[active].samples)
    /\ pc = "get" =>
        /\ active = loc.session
        /\ active # NoSession =>
            /\ db[active].endedAt = NotEnded
            /\ sampleCount = Len(db[active].samples)

\* An ended session covers exactly the time from its first to its last packet
\* (or to the packet of the other car): no sample lies outside, its duration is
\* the span, the next session of the process does not overlap it, and a timeout
\* closed it at its last packet after a real silence, not when that was noticed.
SpansAreTight ==
    \A i \in Rows :
        /\ \A t \in Times(db[i]) : t >= db[i].startedAt
        /\ db[i].endedAt # NotEnded =>
               /\ \A t \in Times(db[i]) : t <= db[i].endedAt
               /\ db[i].duration = db[i].endedAt - db[i].startedAt
               /\ \A j \in Rows : j > i => db[j].startedAt >= db[i].endedAt
        /\ db[i].reason = "telemetry_timeout" => now - db[i].endedAt >= EndTimeout

\* The recorder keeps the promises of the session history.
Live == IF /\ pc \notin {"off", "dead"}
           /\ loc.session # NoSession
           /\ db[loc.session].endedAt = NotEnded
        THEN loc.session ELSE NoSession

Store == INSTANCE SessionStore WITH log <- db, live <- Live

ImplementsStore == Store!StoreSpec

\* stop() always ends the writer thread, whatever it was doing when the pill was
\* queued: the pill is neither lost nor overtaken.
StopEndsWriter ==
    producer \in {"stopPut", "stopEvict", "join"} ~> pc \in {"off", "dead"}

\* A silence of session_end_timeout ends the session even if the publisher keeps
\* sending events without a new packet; only a new packet or a failure prevents it.
SilenceEndsSession ==
    TimedOut ~> (~TimedOut \/ pc \in {"off", "dead"})
=============================================================================
