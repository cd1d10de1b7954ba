----------------------------- MODULE PacketRate -----------------------------
(***************************************************************************)
(* The live packet rate: the deque recent_packets of TelemetryState        *)
(* (src/app/telemetry/state.py), shared without a lock by two threads:     *)
(*   - the event loop, which appends the instant of every datagram and,    *)
(*     in the publisher task, prunes the deque and computes the rate;      *)
(*   - the thread of the tray's settings window, which asks for the same   *)
(*     snapshot once a second (src/app/tray.py, _service_status).          *)
(*                                                                         *)
(* CPython switches threads after a call returns and where a loop jumps    *)
(* back.  The while of _prune is compiled with its test at the bottom, so  *)
(* the first test and the first popleft() run together, but every later    *)
(* popleft() can be separated from the test that allowed it; and len() can *)
(* be separated from the subscript it guards.  The steps below are the     *)
(* stretches between two such points.                                      *)
(***************************************************************************)
EXTENDS Integers, Sequences

CONSTANTS
    Window,         \* the two seconds of _prune
    MaxTime,        \* bound: last instant of the clock
    MaxPackets,     \* bound: datagrams received
    None            \* nothing computed

Threads == {"loop", "tray"}

VARIABLES
    settingsOpen,   \* the settings window of the tray is or was open
    now,            \* time.monotonic()
    received,       \* history: datagrams received
    recent,         \* self.recent_packets
    pc,             \* where each thread is: "idle", "prune", "retest", "pop",
                    \* "measure", "oldest" or "divide"
    op,             \* what each thread is doing: a datagram or a snapshot
    current,        \* the "current" each thread read when it began
    span,           \* the "span" each thread computed
    rate,           \* the rate each thread computed last: <<packets, seconds>>
    periodic        \* the threads whose regular snapshots still go on

locals == <<op, current, span, rate>>

vars == <<settingsOpen, now, received, recent, pc, op, current, span, rate, periodic>>

Init ==
    /\ settingsOpen = FALSE
    /\ now = 0
    /\ received = 0
    /\ recent = <<>>
    /\ pc = [t \in Threads |-> "idle"]
    /\ op = [t \in Threads |-> "snapshot"]
    /\ current = [t \in Threads |-> 0]
    /\ span = [t \in Threads |-> 0]
    /\ rate = [t \in Threads |-> None]
    /\ periodic = Threads

Goto(t, place) == pc' = [pc EXCEPT ![t] = place]

\* The test of the while in _prune.
Expired(t) == recent # <<>> /\ Head(recent) < current[t] - Window

\* Where _prune returns to.
AfterPrune(t) == IF op[t] = "datagram" THEN "idle" ELSE "measure"

\* An IndexError out of a regular snapshot ends the publisher task, or the
\* refreshing of the settings window; out of a datagram the loop logs it and goes on.
IndexError(t) ==
    /\ Goto(t, "idle")
    /\ periodic' = IF op[t] = "snapshot" THEN periodic \ {t} ELSE periodic

Tick ==
    /\ now < MaxTime
    /\ now' = now + 1
    /\ UNCHANGED <<settingsOpen, received, recent, pc, locals, periodic>>

\* refresh_status is called for the first time.
OpenSettings ==
    /\ ~settingsOpen
    /\ settingsOpen' = TRUE
    /\ UNCHANGED <<now, received, recent, pc, locals, periodic>>

\* handle_datagram up to the return of append().
Receive ==
    /\ pc["loop"] = "idle"
    /\ received < MaxPackets
    /\ received' = received + 1
    /\ recent' = Append(recent, now)
    /\ current' = [current EXCEPT !["loop"] = now]
    /\ op' = [op EXCEPT !["loop"] = "datagram"]
    /\ Goto("loop", "prune")
    /\ UNCHANGED <<settingsOpen, now, span, rate, periodic>>

\* _connection_snapshot reads the clock.
Snapshot(t) ==
    /\ t \in periodic
    /\ t = "tray" => settingsOpen
    /\ pc[t] = "idle"
    /\ current' = [current EXCEPT ![t] = now]
    /\ op' = [op EXCEPT ![t] = "snapshot"]
    /\ Goto(t, "prune")
    /\ UNCHANGED <<settingsOpen, now, received, recent, span, rate, periodic>>

\* The first test of the while and, if it holds, the first popleft().
Prune(t) ==
    /\ pc[t] = "prune"
    /\ \/ /\ Expired(t)
          /\ recent' = Tail(recent)
          /\ Goto(t, "retest")
       \/ /\ ~Expired(t)
          /\ Goto(t, AfterPrune(t))
          /\ UNCHANGED recent
    /\ UNCHANGED <<settingsOpen, now, received, locals, periodic>>

\* The test at the bottom of the loop, before the jump back.
Retest(t) ==
    /\ pc[t] = "retest"
    /\ Goto(t, IF Expired(t) THEN "pop" ELSE AfterPrune(t))
    /\ UNCHANGED <<settingsOpen, now, received, recent, locals, periodic>>

\* popleft() after the jump back: an IndexError on an empty deque.
Pop(t) ==
    /\ pc[t] = "pop"
    /\ \/ /\ recent # <<>>
          /\ recent' = Tail(recent)
          /\ Goto(t, "retest")
          /\ UNCHANGED periodic
       \/ /\ recent = <<>>
          /\ IndexError(t)
          /\ UNCHANGED recent
    /\ UNCHANGED <<settingsOpen, now, received, locals>>

\* len(recent_packets) > 1
Measure(t) ==
    /\ pc[t] = "measure"
    /\ Goto(t, IF Len(recent) > 1 THEN "oldest" ELSE "divide")
    /\ span' = [span EXCEPT ![t] = 0]
    /\ UNCHANGED <<settingsOpen, now, received, recent, op, current, rate, periodic>>

\* current - recent_packets[0]: an IndexError on an empty deque.
Oldest(t) ==
    /\ pc[t] = "oldest"
    /\ \/ /\ recent # <<>>
          /\ span' = [span EXCEPT ![t] = current[t] - Head(recent)]
          /\ Goto(t, "divide")
          /\ UNCHANGED periodic
       \/ /\ recent = <<>>
          /\ IndexError(t)
          /\ UNCHANGED span
    /\ UNCHANGED <<settingsOpen, now, received, recent, op, current, rate>>

\* (len(recent_packets) - 1) / span, or one packet a second for a lone packet.
Divide(t) ==
    /\ pc[t] = "divide"
    /\ rate' = [rate EXCEPT ![t] =
           IF span[t] > 0 THEN <<Len(recent) - 1, span[t]>>
           ELSE IF recent # <<>> THEN <<1, 1>> ELSE <<0, 1>>]
    /\ Goto(t, "idle")
    /\ UNCHANGED <<settingsOpen, now, received, recent, op, current, span, periodic>>

Step(t) == Prune(t) \/ Retest(t) \/ Pop(t) \/ Measure(t) \/ Oldest(t) \/ Divide(t)

Next == Tick \/ OpenSettings \/ Receive \/ \E t \in Threads : Snapshot(t) \/ Step(t)

Spec == Init /\ [][Next]_vars

----------------------------------------------------------------------------
(* The property.                                                           *)

\* "Publishes the same normalized contract at FH6_TELEMETRY_PUBLISH_HZ"
\* (docs/phase6-service.md): the publisher task goes on while the service runs.
PublisherSurvives == "loop" \in periodic
=============================================================================
