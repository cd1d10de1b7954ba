--------------------------- MODULE TelemetryState ---------------------------
(***************************************************************************)
(* The state every other part reads: TelemetryState                        *)
(* (src/app/telemetry/state.py) with the UDP protocol that drives it       *)
(* (src/app/telemetry/receiver.py).  A datagram is counted whatever it is, *)
(* but only a parsed one replaces the live telemetry; a debug snapshot     *)
(* rebuilds its cached field rows and tells the driver what is wrong.      *)
(*                                                                         *)
(* A datagram is its number, the instant it arrived, its size and, if it   *)
(* has the right one, the checked fields that differ from a plausible      *)
(* packet.  A packet, its payload, its validation and the rows made from   *)
(* it are all named by the datagram they come from.  No packet of 324      *)
(* bytes makes the parser or the checks raise, so the except branch of     *)
(* handle_datagram and its counter are left out.  Everything here runs on  *)
(* the event loop; PacketRate adds the thread of the tray.                 *)
(***************************************************************************)
EXTENDS Integers, Sequences, SequencesExt, Validation, PacketLayout

CONSTANTS
    TelemetryTimeout,   \* settings.telemetry_timeout_seconds
    Window,             \* the two seconds of _prune
    Plausible,          \* a packet that passes every check
    Senders,            \* what may be sent: a set of datagrams, and as a bound
                        \* the most of them that come
    MaxTime,            \* bound: last instant of the clock
    Missing             \* None: no datagram yet

ASSUME StateAssumption ==
    /\ TelemetryTimeout \in Nat /\ Window \in Nat \ {0}
    /\ MaxTime \in Nat
    /\ \A s \in Senders : s.most \in Nat
    /\ \A s \in Senders : \A d \in s.datagrams : d.size \in Nat /\ IsFiniteSet(DOMAIN d.fault)
    /\ CheckedFields \subseteq DOMAIN Plausible
    /\ IssueFields(Plausible) = {}
    /\ Missing \notin [number : Nat, at : Nat, size : Nat,
                       fault : UNION {{d.fault : d \in s.datagrams} : s \in Senders}]

\* The names in the checks are names of the table, "layout" is none.
ASSUME NamesAssumption == CheckedFields \subseteq FieldNames /\ "layout" \notin FieldNames

VARIABLES
    sender,         \* who sends
    now,            \* time.monotonic()
    received,       \* history: the datagrams in the order they arrived
    listener,       \* listener_status, listener_error
    counts,         \* total_packets, unknown_packet_count, valid_packet_count
    recent,         \* recent_packets
    latestPayload,  \* latest_payload; its "at" is last_received_monotonic
    latest,         \* latest_packet, latest_valid_payload, latest_validation; its
                    \* "at" is last_good_monotonic
    recognized,     \* latest_recognized
    revision,       \* revision
    rows,           \* latest_rows and _rows_revision
    shown           \* history: the last snapshot; its debug part, or Missing

live == <<counts, latestPayload, latest, recognized, revision>>

vars == <<sender, now, received, listener, live, recent, rows, shown>>

Init ==
    /\ sender \in Senders
    /\ now = 0
    /\ received = <<>>
    /\ listener = [status |-> "starting", error |-> FALSE]
    /\ counts = [total |-> 0, unknown |-> 0, valid |-> 0]
    /\ recent = <<>>
    /\ latestPayload = Missing
    /\ latest = Missing
    /\ recognized = FALSE
    /\ revision = 0
    /\ rows = [of |-> Missing, revision |-> -1]
    /\ shown = Missing

\* parse_packet, as far as the checks look at it.
Packet(d) == [f \in DOMAIN Plausible |-> IF f \in DOMAIN d.fault THEN d.fault[f] ELSE Plausible[f]]

----------------------------------------------------------------------------
(* The connection and the guidance, as a snapshot reads them.              *)

Within(datagram) == datagram # Missing /\ now - datagram.at <= TelemetryTimeout

TrafficActive == Within(latestPayload)
Connected == Within(latest)

\* Mutant: the packet on the edge of the window is dropped.
PrunedStrict ==
    LET kept == {i \in 1..Len(recent) : recent[i] > now - Window}
    IN  IF kept = {} THEN <<>> ELSE SubSeq(recent, Min(kept), Len(recent))
\* _prune: popleft() until the front of the deque is within the window.
Pruned ==
    LET kept == {i \in 1..Len(recent) : recent[i] >= now - Window}
    IN  IF kept = {} THEN <<>> ELSE SubSeq(recent, Min(kept), Len(recent))

\* packets_per_second as a fraction: <<packets, seconds>>.
PacketsPerSecond ==
    LET span == IF Len(Pruned) > 1 THEN now - Head(Pruned) ELSE 0
    IN  IF span > 0 THEN <<Len(Pruned) - 1, span>>
        ELSE IF Pruned # <<>> THEN <<1, 1>> ELSE <<0, 1>>

\* _guidance: the first advice that applies.
Guidance ==
    IF listener.status = "error" THEN "listener failed"
    ELSE IF counts.total = 0 THEN "waiting"
    ELSE IF TrafficActive /\ ~recognized THEN "unsupported"
    ELSE IF ~TrafficActive THEN "stopped"
    ELSE IF latest # Missing /\ ~LayoutLikelyValid(Packet(latest)) THEN "suspect"
    ELSE "live"

----------------------------------------------------------------------------
(* The socket.                                                             *)

Tick ==
    /\ now < MaxTime
    /\ now' = now + 1
    /\ UNCHANGED <<sender, received, listener, live, recent, rows, shown>>

\* connection_made, or the OSError of service.start.
Listen(ok) ==
    /\ listener.status = "starting"
    /\ listener' = [status |-> IF ok THEN "listening" ELSE "error", error |-> ~ok]
    /\ UNCHANGED <<sender, now, received, live, recent, rows, shown>>

\* error_received: the socket goes on.
ErrorReceived ==
    /\ listener.status = "listening"
    /\ listener' = [listener EXCEPT !.error = TRUE]
    /\ UNCHANGED <<sender, now, received, live, recent, rows, shown>>

\* connection_lost, at shutdown or for an error of the socket.
ConnectionLost(failed) ==
    /\ listener.status = "listening"
    /\ listener' = [status |-> IF failed THEN "error" ELSE "stopped",
                    error  |-> listener.error \/ failed]
    /\ UNCHANGED <<sender, now, received, live, recent, rows, shown>>

\* The try block: all the live values are replaced.
Parse(d) ==
    /\ latest' = d
    /\ recognized' = TRUE
    /\ revision' = revision + 1
    /\ counts' = [counts EXCEPT !.total = @ + 1, !.valid = @ + 1]

\* Mutant: latest_recognized keeps its value for a packet of another length.
SkipUnknownKeepFlag ==
    /\ counts' = [counts EXCEPT !.total = @ + 1, !.unknown = @ + 1]
    /\ UNCHANGED <<latest, recognized, revision>>
\* A packet of another length is counted and left.
SkipUnknown ==
    /\ recognized' = FALSE
    /\ counts' = [counts EXCEPT !.total = @ + 1, !.unknown = @ + 1]
    /\ UNCHANGED <<latest, revision>>

\* datagram_received and handle_datagram.
HandleDatagram(datagram) ==
    LET d == [number |-> Len(received) + 1, at |-> now,
              size |-> datagram.size, fault |-> datagram.fault]
    IN  /\ listener.status = "listening"
        /\ Len(received) < sender.most
        /\ received' = Append(received, d)
        /\ latestPayload' = d
        /\ recent' = Append(Pruned, now)
        /\ IF d.size # FH6_PACKET_SIZE THEN SkipUnknown ELSE Parse(d)
        /\ UNCHANGED <<sender, now, listener, rows, shown>>

----------------------------------------------------------------------------
(* The snapshots.                                                          *)

\* Mutant: the rows are made once for every datagram that came.
FreshRowsPerDatagram ==
    IF latest # Missing /\ rows.revision # counts.total
    THEN [of |-> latestPayload, revision |-> counts.total] ELSE rows
\* The cached rows, rebuilt once for every revision.
FreshRows ==
    IF latest # Missing /\ rows.revision # revision
    THEN [of |-> latest, revision |-> revision] ELSE rows

\* What both snapshots hold: _connection_snapshot and the telemetry.
Shown(debug) == [at |-> now, seen |-> Len(received), telemetry |-> latest, connected |-> Connected,
                 rate |-> PacketsPerSecond, debug |-> debug]

\* realtime_snapshot, for the publisher and GET /api/telemetry.
RealtimeSnapshot ==
    /\ recent' = Pruned
    /\ shown' = Shown(Missing)
    /\ UNCHANGED <<sender, now, received, listener, live, rows>>

\* snapshot, for GET /api/debug and for the debug page.
Snapshot ==
    /\ recent' = Pruned
    /\ rows' = FreshRows
    /\ shown' = Shown([fields |-> rows'.of, raw |-> latestPayload, guidance |-> Guidance,
                       issues |-> IF latest = Missing THEN {} ELSE IssueFields(Packet(latest))])
    /\ UNCHANGED <<sender, now, received, listener, live>>

Next ==
    \/ Tick
    \/ \E ok \in BOOLEAN : Listen(ok)
    \/ ErrorReceived
    \/ \E failed \in BOOLEAN : ConnectionLost(failed)
    \/ \E datagram \in sender.datagrams : HandleDatagram(datagram)
    \/ RealtimeSnapshot
    \/ Snapshot

Spec == Init /\ [][Next]_vars

----------------------------------------------------------------------------
(* Properties.                                                             *)

DebugShown == shown # Missing /\ shown.debug # Missing

\* What is shown is the last datagram of the right size of all that had come, whatever
\* came after it; and the debug page shows the fields of that same packet, though the
\* rows are cached and bad datagrams come between, with a row to be marked for
\* everything the checks complain about (handle_datagram, snapshot).
ShownTogether ==
    /\ shown # Missing =>
        LET parsed == {n \in 1..shown.seen : received[n].size = FH6_PACKET_SIZE}
        IN  shown.telemetry = IF parsed = {} THEN Missing ELSE received[Max(parsed)]
    /\ DebugShown =>
        /\ shown.debug.fields = shown.telemetry
        /\ shown.debug.issues \subseteq FieldNames \cup {"layout"}

\* The rows of the table cover each byte once, and the value beside it is decoded from
\* the row's own field; only the row of the engine speed also needs the maximum.
RowsAreTrue ==
    /\ \A byte \in 0..FH6_PACKET_SIZE - 1 :
           Cardinality({row \in DiagnosticRows : byte \in row.bytes}) = 1
    /\ \A row \in DiagnosticRows : row.decoded =
           {row.name} \cup (IF row.name = "CurrentEngineRpm" THEN {"EngineMaxRpm"} ELSE {})

\* A debug page with fields shows every byte of the packet in one row and no other,
\* beside a value that was decoded from that row's own field (parse_packet and
\* diagnostic_rows name each field apart).
RowsShowTheirBytes == DebugShown /\ shown.debug.fields # Missing => RowsAreTrue

\* The advice agrees with the connection shown beside it, though _guidance never
\* reads "connected": a driver told that packets decode, or that they fail the sanity
\* checks, is connected, and one told that telemetry stopped is not.
GuidanceTruthful ==
    DebugShown =>
        LET told == shown.debug.guidance IN
        /\ told \in {"live", "suspect"} =>
               /\ shown.connected
               /\ (told = "suspect") = ("layout" \in shown.debug.issues)
        /\ told \in {"stopped", "waiting"} => ~shown.connected
        /\ told = "unsupported" => shown.debug.raw.size # FH6_PACKET_SIZE

\* One damaged field never condemns the layout, though some are looked at by two
\* checks and NaN or an infinity fails every comparison it meets: "Three or more
\* important failures mark the selected layout as probably incorrect"
\* (docs/phase5-validation.md).
OneFieldIsForgiven ==
    DebugShown /\ "layout" \in shown.debug.issues => Cardinality(DOMAIN shown.telemetry.fault) > 1

\* packets_per_second is the intervals between the packets of the window over the
\* time since the oldest of them, however datagrams and snapshots took turns at
\* pruning; nothing for an empty window, one for a lone or just come packet.
RateIsTrue ==
    shown # Missing =>
        LET known == {n \in 1..shown.seen : received[n].at >= shown.at - Window}
            oldest == Min({received[n].at : n \in known})
        IN  shown.rate = IF Cardinality(known) > 1 /\ oldest < shown.at
                         THEN <<Cardinality(known) - 1, shown.at - oldest>>
                         ELSE <<IF known = {} THEN 0 ELSE 1, 1>>
=============================================================================
