--------------------------- MODULE LiveBroadcast ---------------------------
(***************************************************************************)
(* Live delivery to browsers: LatestValueBroadcaster                       *)
(* (src/app/telemetry/broadcast.py), the limit that LiveTelemetryService   *)
(* puts on dashboard and debug clients together                            *)
(* (src/app/telemetry/service.py) and the two WebSocket handlers           *)
(* (src/app/web/websocket.py).                                             *)
(*                                                                         *)
(* Everything runs on one event loop, so a step is what a task does from   *)
(* one await to the next: asyncio.Queue.get() of a queue that holds a      *)
(* value does not yield, and neither does anything between subscribing and *)
(* the first send.  A browser may vanish at any time; its handler learns   *)
(* of it only when a send fails.                                           *)
(*                                                                         *)
(* A snapshot is known by its sequence, the revision of the state it was   *)
(* made from.  The two statistics counters, published_count and            *)
(* dropped_updates, are left out.                                          *)
(***************************************************************************)
EXTENDS Integers, FiniteSets

CONSTANTS
    Dashboards,     \* browsers that may open /ws/telemetry
    Debuggers,      \* browsers that may open /ws/debug
    MaxClients,     \* settings.max_websocket_clients
    MaxRevision,    \* bound: valid packets received
    Nothing         \* no snapshot: an empty queue, or none published yet

Browsers == Dashboards \cup Debuggers
Snapshots == 0..MaxRevision

ASSUME BroadcastAssumption ==
    /\ IsFiniteSet(Dashboards) /\ IsFiniteSet(Debuggers)
    /\ Dashboards \cap Debuggers = {}
    /\ MaxClients \in Nat \ {0}
    /\ MaxRevision \in Nat
    /\ Nothing \notin Nat

VARIABLES
    revision,       \* state.revision
    publishing,     \* the publisher task runs: service.running
    latest,         \* broadcaster.latest
    subscribers,    \* broadcaster._subscribers, each named by its browser
    queue,          \* the asyncio.Queue(maxsize=1) of each dashboard handler
    debugClients,   \* service.debug_clients
    handler,        \* where the handler of each browser is: "none", "accepted",
                    \* "sending", "waiting" or "refusing"
    sending,        \* the snapshot each handler is sending
    sent,           \* history: the last snapshot each open connection received
    gone            \* browsers that have vanished without their handler knowing

vars == <<revision, publishing, latest, subscribers, queue, debugClients, handler, sending, sent, gone>>

----------------------------------------------------------------------------
(* Operators of the code.                                                  *)

websocket_clients == Cardinality(subscribers) + debugClients

\* Mutant: each kind of client is limited on its own.
HasRoomPerKind == Cardinality(subscribers) < MaxClients
HasRoom == websocket_clients < MaxClients

\* Mutant: a full queue keeps its snapshot and the new one is lost.
QueuesKeepFirst(value, members) ==
    [c \in Dashboards |-> IF c \in members /\ queue[c] = Nothing THEN value ELSE queue[c]]

\* publish(): a full queue loses its snapshot, then every queue gets the new one.
QueuesAfterPublish(value, members) ==
    [c \in Dashboards |-> IF c \in members THEN value ELSE queue[c]]

----------------------------------------------------------------------------

Init ==
    /\ revision = 0
    /\ publishing = TRUE
    /\ latest = Nothing
    /\ subscribers = {}
    /\ queue = [c \in Dashboards |-> Nothing]
    /\ debugClients = 0
    /\ handler = [b \in Browsers |-> "none"]
    /\ sending = [b \in Browsers |-> Nothing]
    /\ sent = [b \in Browsers |-> Nothing]
    /\ gone = {}

\* handle_datagram accepts a packet.
ReceivePacket ==
    /\ revision < MaxRevision
    /\ revision' = revision + 1
    /\ UNCHANGED <<publishing, latest, subscribers, queue, debugClients, handler, sending, sent, gone>>

\* One round of the publisher task.
Publish ==
    /\ publishing
    /\ latest' = revision
    /\ queue' = QueuesAfterPublish(revision, subscribers)
    /\ UNCHANGED <<revision, publishing, subscribers, debugClients, handler, sending, sent, gone>>

\* realtime_snapshot() raises (see PacketRate): the task ends before it publishes
\* and nothing starts it again.
PublisherDies ==
    /\ publishing
    /\ publishing' = FALSE
    /\ UNCHANGED <<revision, latest, subscribers, queue, debugClients, handler, sending, sent, gone>>

\* A browser opens a WebSocket; the handler has awaited accept().
Accept(b) ==
    /\ handler[b] = "none"
    /\ handler' = [handler EXCEPT ![b] = "accepted"]
    /\ UNCHANGED <<revision, publishing, latest, subscribers, queue, debugClients, sending, sent, gone>>

\* The tab is closed or the network is lost.
Vanish(b) ==
    /\ handler[b] # "none"
    /\ gone' = gone \cup {b}
    /\ UNCHANGED <<revision, publishing, latest, subscribers, queue, debugClients, handler, sending, sent>>

\* No room: the handler goes on to close the socket with code 1013.
Refuse(b) ==
    /\ handler[b] = "accepted"
    /\ ~HasRoom
    /\ handler' = [handler EXCEPT ![b] = "refusing"]
    /\ UNCHANGED <<revision, publishing, latest, subscribers, queue, debugClients, sending, sent, gone>>

Refused(b) ==
    /\ handler[b] = "refusing"
    /\ handler' = [handler EXCEPT ![b] = "none"]
    /\ gone' = gone \ {b}
    /\ UNCHANGED <<revision, publishing, latest, subscribers, queue, debugClients, sending, sent>>

\* subscribe(), the extra publish() when nothing was published before, the first
\* get() and the start of the first send.
Subscribe(c) ==
    /\ handler[c] = "accepted"
    /\ HasRoom
    /\ subscribers' = subscribers \cup {c}
    /\ latest' = IF latest = Nothing THEN revision ELSE latest
    /\ queue' = [(IF latest = Nothing
                  THEN QueuesAfterPublish(revision, subscribers) ELSE queue)
                 EXCEPT ![c] = Nothing]
    /\ sending' = [sending EXCEPT ![c] = latest']
    /\ handler' = [handler EXCEPT ![c] = "sending"]
    /\ UNCHANGED <<revision, publishing, debugClients, sent, gone>>

\* The snapshot for that extra publish() raises RuntimeError: except, finally
\* unsubscribe(), before anything was sent.
SubscribeFails(c) ==
    /\ handler[c] = "accepted"
    /\ HasRoom
    /\ latest = Nothing
    /\ handler' = [handler EXCEPT ![c] = "none"]
    /\ gone' = gone \ {c}
    /\ UNCHANGED <<revision, publishing, latest, subscribers, queue, debugClients, sending, sent>>

\* get() returns to a handler that was waiting for a snapshot.
Wake(c) ==
    /\ handler[c] = "waiting"
    /\ queue[c] # Nothing
    /\ sending' = [sending EXCEPT ![c] = queue[c]]
    /\ queue' = [queue EXCEPT ![c] = Nothing]
    /\ handler' = [handler EXCEPT ![c] = "sending"]
    /\ UNCHANGED <<revision, publishing, latest, subscribers, debugClients, sent, gone>>

\* The send completes; the next get() returns at once if a snapshot is queued.
Sent(c) ==
    /\ handler[c] = "sending"
    /\ c \notin gone
    /\ sent' = [sent EXCEPT ![c] = sending[c]]
    /\ sending' = [sending EXCEPT ![c] = queue[c]]
    /\ queue' = [queue EXCEPT ![c] = Nothing]
    /\ handler' = [handler EXCEPT ![c] = IF queue[c] = Nothing THEN "waiting" ELSE "sending"]
    /\ UNCHANGED <<revision, publishing, latest, subscribers, debugClients, gone>>

\* Mutant: a send that times out skips the finally block.
SendFailsKeepSlot(c) ==
    /\ handler[c] = "sending"
    /\ handler' = [handler EXCEPT ![c] = "none"]
    /\ sending' = [sending EXCEPT ![c] = Nothing]
    /\ sent' = [sent EXCEPT ![c] = Nothing]
    /\ gone' = gone \ {c}
    /\ UNCHANGED <<revision, publishing, latest, subscribers, queue, debugClients>>

\* Mutant: a failed send is tried again.
SendFailsRetry(c) ==
    /\ handler[c] = "sending"
    /\ UNCHANGED vars

\* The send raises or takes too long: except, finally unsubscribe().
SendFails(c) ==
    /\ handler[c] = "sending"
    /\ subscribers' = subscribers \ {c}
    /\ queue' = [queue EXCEPT ![c] = Nothing]
    /\ handler' = [handler EXCEPT ![c] = "none"]
    /\ sending' = [sending EXCEPT ![c] = Nothing]
    /\ sent' = [sent EXCEPT ![c] = Nothing]
    /\ gone' = gone \ {c}
    /\ UNCHANGED <<revision, publishing, latest, debugClients>>

----------------------------------------------------------------------------
(* The debug handler: a slot, then a snapshot of the state at its own pace. *)

DebugJoin(d) ==
    /\ handler[d] = "accepted"
    /\ HasRoom
    /\ debugClients' = debugClients + 1
    /\ handler' = [handler EXCEPT ![d] = "sending"]
    /\ sending' = [sending EXCEPT ![d] = revision]
    /\ UNCHANGED <<revision, publishing, latest, subscribers, queue, sent, gone>>

DebugSent(d) ==
    /\ handler[d] = "sending"
    /\ d \notin gone
    /\ sent' = [sent EXCEPT ![d] = sending[d]]
    /\ sending' = [sending EXCEPT ![d] = Nothing]
    /\ handler' = [handler EXCEPT ![d] = "waiting"]
    /\ UNCHANGED <<revision, publishing, latest, subscribers, queue, debugClients, gone>>

\* asyncio.sleep(interval) is over.
DebugNext(d) ==
    /\ handler[d] = "waiting"
    /\ sending' = [sending EXCEPT ![d] = revision]
    /\ handler' = [handler EXCEPT ![d] = "sending"]
    /\ UNCHANGED <<revision, publishing, latest, subscribers, queue, debugClients, sent, gone>>

\* The send raises or takes too long: except, finally remove_debug_client().
DebugFails(d) ==
    /\ handler[d] = "sending"
    /\ debugClients' = IF debugClients > 0 THEN debugClients - 1 ELSE 0
    /\ handler' = [handler EXCEPT ![d] = "none"]
    /\ sending' = [sending EXCEPT ![d] = Nothing]
    /\ sent' = [sent EXCEPT ![d] = Nothing]
    /\ gone' = gone \ {d}
    /\ UNCHANGED <<revision, publishing, latest, subscribers, queue>>

----------------------------------------------------------------------------

DashboardStep(c) == Subscribe(c) \/ SubscribeFails(c) \/ Wake(c) \/ Sent(c) \/ SendFails(c)
DebugStep(d) == DebugJoin(d) \/ DebugSent(d) \/ DebugNext(d) \/ DebugFails(d)

Next ==
    \/ ReceivePacket
    \/ Publish \/ PublisherDies
    \/ \E b \in Browsers : Accept(b) \/ Vanish(b) \/ Refuse(b) \/ Refused(b)
    \/ \E c \in Dashboards : DashboardStep(c)
    \/ \E d \in Debuggers : DebugStep(d)

Spec == Init /\ [][Next]_vars

\* The publisher runs at its rate, the loop resumes every ready handler, and
\* websocket_send_timeout_seconds ends every send one way or the other.
FairSpec ==
    /\ Spec
    /\ WF_vars(Publish)
    /\ \A c \in Dashboards : WF_vars(Wake(c)) /\ WF_vars(Sent(c) \/ SendFails(c))
    /\ \A d \in Debuggers : WF_vars(DebugNext(d)) /\ WF_vars(DebugSent(d) \/ DebugFails(d))

----------------------------------------------------------------------------
(* Properties.                                                             *)

Served == {b \in Browsers : handler[b] \in {"sending", "waiting"}}

\* "The combined production/debug client count is limited": however accepts,
\* failures and timeouts of both kinds of socket interleave, and although accept()
\* is awaited before the limit is looked at.
LimitHeld == Cardinality(Served) <= MaxClients

\* No slot leaks and none is lent twice: the clients counted against the limit are
\* exactly the handlers that are serving a browser, whichever way others ended.
SlotsMatchHandlers ==
    /\ subscribers = Served \cap Dashboards
    /\ debugClients = Cardinality(Served \cap Debuggers)

\* A connection never goes back in time, however slow its browser is and whoever
\* publishes, the task or the handler of the first subscriber: the sequences it receives
\* never decrease, and what a dashboard handler takes up to send is the newest snapshot
\* published by then ("a slow screen only needs the newest update", broadcast.py).
NeverBackwards ==
    [][/\ \A b \in Browsers :
              sent[b] # Nothing /\ sent'[b] # Nothing => sent'[b] >= sent[b]
       /\ \A c \in Dashboards :
              sending'[c] \notin {sending[c], Nothing} => sending'[c] = latest']_vars

\* A slow dashboard still catches up: what is published is eventually sent, or
\* replaced by something newer that is, unless the connection ends.
CatchesUp ==
    \A c \in Dashboards : \A s \in Snapshots :
        (c \in subscribers /\ latest = s) ~>
            (c \notin subscribers \/ (sent[c] # Nothing /\ sent[c] >= s))

\* A vanished browser does not hold its slot for ever: the next send to it fails.
\* Only a dashboard handler that waits for a publisher that has died is never
\* resumed; a debug handler still is.
VanishedIsFreed ==
    \A b \in Browsers : (b \in gone /\ b \in Served) ~>
        \/ b \notin Served
        \/ ~publishing /\ b \in Dashboards /\ handler[b] = "waiting"
=============================================================================
