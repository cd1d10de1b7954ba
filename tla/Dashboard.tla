------------------------------ MODULE Dashboard ------------------------------
(***************************************************************************)
(* How a dashboard page keeps up with the service: the WebSocket, its      *)
(* retries and the polling fallback of dashboard.js.                       *)
(*                                                                         *)
(* The service is seen from outside: it is up or down, has a place for     *)
(* this page or not (websocket.py accepts the socket before it looks at    *)
(* the limit), and its current snapshot is the latest of the news; a       *)
(* snapshot is the number of the news it shows.  A delay of the retries is *)
(* its place in the series 750 ms * 1.6^n, which is capped at 8000 ms.     *)
(***************************************************************************)
EXTENDS Integers, Sequences, FiniteSets

CONSTANTS
    Events,         \* what may happen to the service, of AllEvents
    Fetches,        \* requests of /api/telemetry that may be under way at once
    MaxNews,        \* bound: the news
    MaxWire,        \* bound: messages on their way
    MaxFailures     \* bound: failed attempts counted in a row

AllEvents == {"down", "full", "drop"}

ASSUME DashboardAssumption ==
    /\ Events \subseteq AllEvents
    /\ MaxNews \in Nat /\ MaxWire \in Nat \ {0} /\ MaxFailures \in Nat

VARIABLES
    up,             \* the service answers
    full,           \* the client limit is reached without this page
    news,           \* the current snapshot of the service
    socket,         \* where the page's only WebSocket is
    wire,           \* messages sent on it, not yet handled
    timers,         \* calls of connect waiting in setTimeout
    retry,          \* state.retry
    fetching,       \* what has become of each request
    lastPayload,    \* state.lastPayload: what the page shows; 0 as it is first drawn
    delay,          \* history: the delay of the last setTimeout
    failures        \* history: attempts in a row that found no service

vars == <<up, full, news, socket, wire, timers, retry, fetching, lastPayload,
          delay, failures>>

service == <<up, full, news>>

MaxRetry == 6                                   \* 750 * 1.6^6 > 8000
None == -1                                      \* no request is under way
Asked == -2                                     \* no answer yet

socketOpen == socket \in {"open", "refusing"}

Init ==
    /\ up = TRUE
    /\ full \in {FALSE, "full" \in Events}
    /\ news = 1
    /\ socket = "connecting"
    /\ wire = <<>>
    /\ timers = 0
    /\ retry = 0
    /\ fetching = [f \in Fetches |-> None]
    /\ lastPayload = 0
    /\ delay = 0
    /\ failures = 0

----------------------------------------------------------------------------
(* The service.                                                            *)

News ==
    /\ up
    /\ news < MaxNews
    /\ news' = news + 1
    /\ UNCHANGED <<up, full, socket, wire, timers, retry, fetching, lastPayload,
                   delay, failures>>

UpOrDown ==
    /\ "down" \in Events
    /\ up' = ~up
    /\ UNCHANGED <<full, news, socket, wire, timers, retry, fetching, lastPayload,
                   delay, failures>>

FullOrNot ==
    /\ "full" \in Events
    /\ full' = ~full
    /\ UNCHANGED <<up, news, socket, wire, timers, retry, fetching, lastPayload,
                   delay, failures>>

\* The handler of this page sends the current snapshot.
Publish ==
    /\ up
    /\ socket = "open"
    /\ Len(wire) < MaxWire
    /\ wire' = Append(wire, news)
    /\ UNCHANGED <<up, full, news, socket, timers, retry, fetching, lastPayload,
                   delay, failures>>

Answer(f) ==
    /\ up
    /\ fetching[f] = Asked
    /\ fetching' = [fetching EXCEPT ![f] = news]
    /\ UNCHANGED <<up, full, news, socket, wire, timers, retry, lastPayload,
                   delay, failures>>

----------------------------------------------------------------------------
(* The page.                                                               *)

\* render: what comes last is drawn, and kept for a change of units.
Render(payload) == lastPayload' = payload

\* fetchLatest sends a request; the ones beyond the bound are left out.
Ask ==
    IF \E f \in Fetches : fetching[f] = None
    THEN \E f \in Fetches :
            /\ fetching[f] = None
            /\ fetching' = [fetching EXCEPT ![f] = Asked]
    ELSE UNCHANGED fetching

Longer(r) == IF r < MaxRetry THEN r + 1 ELSE r

Count(n) == IF n < MaxFailures THEN n + 1 ELSE n

\* Mutant: the delay is set back before it is used.
OnCloseNoLonger ==
    /\ socket' = "closed"
    /\ wire' = <<>>
    /\ Ask
    /\ timers' = timers + 1
    /\ delay' = 0
    /\ retry' = Longer(0)

\* socket.onclose; whether it was an error, a refusal or a lost connection.
OnClose ==
    /\ socket' = "closed"
    /\ wire' = <<>>
    /\ Ask
    /\ timers' = timers + 1
    /\ delay' = retry
    /\ retry' = Longer(retry)

\* The delay runs out: connect().
Connect ==
    /\ timers > 0
    /\ timers' = timers - 1
    /\ socket' = "connecting"
    /\ UNCHANGED <<service, wire, retry, fetching, lastPayload, delay, failures>>

\* socket.onopen: the service has accepted, also a page it is about to refuse.
Open ==
    /\ socket = "connecting"
    /\ up
    /\ socket' = IF full THEN "refusing" ELSE "open"
    /\ retry' = 0
    /\ failures' = 0
    /\ UNCHANGED <<service, wire, timers, fetching, lastPayload, delay>>

\* Mutant: onerror schedules a retry of its own.
ConnectFailsTwice ==
    /\ socket = "connecting"
    /\ ~up
    /\ socket' = "closed"
    /\ wire' = <<>>
    /\ Ask
    /\ timers' = timers + 2
    /\ delay' = retry
    /\ retry' = Longer(Longer(retry))
    /\ failures' = Count(failures)
    /\ UNCHANGED <<service, lastPayload>>

\* onerror closes the socket, and only onclose schedules the next attempt.
ConnectFails ==
    /\ socket = "connecting"
    /\ ~up
    /\ OnClose
    /\ failures' = Count(failures)
    /\ UNCHANGED <<service, lastPayload>>

\* Close code 1013.
Refused ==
    /\ socket = "refusing"
    /\ OnClose
    /\ UNCHANGED <<service, failures, lastPayload>>

Drop ==
    /\ socket = "open"
    /\ ~up \/ "drop" \in Events
    /\ OnClose
    /\ UNCHANGED <<service, failures, lastPayload>>

OnMessage ==
    /\ socket = "open"
    /\ wire # <<>>
    /\ Render(Head(wire))
    /\ wire' = Tail(wire)
    /\ UNCHANGED <<service, socket, timers, retry, fetching, delay, failures>>

\* setInterval: every two seconds without an open socket.
Poll ==
    /\ ~socketOpen
    /\ \E f \in Fetches : fetching[f] = None
    /\ Ask
    /\ UNCHANGED <<service, socket, wire, timers, retry, lastPayload, delay, failures>>

\* Mutant: an answer is only drawn while the socket is closed.
ArriveIfClosed(f) ==
    /\ fetching[f] \notin {None, Asked}
    /\ Render(IF socketOpen THEN lastPayload ELSE fetching[f])
    /\ fetching' = [fetching EXCEPT ![f] = None]
    /\ UNCHANGED <<service, socket, wire, timers, retry, delay, failures>>

\* The answer is drawn, whatever has happened to the socket since it was asked for.
Arrive(f) ==
    /\ fetching[f] \notin {None, Asked}
    /\ Render(fetching[f])
    /\ fetching' = [fetching EXCEPT ![f] = None]
    /\ UNCHANGED <<service, socket, wire, timers, retry, delay, failures>>

\* fetch() rejects; the empty catch.
FetchFails(f) ==
    /\ ~up
    /\ fetching[f] = Asked
    /\ fetching' = [fetching EXCEPT ![f] = None]
    /\ UNCHANGED <<service, socket, wire, timers, retry, lastPayload, delay, failures>>

Next ==
    \/ News \/ UpOrDown \/ FullOrNot \/ Publish
    \/ Connect \/ Open \/ ConnectFails \/ Refused \/ Drop \/ OnMessage \/ Poll
    \/ \E f \in Fetches : Answer(f) \/ Arrive(f) \/ FetchFails(f)

Spec == Init /\ [][Next]_vars

\* The publisher goes on, timers fire and what was sent arrives; the service need not
\* come up, have news or a place, and no connection need be lost.
FairSpec ==
    /\ Spec
    /\ WF_vars(Publish) /\ WF_vars(OnMessage)
    /\ WF_vars(Poll) /\ WF_vars(Connect) /\ WF_vars(Open) /\ WF_vars(ConnectFails) /\ WF_vars(Refused)
    /\ WF_vars(Drop /\ ~up)
    /\ \A f \in Fetches : WF_vars(Answer(f)) /\ WF_vars(Arrive(f)) /\ WF_vars(FetchFails(f))

----------------------------------------------------------------------------
(* Properties.                                                             *)

\* However often the service comes and goes, the page has one attempt: one socket that
\* can still report its close, or one timer that will call connect(), never both, two
\* or none; so an outage cannot multiply the clients the service counts (connect, whose
\* onerror leaves the retry to onclose).
OneAttempt ==
    Cardinality({s \in {socket} : s # "closed"}) + timers = 1

\* While no attempt has found a service, each attempt waits longer than the one before,
\* up to the longest delay: "retries with bounded exponential backoff"
\* (docs/phase8-dashboard.md:64).  A page that is accepted and then refused with 1013
\* starts from the first delay again.
BacksOff == failures > 0 => delay + 1 >= failures \/ delay = MaxRetry

\* Once the service stays up, what the page shows comes to be the current snapshot
\* and stays so, whether it has a place or is refused again and again, and whatever
\* old answer overtakes the socket (fetchLatest in onclose; the publisher repeats the
\* snapshot even when nothing is new).
CatchesUp == <>[]up => <>[](lastPayload = news)
=============================================================================
