# FH6 Telemetry: formal models, checks and proofs

This directory is a verification development for FH6 Telemetry, the Windows
service that receives Forza Horizon 6 "Data Out" packets over UDP, shows them
live in browsers and records driving sessions in SQLite. It holds TLA+ modules
translated from the Python and JavaScript code, TLC configurations that check them
on small instances, and proofs that TLAPS checks for every value of the constants.
`PROJECT.json` lists the components, the runs, the definition-to-source map, the
hazards, the findings and the theorems. Paths in it start at the repository root
(`src/`); below they are shortened where there is no doubt.

## 1. The system

    FH6 --UDP--> TelemetryUDPProtocol --> TelemetryState
                                            |      ^ settings window (own thread, 1 Hz)
                                 publisher task (20 Hz)
                                  |                 |
                     LatestValueBroadcaster     SessionRecorder.observe
                        |  (queue of 1 each)        |  (queue of 1)
                   /ws/telemetry handlers       writer thread --> SQLite
                   /ws/debug handlers  <-- TelemetryState.snapshot
                        |
                   dashboard.js (WebSocket, retries, polling of /api/telemetry)

Everything in the service but the writer thread and the tray's threads runs on one
asyncio event loop. The loop lives inside the lifespan of `main.py`, the lifespan in
the server thread of the tray (or in a plain uvicorn process), and the process shares
its data folder (`config.json`, the lock file, the database) with any other process
that is launched on it.

| Component (source) | State | Operations | Hard behaviour | What makes it correct |
|---|---|---|---|---|
| Session recorder (`sessions/recorder.py`, writes of `sessions/storage.py`) | queue of one, locals of `_run`, locked status, database | start, observe, stop, the writer loop, start/end session, add sample | two threads on one queue, commits that fail, death between commits, timeouts judged across threads | nothing newest is lost; sessions end, do not overlap, cover their packets |
| Live broadcast (`telemetry/broadcast.py`, `telemetry/service.py`, `web/websocket.py`) | subscribers, queues, debug counter, handlers | subscribe, publish, unsubscribe, two handlers | awaits before and after the limit check, slow and vanished browsers | the limit; no leaked slot; newest value wins; no going back |
| Telemetry state (`telemetry/state.py`, `telemetry/receiver.py`) | counters, latest payload / packet / validation, row cache | datagram, snapshot, listener events | bad datagrams between good ones, cached rows, derived advice | what is shown is the last parsed packet; page consistent with itself; exact rate |
| Packet rate (`telemetry/state.py`, read by `tray.py`) | deque of arrival instants | append, prune, rate | two threads without a lock | no exception in the publisher |
| Service lifecycle (`telemetry/service.py`, `main.py`, `runtime/single_instance.py`) | socket, publisher task, recorder thread, instance lock | start, stop, lifespan, acquire, release | a start or a stop that fails anywhere, the five-second join, a second process | one owner of the data folder; stop in order; the process ends |
| Tray application (`tray.py`) | server thread, shutting-down flag, settings | run, settings, exit, restart | threads racing at shutdown, 12 s timeouts | server first; a restart happens; exit completes |
| Configuration (`runtime/config_file.py`, `config.py`) | `config.json`, its `.tmp` | create, load and migrate, update | death between write and replace, two writers of one temporary file | never half a file; the user's port is kept and served |
| Network discovery (`network.py`) | none: candidates | collect, rank, choose, announce | several adapters, ties, unusable rows | the preferable address, one that reaches the socket |
| Dashboard page (`static/dashboard.js`) | socket, retry delay, requests, last payload | connect, retry, poll, render | reconnecting, late answers, refusals | one attempt at a time; back-off; the current snapshot in the end |
| Capture and replay (`tools/udp_probe.py`, `tools/replay_capture.py`) | capture file, cursor, digest, clock | write, validate, replay | a file read twice while it is written, torn lines, clocks set back | at most one packet lost; spacing kept; success means what was validated was sent |
| Storage reading (`storage.py`, routes of `web/api.py`) | read cursors, worker threads | list, CSV, JSON | reading while the writer commits; generators resumed on other threads | an export is a prefix of the session, later reads show no less |
| Parser, rows (`telemetry/parser.py`, `diagnostics.py`) | field table | decode, parse, make the rows | fields named by hand in three places | each byte shown once, beside its own value |
| Validation (`telemetry/validation.py`) | checks | validate | NaN, infinities, fields looked at twice | one damaged field never condemns the layout |

Not modelled: `/health`, `/api/network` and `/api/recording` (they return values that
other modules hold), unit conversions, labels and formatting (`models.py`,
`diagnostics.py`), paths, logging and the startup entry (thin wrappers of the operating
system), drawing and styling of the pages, packaging.

## 2. Modules

| Module | Models | Checked by |
|---|---|---|
| `SessionStore` | what the recorder promises about the history: open, append, close, or abandon a session | as `ImplementsStore` |
| `SessionRecorder` | the recorder; implements `SessionStore` | `MCSessionRecorder`, two configurations |
| `SessionRecorderProofs` | theorems about it: the hand-off, open sessions, what it records, the refinement | TLAPS |
| `LiveBroadcast` | broadcaster, client limit, WebSocket handlers | `MCLiveBroadcast` |
| `LiveBroadcastProofs` | theorems about it | TLAPS |
| `SessionExport` | the session list and the two exports beside a writer; composes `SessionStore` | `MCSessionExport`, two configurations |
| `SessionExportProofs` | theorems about it | TLAPS |
| `PacketLayout` | the field table, the wiring of packets and debug rows, as operators | composed in `TelemetryState` |
| `Validation` | the checks and the verdict, as operators | composed in `TelemetryState` |
| `TelemetryState` | datagrams, snapshots, guidance; composes the two | `MCTelemetryState` |
| `TelemetryStateProofs` | theorems about the three | TLAPS |
| `PacketRate` | the deque shared by two threads | `MCPacketRate` |
| `ServiceLifecycle` | the life of several processes on one data folder | composed in `TrayApp` |
| `TrayApp` | the tray's threads around the lifespan; extends `ServiceLifecycle` | `MCTrayApp`, two configurations |
| `TrayAppProofs` | theorems about `ServiceLifecycle` and `TrayApp` | TLAPS |
| `Dashboard` | how a page keeps up with the service | `MCDashboard` |
| `DashboardProofs` | theorems about it | TLAPS |
| `CaptureReplay` | a capture file, the probe and the replay tool | `MCCaptureReplay` |
| `CaptureReplayProofs` | theorems about it | TLAPS |
| `ConfigFile` | `config.json`, its temporary file and several processes | composed in `Startup` |
| `LanDiscovery` | the choice of the LAN address, as operators | composed in `Startup` |
| `Startup` | the start of a tray process; composes `ConfigFile` and `LanDiscovery` | `MCStartup` |
| `StartupProofs` | theorems about `Startup`, `ConfigFile` and `LanDiscovery` | TLAPS |

Operators preceded by "Mutant:" are not part of a model. Each one is a plausible
mistake in the definition that follows it; substituting it makes the property named in
`PROJECT.json` fail, which shows that the property watches the code.

### SessionRecorder

`producer` is the program counter of the event loop inside `observe()` and
`stop()`; `pc` that of the writer thread inside `_run()`. One step is what happens
between two points where the other thread may run or the process may die: one
operation on the queue, one commit, one locked update of the status. So
`Observe`, `Evict`, `Reput` and `CountDropped` are the four stages of
`observe()`, and `EndOnCarChange`, `StartSession`, `SetActive`, `AddSample`,
`CountSample` the stages of one event with a new packet; `TakePacket` performs
the branching of `_run()` and sends the writer to the first of them that applies.
`WriterFails` is a `sqlite3.Error` out of any commit (the commit is then not
stored), `OpenFails` one out of `open_writer()`, `Restart` the death or the end of
the process followed by a new one on the same database. `Joined` may happen with
the writer alive: `join()` gives up after five seconds.

Abstractions. The clock is an integer that starts at 1 (so that 0 is "never"). The
instants `observed_monotonic` and `observed_at` are read together and are one
instant. A packet is its revision and its car ordinal; the driving values, the mode
and the best lap of a session are left out. `NoSession`, 0, is `session_id is None`
and a session is otherwise its position in the table. The initial `car_ordinal`
None acts like 0 in the only test that reads it.

`SessionStore` is the abstract specification: a history in which a session is opened
at the end, grows only at its end and only while it is the live one, is closed once,
or is abandoned. `ImplementsStore` maps `log` to the database and `live` to the
writer's open session.

### LiveBroadcast

A step is what a task does between two awaits; `get()` on a queue that holds a
value does not yield, so `Sent` takes the next snapshot at once when there is
one. Each handler is `none`, `accepted` (the browser is connected, the limit not
yet looked at), `refusing`, `sending` or `waiting` (in `queue.get()`, or in the
sleep of the debug handler). `Vanish` is a browser that goes away without its
handler knowing. `SendFails` and `DebugFails` are the exception or the timeout
with the `finally` block, `SubscribeFails` an exception out of the extra publish on
subscribing. `PublisherDies` ends the publisher's task for good, as its exceptions do.

### SessionExport

The writer is any writer that keeps the promises of `SessionStore`, which
`SessionRecorder` is shown to implement (`ImplementsStore`). A read sees what is
committed at its first step, as SQLite's WAL mode has it. Each download is a client that
may look at the list first (`ListSessions`), a route (`Request`) and a generator whose
`next()` calls are the steps `OpenExport`, `SelectSamples` and `SendNext`. Each call is
handed to the thread pool: `Submit` takes the worker that became idle last, or a new one,
and `Release` makes it idle again. `BreakOff` is the `ProgrammingError` of a connection
used outside the thread that opened it. A client that hangs up is a download that takes no
further step. A sample is its number; the columns and the text of the formats are left out.

### PacketLayout, Validation

Both have no state. `FIELD_DEFINITIONS` is the table, `FieldLayoutAsserted` the assertion
of the parser at import, `Attribute` and `WheelAttribute` the field each attribute of a
packet is parsed from, `Normalized` and `WheelRow` the attributes a debug row shows;
`DiagnosticRows` follows both ways from the bytes to the row. `Validation` compares numbers,
NaN and the infinities as IEEE 754 does; `ErrorRanges` and `WarningRanges` are the ranges by
severity, and `LayoutLikelyValid` the verdict. Fields are counted in whole units, the speed
in whole m/s.

### TelemetryState

A datagram is its number, its instant, its size and the checked fields in which it differs
from a plausible packet; packet, payload, validation and rows are named by the datagram
they come from, so "from the same datagram" is equality, and the verdict is computed from
its fields. `HandleDatagram` is the whole of `handle_datagram`, `RealtimeSnapshot` and
`Snapshot` the two snapshots, `shown` what the last of them returned. The `except` branch
of `handle_datagram` is left out: no packet of 324 bytes makes the parser or the checks
raise. Senders are bounded in the numbers of datagrams they send.

### PacketRate

CPython switches threads after a call returns and at the backward jump of a loop.
The steps are the stretches between those points: the first test of the `while` in
`_prune` runs together with the first `popleft()`, each later test and `popleft()`
are separate (`Retest`, `Pop`), and so are `len()` and `[0]` (`Measure`, `Oldest`).
`periodic` names the threads whose regular snapshots still go on: an `IndexError` out
of the publisher's snapshot ends its task.

### ServiceLifecycle

`step[p]` is where the lifespan of process `p` is; a step goes to the next await or to
the next call of the system that can fail. The start runs through `SetUp`, `Acquire`,
`InitializeStorage`, `StartRecorder`, `Bind` and `Discover`; the way out through
`CloseSocket`, `CancelPublisher`, `TellRecorder`, `Join` and `Release`; each failure
leads to the `except` and `finally` blocks that the code has for it. `TellRefused` is the
`RuntimeError` of `asyncio.to_thread` in an interpreter that is on its way out. The
publisher task and the recorder's thread run beside it and may die. `Exit` waits for the
recorder's thread, because it is no daemon; `Crash` is the death of the process at any
point, after which the operating system closes its handles. `Faults` names what may go wrong.

### TrayApp

It extends `ServiceLifecycle`: the server thread of each process runs its lifespan
(`LifespanRuns`, and `Serve` and `StopServing` for uvicorn before and after serving).
`main` is where the main thread is, `pc[p][t]` where each of the threads `main`, `exit` and
`restart` is inside `shutdown()`. The check and the set of `_shutting_down` are two steps
(`Check`, `Set`), because no lock holds them together. `JoinServer` may give up after
twelve seconds (`gaveUp`). Once the main thread is over no thread can be started;
`ProcessEnds` then waits for the recorder's thread, and the daemon threads die with the
process wherever they are, which for the lifespan is a crash. An icon whose loop ends though
nobody stopped it leaves the main thread `broken` and not in `shutdown`. `Popen` launches another
process of the model. A save that fails is shown and no thread follows it, so
`Click(p, "restart")` is a save that succeeded.

### ConfigFile, LanDiscovery, Startup

A start makes the file if there is none, reads it, migrates it, and later reads it again
in the lifespan; the settings window reads it and writes it back. A write opens the
temporary file (and truncates it), writes it, and replaces the configuration. Contents
are `Missing`, `Half` (what `json.loads` refuses) or a version and a port. Of the settings
only `http_port` is followed, together with the variable of the environment that overrides
it; a bad variable (`BadPort`) ends a start, as the checks of the other settings do.
`os.replace` is that of Windows: it fails while another process has one of the files open.
Two history variables name the exceptions of the properties: `mixed` (the temporary file
was opened while another process was between opening and replacing it) and `raced` (a
write replaced a configuration its writer had not read).

`LanDiscovery` has no state: a command's result is a record of whether it worked and of
the rows read from it, and `Discovered`, `DiscoveryWarnings` and `EndpointStatus` are what
the functions of `network.py` compute from it. A bind host may be any text: those that are
neither an address another device can use, nor 0.0.0.0, 127.0.0.1 or localhost, are
`OtherHosts`. `Startup` joins both in `TrayApplication.__init__`. That importing `main.py`
reads the configuration once more, and only reads it, is left out.

### Dashboard

The page has one WebSocket, any number of `setTimeout` timers and any number of requests
under way; a handler of the page is one step. The service is seen from outside: up or
down, with or without a place, and with a current snapshot. A delay is its place in the
series 750 ms * 1.6^n, capped at 8000 ms. A page that is refused is accepted first and
closed with 1013 afterwards, as `websocket.py` does it.

### CaptureReplay

A file is a sequence of lines; a line that is written in part is `Half`. The probe may
end between any two writes and be started again with or without `--overwrite`. The replay
tool reads the file twice, once to validate it (`Inspect`) and once to send it (`Read`,
`Sleep`, `Wake`, `Send`), and compares the packets, the bytes and the digest of the bytes
at the end (`End`). The time stamps come from a wall clock that may be set back, the
deadlines from a monotonic one. Of the speeds, 1 (`timed`) and `max` are modelled: another
factor only scales the offsets (`replay_capture.py:351`).

## 3. Runs

| Run | Configuration | Asks | Distinct states |
|---|---|---|---|
| `recorder_history` | `SessionRecorder.cfg` | Is nothing lost in the hand-off (`NewestKept`, `DropsAccounted`), and are the recorded sessions right (`OnlyLastOpen`, `RecordedOnce`, `SpansAreTight`)? Does the status follow the commits (`StatusFollows`)? With `TypeOK`, which the proofs start from | 3.1 M |
| `recorder_restart` | `SessionRecorder_restart.cfg` | Does the history only change as `SessionStore` allows, across errors, deaths and restarts (`ImplementsStore`)? Does stop end the writer and silence the session (`StopEndsWriter`, `SilenceEndsSession`)? | 1.5 M |
| `broadcast` | `LiveBroadcast.cfg` | Do the limit and the slots hold (`LimitHeld`, `SlotsMatchHandlers`), does no connection go back in time, and is a dashboard sent the newest snapshot there is (`NeverBackwards`), does a slow dashboard catch up and a vanished one leave (`CatchesUp`, `VanishedIsFreed`)? | 85 k |
| `state` | `TelemetryState.cfg` | Is the page right whatever datagrams come (`ShownTogether`, `RowsShowTheirBytes`, `GuidanceTruthful`), is one damaged field forgiven (`OneFieldIsForgiven`), is the rate exact (`RateIsTrue`)? | 430 k |
| `rate_publisher` | `PacketRate_publisher.cfg` | finding: `PublisherSurvives` fails | - |
| `tray` | `TrayApp.cfg` | Has the data folder one owner, through every failure (`OneOwner`, `NoStaleLock`, `PortFollowsLock`)? Does the service stop in order (`StopOrder`), and before a successor is launched, its recorder told (`ServerStopsFirst`)? Does the process end (`StopExits`, `ExitCompletes`)? | 287 k |
| `tray_restart` | `TrayApp_restart.cfg` | finding: `RestartHappens` fails | - |
| `page` | `Dashboard.cfg` | Has the page one attempt (`OneAttempt`), does it back off (`BacksOff`), and does it come to show the current snapshot (`CatchesUp`)? | 57 k |
| `capture` | `CaptureReplay.cfg` | What is lost (`LosesAtMostOne`), is the spacing kept (`SpacingKept`), and what does success mean (`DoneIsTheCapture`)? | 7.0 M |
| `startup` | `Startup.cfg` | Is the configuration whole and the user's port kept and served (`ConfigIsWhole`, `ServesChosenPort`)? Are the announced addresses the right ones (`BestAdapterShown`), and is one announced whenever one is known (`AddressesReach`)? | 1.9 M |
| `export` | `SessionExport.cfg` | Is a download a prefix of the session (`ExportIsPrefix`), do later reads show no less than earlier ones (`ReadsNeverGoBack`), does a summary agree with its samples (`SummaryNotAhead`)? | 282 k |
| `export_threads` | `SessionExport_threads.cfg` | finding: `NeverCutShort` fails | - |

Bounds and why they are enough. All clocks, revisions and counters are bounded in
the guards by the `Max...` constants.
- `recorder_history`: three observations of up to three packets of no car or two
  cars over four instants are enough for two sessions in a row (by car change or
  by timeout), a sample skipped by the rate (`SampleGap` 2), a repeated revision, a
  replaced update and a failure at any commit; a session needs one observation to
  start, one to be sampled again and one to be changed, and no property relates
  more than two sessions.
- `recorder_restart`: one death at any point and one failure, two packets.
- `broadcast`: two slots for two dashboards and a debug page, so a third browser of
  either kind arrives while both are taken; two revisions for a stale queued one.
- `state`: one sender mixes three datagrams (good, of another length, with two failed
  checks) with a timeout of one instant and a window of two, so that a good packet comes
  before and after a bad one, fresh and stale, inside and outside the window; the others
  send one packet each: one with three failed checks, and, for every checked field, every
  way to damage that field alone (the ends of its type and values beside its range; for a
  float also NaN and the infinities).
- `rate_publisher`: a window of two instants, and enough time for three packets to expire
  under one thread while the other holds them.
- `tray`: two processes, each launched once, with every fault at once: one holds the lock
  while the other starts, or is launched by the other's restart, after each way to end. A
  restart and an exit happen at the icon of one of them (`Handled`); the other shows what
  a successor and a competitor meet. Launching the same process again adds nothing: it
  would start with the state of a new one.
- `export`: one download beside another user of the thread pool and a writer of up to two
  sessions of three samples: commits fall before, between and after the three reads of a
  download, and the session ends, or is abandoned, at each of these points.
- `export_threads`: two downloads.
- `page`: three snapshots and two requests, so that an answer can be older than what
  the socket has brought and than another answer; eight failures reach the longest delay.
- `capture`: three packets over two starts of the probe, payloads `<1>` and `<1,1>` (two
  packets can have the bytes of one), clocks of three instants, sleeps of one.
- `startup`: one machine with two processes, two starts each and one save, from every
  file an older install can have left (none, broken, each version and port) and every kind
  of environment; and machines with one start and every list of up to three rows that
  tie, repeat an address, are virtual, public or unusable, with every kind of bind host
  (any, loopback, an address, and one the code can do nothing with).

`CHECK_DEADLOCK FALSE` stands where the bounds leave nothing to do, where a stopped
service, an ended process or a finished tool really stops, and nowhere else.

## 4. Fairness

Liveness is only checked under these assumptions; nothing else is forced: no packet,
observation, stop, error, launch, save or click has to happen.
- `SessionRecorder!FairSpec`: weak fairness of the event loop inside `observe()` and
  `stop()`, which never block, and of the writer thread, which wakes up every 0.25 s.
- `LiveBroadcast!FairSpec`: the publisher runs, the loop resumes every handler that can go
  on, and a send ends one way or the other, which `websocket_send_timeout_seconds`
  enforces. It does not assume that browsers answer, nor that the publisher lives:
  `PublisherDies` may always happen.
- `TrayApp!FairTraySpec`: every lifespan goes on to its next step and every thread of the
  tray runs on (each wait in them is bounded, or is the interpreter's wait for the
  recorder's thread), and a recorder that has been told to stop ends, which `StopEndsWriter`
  of `SessionRecorder` justifies. It does not assume that uvicorn comes to an end of waiting
  for its connections: `StopServing` is not fair.
- `Dashboard!FairSpec`: the publisher goes on, timers fire and what was sent arrives; a
  connection is only forced to drop when the service is down. `CatchesUp` is about the
  case that the service stays up in the end.

## 5. Findings

1. **The settings window can kill the publisher** (`rate_publisher`). Its thread prunes
   the deque while the publisher is between test and use; the `IndexError` ends the
   publisher task, and with it broadcasting and recording, although UDP reception and
   `/health` go on; `docs/phase6-service.md:59` promises that the service publishes at
   its rate. It takes packets that expire between the two steps, that is a pause of the
   game while the window is open.
2. **"Save & restart" may end without a restart** (`tray_restart`). `icon.stop()` lets
   the main thread return, its own `shutdown()` returns at once because
   `_shutting_down` is set, and the process may be gone before the daemon thread reaches
   `Popen`; `docs/windows-tray-app.md:17-18` says that "the app restarts itself". The run
   allows no fault and finds it all the same.
3. **A download breaks off when another is under way** (`export_threads`). `_connect`
   (`storage.py:148`) leaves `check_same_thread` on, but every `next()` of `iter_csv` and
   `iter_json` runs on the worker thread that became idle last. As long as nobody else uses
   the pool that is the same thread; a second download, or a static file served in between,
   makes it another, and the `ProgrammingError` ends the response in the middle.
   `docs/phase9-runtime-foundation.md:38` says that both formats "stream from the database
   and therefore remain safe for long drives".

Known limits of the code, met while modelling and visible in the models. No run refutes
a property for them; where a property has to make an exception for one, it says so.
- A session that begins with car 0 keeps that car and is not split by a later change
  between two cars (`recorder.py:139`).
- After an SQLite error the open session gets no end, also at a clean stop
  (`recorder.py:166`); `OnlyLastOpen` names the error.
- `join()` of the recorder gives up after five seconds and the lock is released although
  the thread may still write (`recorder.py:80`).
- A publisher that has died raises its exception out of `stop()`, which skips
  `recorder.stop()` (`service.py:80`); the recorder's thread then keeps the process.
- Exit, or a restart, during a download that outlasts the twelve seconds of the join: the
  main thread returns, `asyncio.to_thread` then raises `RuntimeError` (`service.py:84`)
  because the interpreter starts no thread any more, the recorder is never told, the session
  gets no end and the process does not end either. `docs/windows-tray-app.md:18` says that
  "Exiting normally finalizes the current driving session". `gaveUp` names this case in
  `ServerStopsFirst` and `ExitCompletes`, `Untold` the one above.
- An icon whose loop ends by itself while a thread waits for the server in `shutdown()`:
  the main thread finds `_shutting_down` set and does not wait, and the recorder may be left
  untold as above (`Untold`).
- A recorder that outlasts its `join()` has been told but may still have its session open
  when the main thread returns; the interpreter waits for it.
- When the publisher has died, a dashboard whose handler waits for it keeps its slot
  although the browser is gone (`websocket.py:28`); `VanishedIsFreed` makes the exception.
- The tray reports a failed start after twelve seconds although the server thread may
  still come to serve (`tray.py:128`); a recorder it has started then keeps the process.
  No property covers what becomes of it, but for those of the lock.
- "Open dashboard" uses localhost also if `http_host` is a LAN address (`tray.py:80`).
- A dashboard refused with 1013 was open before, so its delay starts from the first again
  (`dashboard.js:423`); `BacksOff` is about outages.
- A torn last line makes the reader refuse the whole capture; an edit of a capture that
  keeps the number of packets and the bytes, such as one of its time stamps, is not noticed
  between validation and replay; a replay into the port of the probe that writes the same
  file would not come to its end.
- Two processes share one temporary name for the configuration (`config_file.py:25`): half
  of a configuration can be published and an update lost. `mixed` and `raced` name these
  cases.
- A bind host that is neither 0.0.0.0, `127.0.0.1` or `localhost`, nor an address another
  device can use (127.0.0.2, a link-local or multicast address, `::`, a host name) is taken
  as it is (`config.py:33`); `endpoint_status` then announces no address and says nothing.
  `AddressesReach` names these hosts (`OtherHosts`). Of the rows of one address only the
  first counts.

## 6. Proofs

Every theorem below holds for all values of the constants that satisfy the named
assumption of its module. An invariant is shown by `Init => Inv`,
`Inv /\ [Next]_vars => Inv'` with one case per action, and `Inv => Property`; TLC has
found each of these invariants true on the configurations of section 3 (`NetInv` of
`StartupProofs` with one launch of each process and no save). What follows says which
invariant, and why the property alone is not inductive.

### The recorder: `SessionRecorderProofs`

For every set of cars, every timeout and rate and all bounds, from `RecorderAssumption`.

| Theorem | Property | Argument |
|---|---|---|
| `TypeCorrect` | `TypeOK` | inductive with `WorkInv`, which says that the writer has an event in hand, and a session, at exactly the points that use one |
| `NewestAlwaysKept` | `NewestKept` | `HandoffInv` adds that the queue is empty before `start()`; only the writer acts on the queue between the two puts, and it can only empty it |
| `DropsAlwaysAccounted` | `DropsAccounted` | `DropInv` adds at which points of `observe()` and `stop()` one loss may be uncounted |
| `OnlyLastStaysOpen` | `OnlyLastOpen` | `OpenInv` adds that the session in hand is the last row, belongs to this process and has seen a packet at an instant other than 0, so that its end is never NULL |
| `RecordedAtMostOnce` | `RecordedOnce` | `FlowInv`: updates keep their order from `observe()` through the queue to the writer, and the one in hand is the last it saw. `PairwiseInv` adds that nothing recorded is newer than that one, and that an update about to be recorded is newer than all |
| `SpansAlwaysTight` | `SpansAreTight` | `SpanInv`: the history ends at the last update seen, and `_run()` remembers the start of the session in hand |
| `StatusAlwaysFollows` | `StatusFollows` | `CountInv` says between which two steps the status is exact, one sample behind, and cleared |
| `RecorderImplementsStore` | `ImplementsStore` | `StoreInv` joins the invariants above with `LiveInv`, which says that the session in hand is open in the table until the writer gives up; then each commit is a step of `SessionStore`, a restart abandons the live session, and every other step is a stutter |

`NextCases` names the cases of the next-state relation; `DataCases` groups those that touch
the history.

### The lifespan and the tray: `TrayAppProofs`

For any set of processes and of faults and any number of launches, from
`LifecycleAssumption`; the last two also from `TrayAssumption`.

| Theorem | Says |
|---|---|
| `OneOwnerAlways` | `OneOwner` |
| `LockNeverStale` | `NoStaleLock` |
| `PortAlwaysFollowsLock` | `PortFollowsLock` |
| `StopAlwaysInOrder` | `StopOrder` |
| `TrayImplementsLifecycle` | `TraySpec => Spec`: whatever the tray's threads do, the lifespan only takes the steps of `ServiceLifecycle`, a process that ends under its daemons included; so the four theorems above hold of tray processes too |
| `ServerAlwaysStopsFirst` | `ServerStopsFirst` |

The first four follow from `LifeInv`: who is past `acquire()` has the lock, who has the
lock is on its way to `release()`, a socket is open only between `Bind` and `CloseSocket`,
and a recorder is told only after its publisher has been cancelled. `OneOwner` alone does
not say that a process in the managed part holds the lock, so another could take it.

The last follows from `TrayInv`, which has three parts. `PlaceInv` relates where the main
thread, the server and the threads in `shutdown()` are. `EndInv`: unless a join timed out, a
process whose icon is stopped, or whose restart thread is about to launch, has ended its
lifespan. `ToldInv`: once the server is past the step that tells the recorder, it has told
it, but for the cases of `Untold`; for `to_thread` to be refused the main thread would have
to be over (`NeverOverBeforeTold`), and from a stopped icon it only is after `EndInv`. With
`LifeInv`, which the refinement carries over, an ended lifespan has neither the lock nor the
port. `ServerStopsFirst` alone says nothing of an icon that is stopped while the main thread
is still on its way, nor of a recorder before the server has ended.

### Live broadcast: `LiveBroadcastProofs`

For any finite sets of dashboards and debug pages and any limit, from
`BroadcastAssumption`.

| Theorem | Property | Argument |
|---|---|---|
| `SlotsAlwaysMatch` | `SlotsMatchHandlers` | inductive with the types: a handler takes its slot in the step that checks the limit |
| `LimitAlwaysHeld` | `LimitHeld` | `SlotInv`: the two counters together stay below the limit, and by the theorem before they count the handlers. The number of handlers served is that of two disjoint finite sets |
| `ConnectionsNeverGoBack` | `NeverBackwards` (an action property) | `OrderInv`: what was sent, is being sent, is queued and was published come in this order, up to the revision. `QueueInv`: a queue is empty or holds the newest snapshot, and belongs to a subscriber |

### Reading and export: `SessionExportProofs`

For any downloads, pages, threads and lengths of the history, from `ExportAssumption`.
`ReadInv` says of each step of a generator what the download knows of its session
(`Sound`): what was sent begins the rows of the cursor, these begin the samples in the
history, and each summary read before is covered by the rows read after. It is kept by the
steps of the writer because a history that follows `SessionStore` only grows (`Grows`):
a row keeps its samples, and an ended row does not change. `ExportsAlwaysSound` is this
invariant, `DownloadsArePrefixes` (`ExportIsPrefix`), `ReadsAlwaysForward`
(`ReadsNeverGoBack`) and `SummariesNeverAhead` (`SummaryNotAhead`) follow from it.

### Telemetry state: `TelemetryStateProofs`

For any senders, timeout, window and plausible packet, from `StateAssumption`,
`FloatAssumption` and `NamesAssumption`. The first asks of a sender that its datagrams have
a size and finitely many damaged fields, and of the plausible packet that it has the
checked fields and passes the checks. The last is a closed fact about the names of the
field table, written as an assumption because the provers do not compute concatenated
strings: TLC evaluates it on every run of the module.

| Theorem | Property | Argument |
|---|---|---|
| `PageIsTogether` | `ShownTogether` | `LiveInv` (packet and payload are the last parsed and the last received of the history), `RowsInv` (the cached rows are of the revision they name, and none is ahead of the packet), `ShownInv` (what was shown was true of the datagrams that had come by then) |
| `AdviceIsTruthful` | `GuidanceTruthful` | with the same, and `PageInv` |
| `DamageIsForgiven` | `OneFieldIsForgiven` | a damaged field fails at most two important checks; that the checks of all others pass follows from those of the plausible packet |
| `RateIsAlwaysTrue` | `RateIsTrue` | `Follows`: the deque holds the arrivals of the last datagrams, and all others are too old. `PrunedWithin` shows that pruning leaves exactly those within the window, `ClockInv` that they are sorted |
| `RowsAlwaysTrue` | `RowsShowTheirBytes` | see below |

`StateAlwaysSound` is the invariant itself. That a set of arrivals has an earliest one
(`LeastNatural`) is taken from the well-foundedness of `<` on the naturals.

What the debug page shows is proved without going through the rows one by one, so the
argument tells a maintainer which change of the table is safe:

- Each byte is in exactly one row (`EachByteInOneRow`), from `LayoutAssumption`, which is
  the assertion that `parser.py` makes at import (`_assert_field_layout`). `LaterStartsAfter` and
  `EachByteOnce` show it for any table in which each field starts where the one before
  ends; `TableType` shows that this table is one, with sizes that are numbers.
- Each value was decoded from the field of its row (`RowsTrue`). A name that is not in the
  table of attributes is either shown raw or taken apart into a wheel's prefix and suffix,
  and then put together again from the same two (`RawRow`), whatever strings they are; for
  a name with attributes, `NormalizedRow` looks up the two tables.

### Dashboard: `DashboardProofs`

From `DashboardAssumption`, for any numbers of snapshots, requests and failures.
`AlwaysOneAttempt` (`OneAttempt`) follows from `AttemptInv`: the page has exactly one timer
if its socket is closed and none otherwise. `AlwaysBacksOff` (`BacksOff`) follows from
`RetryInv`: the place in the series of delays is not behind the failures in a row, or is
the last.

### Configuration and discovery: `StartupProofs`

For any processes, ports and machines, from `ConfigAssumption`, `AddressAssumption` (an
address that means anything, the machine itself or nothing is none of a host, and a host of
`OtherHosts` is none of these) and `StartupAssumption` (the rows have their types, and the
hosts of the settings are one of the kinds of `Addresses`, which between them are all texts).

| Theorem | Property | Argument |
|---|---|---|
| `ConfigAlwaysWhole` | `ConfigIsWhole` | `WholeInv`: unless two writers met (`mixed`), at most one process is between opening and replacing the temporary file, and what it is about to put in place is what it wrote, and whole |
| `ChosenPortAlwaysServed` | `ServesChosenPort` | `ChoiceInv`: the file has, or would have once it is migrated, the port the user has chosen (`FileHasIt`); what a process is about to write is what it read, migrated, or what the user has saved (`WritesIt`); and a process that has read since the last save has the right port (`HasIt`), also while it writes the migration and before it serves |
| `BestAlwaysShown` | `BestAdapterShown` | by the rank: `RankedStrict` and `PreferableIsLess` show that it is a strict total order of the places of a list and says what is preferable, `CandidatesFacts` and `SortedFirst` carry that through filter, deduplication and sorting |
| `AddressesAlwaysReach` | `AddressesReach` | `PrimaryIsKnown`: the primary address is usable and known to a source, and is none only if no known address is usable; `UsableIsCandidate` and `CandidateCounts` carry that through each source of the fallback chain |

The lemma under the last two is `NthPlace`: in a finite strict order, to have n - 1 others
before it is true of exactly one place for each n. It is proved by counting (an injection
between finite sets of one size is a surjection), which needs no induction. For its sake
`LanDiscovery` says what a sorted list is by `Nth` and not with the sorting operator of the
community modules, whose result the provers know nothing of.

### Capture and replay: `CaptureReplayProofs`

For all payloads, times, chunks of sleep and numbers of starts, from `CaptureAssumption`.

| Theorem | Property | Argument |
|---|---|---|
| `AtMostOneLost` | `LosesAtMostOne` | `WriteInv`: line `i + 1` of the file is packet `i`, or it is the half line that is being written or that a probe has left; which of the two depends on where the probe is |
| `SuccessIsTheCapture` | `DoneIsTheCapture` | `ReadInv`: how far each pass is (the number of packets validated and sent follows from the position in the file), and that what was read is still in the file at the same place (`InFile`). It is kept while the probe writes because a file that is not started again only grows (`FileGrows`) |
| `SpacingAlwaysKept` | `SpacingKept` | `SpaceInv`: the offset of the packet in hand is the latest time stamp so far, counted from the first (`Latest`), and a sleep that has begun ends no later than its deadline |

None of the three properties is inductive. `LosesAtMostOne` does not say that a half line
can only be the last one; `DoneIsTheCapture` speaks only of a replay that has ended; and
`SpacingKept` says nothing of the packet in hand, whose deadline must count the stamps of
packets that a wall clock put later than it.

## 7. What is only model-checked

Every invariant and every other safety property of a passing run is a theorem. What is left:

- Liveness, because it needs fairness and ENABLED, which are out of this prover's reach:
  `StopEndsWriter`, `SilenceEndsSession`, both `CatchesUp`, `VanishedIsFreed`, `StopExits`,
  `ExitCompletes`.
- The properties that the findings refute.

## 8. Plan

In this order.

1. `TelemetryPipeline`: `TelemetryState`, publisher, broadcaster and recorder composed: one
   packet keeps one revision from the datagram to the history and the browsers.
2. The customization of `dashboard.js` with its local storage.
