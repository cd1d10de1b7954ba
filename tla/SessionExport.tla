---------------------------- MODULE SessionExport ----------------------------
(***************************************************************************)
(* Reading the session history while it is written: the session list and   *)
(* the CSV and JSON exports of src/app/sessions/storage.py, served by      *)
(* src/app/web/api.py.                                                     *)
(*                                                                         *)
(* The writer is any writer that keeps the promises of SessionStore, which *)
(* SessionRecorder is shown to implement.  SQLite is in WAL mode: a SELECT *)
(* sees the commits made before its first step and no later one.           *)
(*                                                                         *)
(* A route runs on the event loop and reads the session row; the body is a *)
(* generator, and each of its next() calls is handed to a thread pool.  A  *)
(* worker that reports its result becomes idle and is the first to be used *)
(* again, so a generator stays on one thread only while nobody else uses   *)
(* the pool.  sqlite3 refuses a connection outside the thread that opened  *)
(* it.  A client that hangs up is an export that takes no further step.    *)
(***************************************************************************)
EXTENDS SessionStore, FiniteSets, SequencesExt

CONSTANTS
    Exports,        \* downloads
    Pages,          \* other users of the thread pool: static files
    MaxSessions,    \* bound: sessions written
    MaxSamples,     \* bound: samples of one session
    NoThread

ASSUME ExportAssumption ==
    /\ MaxSessions \in Nat /\ MaxSamples \in Nat
    /\ Exports \cap Pages = {} /\ IsFiniteSet(Exports \cup Pages)
    /\ NoThread \notin Nat

VARIABLES
    export,     \* each download: its client, its route and its generator
    idle,       \* the pool's idle workers, the last one is used first
    worker      \* the worker that runs a user's call, or NoThread

vars == <<storeVars, export, idle, worker>>

Users == Exports \cup Pages
Ids == 1..MaxSessions

\* A download nobody asked for yet.  told is what its client read in the
\* session list, head what the JSON export says of the session.
NoSummary == [count |-> 0, ended |-> FALSE]
NoExport == [step |-> "none", kind |-> "csv", id |-> 0, told |-> NoSummary, head |-> NoSummary,
             opener |-> NoThread, rows |-> <<>>, sent |-> <<>>]

----------------------------------------------------------------------------
(* The writer, as SessionStore describes it.                               *)

\* INSERT of a session.
StartSession ==
    /\ Len(log) < MaxSessions
    /\ log' = Append(log, [car |-> 0, startedAt |-> Len(log) + 1, endedAt |-> NotEnded,
                           duration |-> 0, reason |-> "none", samples |-> <<>>, count |-> 0])
    /\ OpenSession

\* The row with its nth sample and sample_count + 1.
SampledRow(row, n) ==
    [row EXCEPT !.samples = Append(@, [rev |-> n, at |-> n]), !.count = @ + 1]

\* Mutant: the summary is counted in a commit of its own, ahead of the sample.
AddSampleCountFirst ==
    /\ live # 0
    /\ LET row == log[live]
           n == Len(row.samples) + 1
       IN  /\ n <= MaxSamples
           /\ log' = [log EXCEPT ![live] =
                 IF row.count < n
                 THEN [row EXCEPT !.count = n]
                 ELSE [row EXCEPT !.samples = Append(@, [rev |-> n, at |-> n])]]
    /\ live' = live

\* add_sample: both are one commit.
AddSample ==
    /\ live # 0
    /\ LET n == Len(log[live].samples) + 1
       IN  /\ n <= MaxSamples
           /\ log' = [log EXCEPT ![live] = SampledRow(@, n)]
    /\ AppendSample

\* end_session.
EndSession ==
    /\ live # 0
    /\ LET at == MaxSessions + MaxSamples
       IN  log' = [log EXCEPT ![live] =
               [@ EXCEPT !.endedAt = at, !.duration = at - log[live].startedAt,
                         !.reason = "telemetry_timeout"]]
    /\ CloseSession

\* The writer fails, or the process dies and starts again: the row stays open.
LoseSession == Abandon

Writer ==
    /\ StartSession \/ AddSample \/ EndSession \/ LoseSession
    /\ UNCHANGED <<export, idle, worker>>

----------------------------------------------------------------------------
(* The routes, on the event loop.                                          *)

\* _session_dict: what a reader learns of a row beside its identity.
Summary(id) == [count |-> log[id].count, ended |-> ~Unfinished(log[id])]

\* GET /api/sessions: ORDER BY started_at DESC LIMIT limit.
ListSessions(e, limit) ==
    /\ export[e].step = "none"
    /\ \E id \in 1..Len(log) :
        /\ id > Len(log) - limit
        /\ export' = [export EXCEPT ![e] =
              [@ EXCEPT !.step = "listed", !.id = id, !.told = Summary(id)]]
    /\ UNCHANGED <<storeVars, idle, worker>>

\* GET /api/sessions/{id}/export.*: 404 unless get_session finds the row.
\* Making the generator runs none of its code.
Request(e, kind, id) ==
    /\ export[e].step = "none" \/ (export[e].step = "listed" /\ id = export[e].id)
    /\ export' = [export EXCEPT ![e] =
          [@ EXCEPT !.kind = kind, !.id = id,
                    !.step = IF id \in 1..Len(log) THEN "open" ELSE "missing"]]
    /\ UNCHANGED <<storeVars, idle, worker>>

----------------------------------------------------------------------------
(* The thread pool, external: a call takes the worker that became idle     *)
(* last, or starts a new one.                                              *)

Streaming(e) == export[e].step \in {"open", "select", "rows", "tail"}
Started == Cardinality({u \in Users : worker[u] # NoThread}) + Len(idle)

Submit(u) ==
    /\ worker[u] = NoThread
    /\ u \in Exports => Streaming(u)
    /\ IF idle = <<>>
       THEN worker' = [worker EXCEPT ![u] = Started + 1] /\ idle' = idle
       ELSE worker' = [worker EXCEPT ![u] = Last(idle)] /\ idle' = Front(idle)
    /\ UNCHANGED <<storeVars, export>>

\* The worker reports its result and is idle again.
Release(u) ==
    /\ worker[u] # NoThread
    /\ idle' = Append(idle, worker[u])
    /\ worker' = [worker EXCEPT ![u] = NoThread]
    /\ UNCHANGED storeVars

ServePage(p) == Release(p) /\ UNCHANGED export

----------------------------------------------------------------------------
(* iter_csv and iter_json: one next() call each.                           *)

\* Until its first yield: iter_json reads the session row, both open their
\* connection on the worker that happens to run them.
OpenExport(e) ==
    /\ export[e].step = "open"
    /\ Release(e)
    /\ export' = [export EXCEPT ![e] =
          [@ EXCEPT !.step = "select", !.opener = worker[e],
                    !.head = IF export[e].kind = "json" THEN Summary(export[e].id) ELSE NoSummary]]

\* Mutant: a row is fetched to see whether there is one, and not sent.
OnwardLosesFirst(x) ==
    IF Len(x.sent) + 1 < Len(x.rows)
    THEN [x EXCEPT !.step = "rows", !.sent = Append(@, x.rows[Len(@) + 2])]
    ELSE [x EXCEPT !.step = IF x.kind = "json" /\ x.step # "tail" THEN "tail" ELSE "done"]
\* The rest of the rows loop and what follows it, up to the next yield.
Onward(x) ==
    IF Len(x.sent) < Len(x.rows)
    THEN [x EXCEPT !.step = "rows", !.sent = Append(@, x.rows[Len(@) + 1])]
    ELSE [x EXCEPT !.step = IF x.kind = "json" /\ x.step # "tail" THEN "tail" ELSE "done"]

\* The SELECT: its first step fixes what the cursor will return.
SelectSamples(e) ==
    /\ export[e].step = "select"
    /\ worker[e] = export[e].opener
    /\ Release(e)
    /\ export' = [export EXCEPT ![e] = Onward([export[e] EXCEPT !.rows = log[export[e].id].samples])]

\* Mutant: the summary is read when the samples have been sent.
SendNextSummaryLast(e) ==
    /\ export[e].step \in {"rows", "tail"}
    /\ worker[e] = export[e].opener
    /\ Release(e)
    /\ export' = [export EXCEPT ![e] = [Onward(@) EXCEPT !.head = Summary(export[e].id)]]
\* The next row of the cursor, the end of the JSON text, or close().
SendNext(e) ==
    /\ export[e].step \in {"rows", "tail"}
    /\ worker[e] = export[e].opener
    /\ Release(e)
    /\ export' = [export EXCEPT ![e] = Onward(@)]

\* On another thread the cursor and close() raise ProgrammingError: the
\* response ends where it is.
BreakOff(e) ==
    /\ export[e].step \in {"select", "rows", "tail"}
    /\ worker[e] # export[e].opener
    /\ Release(e)
    /\ export' = [export EXCEPT ![e] = [@ EXCEPT !.step = "broken"]]

----------------------------------------------------------------------------

Init ==
    /\ StoreInit
    /\ export = [e \in Exports |-> NoExport]
    /\ idle = <<>>
    /\ worker = [u \in Users |-> NoThread]

Next ==
    \/ Writer
    \/ \E u \in Users : Submit(u)
    \/ \E p \in Pages : ServePage(p)
    \/ \E e \in Exports :
        \/ \E limit \in Ids : ListSessions(e, limit)
        \/ \E kind \in {"csv", "json"}, id \in Ids : Request(e, kind, id)
        \/ OpenExport(e) \/ SelectSamples(e) \/ SendNext(e) \/ BreakOff(e)

Spec == Init /\ [][Next]_vars

----------------------------------------------------------------------------
(* Properties.                                                             *)

\* What a download delivered is the beginning of the session's samples, in
\* their order, none twice and none left out, however the writer went on.
ExportIsPrefix ==
    \A e \in Exports : export[e].sent # <<>> => IsPrefix(export[e].sent, log[export[e].id].samples)

\* Reads never go back: a client that saw a session in the list gets a file,
\* and a complete file holds at least the samples the list counted, and
\* exactly those when the list showed the session as ended.
ReadsNeverGoBack ==
    \A e \in Exports : export[e].told # NoSummary =>
        /\ export[e].step # "missing"
        /\ export[e].step = "done" =>
            /\ Len(export[e].sent) >= export[e].told.count
            /\ export[e].told.ended => Len(export[e].sent) = export[e].told.count

\* The summary at the head of a JSON export is read before the samples: it
\* never counts a sample the file does not hold, and an ended session has
\* exactly the samples its summary counts.
SummaryNotAhead ==
    \A e \in Exports : export[e].kind = "json" /\ export[e].step = "done" =>
        /\ export[e].head.count <= Len(export[e].sent)
        /\ export[e].head.ended => export[e].head.count = Len(export[e].sent)

\* docs/phase9-runtime-foundation.md: "Both export formats stream from the
\* database and therefore remain safe for long drives": no download of a
\* session is cut short by the server.
NeverCutShort == \A e \in Exports : export[e].step # "broken"
=============================================================================
