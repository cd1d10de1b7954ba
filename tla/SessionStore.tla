---------------------------- MODULE SessionStore ----------------------------
(***************************************************************************)
(* What the session history promises to its readers (the session list and  *)
(* the CSV and JSON exports), whatever the recorder does to fill it:       *)
(*   - sessions are appended, one at a time, and the history of a finished *)
(*     or abandoned session never changes again;                           *)
(*   - only the live session receives samples, each of a packet newer than *)
(*     the one before it;                                                  *)
(*   - a session is ended at most once, not before its last sample and     *)
(*     with a duration that spans its start and its end;                   *)
(*   - a session whose writer failed, or whose process died, is abandoned: *)
(*     it stays open in the history and is never touched again.            *)
(* The actions constrain the new value of the log, so the module says      *)
(* nothing about times, packets or threads: SessionRecorder implements it. *)
(***************************************************************************)
EXTENDS Integers, Sequences

VARIABLES
    log,    \* the sessions table with the samples of each session, in order
    live    \* the position in log of the session being written, or 0

storeVars == <<log, live>>

NotEnded == 0   \* ended_at IS NULL

Unfinished(row) == row.endedAt = NotEnded

\* A session row as INSERTed: nothing measured, not ended.
Fresh(row) ==
    /\ row.samples = <<>>
    /\ row.duration = 0
    /\ row.reason = "none"
    /\ Unfinished(row)

\* b is the sample sequence a with one sample of a newer packet added.
ExtendsByOne(a, b) ==
    /\ Len(b) = Len(a) + 1
    /\ \A i \in 1..Len(a) : b[i] = a[i]
    /\ Len(a) > 0 => /\ b[Len(b)].rev > a[Len(a)].rev
                     /\ b[Len(b)].at >= a[Len(a)].at

\* Every row but the one at position i is unchanged.
OnlyRowChanges(i) ==
    /\ Len(log') = Len(log)
    /\ \A j \in 1..Len(log) \ {i} : log'[j] = log[j]

StoreInit == log = <<>> /\ live = 0

OpenSession ==
    /\ live = 0
    /\ live' = Len(log) + 1
    /\ Len(log') = Len(log) + 1
    /\ \A j \in 1..Len(log) : log'[j] = log[j]
    /\ Fresh(log'[live'])

AppendSample ==
    /\ live # 0
    /\ live' = live
    /\ OnlyRowChanges(live)
    /\ Unfinished(log'[live])
    /\ ExtendsByOne(log[live].samples, log'[live].samples)
    /\ log'[live].startedAt = log[live].startedAt
    /\ log'[live].car = log[live].car

CloseSession ==
    /\ live # 0
    /\ live' = 0
    /\ OnlyRowChanges(live)
    /\ LET old == log[live]
           new == log'[live]
       IN  /\ ~Unfinished(new)
           /\ new.samples = old.samples
           /\ new.startedAt = old.startedAt
           /\ new.car = old.car
           /\ new.duration = new.endedAt - new.startedAt
           /\ \A i \in 1..Len(new.samples) : new.samples[i].at <= new.endedAt

Abandon ==
    /\ live # 0
    /\ live' = 0
    /\ log' = log

StoreNext == OpenSession \/ AppendSample \/ CloseSession \/ Abandon

StoreSpec == StoreInit /\ [][StoreNext]_storeVars
=============================================================================
