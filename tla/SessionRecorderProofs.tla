----------------------- MODULE SessionRecorderProofs -----------------------
(***************************************************************************)
(* Theorems about SessionRecorder for every number of cars, every timeout, *)
(* recording rate and bound, with their proofs.                            *)
(*                                                                         *)
(* The first half is about the threads: types, the hand-off between them   *)
(* and open sessions.  The second half follows an update on its way into   *)
(* the history: FlowInv orders the updates between the event loop and the  *)
(* writer thread; from it PairwiseInv and SpanInv order what is committed, *)
(* CountInv what is reported, and all of them make it a SessionStore.      *)
(***************************************************************************)
EXTENDS SessionRecorder, SequenceTheorems, TLAPS

\* Every step of the module, one name per action: what each lemma below splits on.
LEMMA NextCases ==
    ASSUME Next
    PROVE  \/ Tick \/ ReceivePacket \/ Start \/ Observe \/ Stop
           \/ Evict \/ Reput \/ CountDropped \/ StopPut \/ StopEvict \/ Joined
           \/ Open \/ OpenFails \/ TakePill \/ TakePacket \/ TakeStale \/ PollEmpty
           \/ EndOnCarChange \/ StartSession \/ SetActive \/ AddSample \/ CountSample
           \/ EndOnTimeout \/ ClearActive \/ EndOnShutdown \/ WriterFails \/ CloseWriter
           \/ Restart
  BY DEF Next, ProducerStep, WriterStep

----------------------------------------------------------------------------
(* Types.                                                                  *)

\* An event is in hand, and a session is open, exactly where the code uses one.
WorkInv ==
    /\ pc \in {"endCar", "start", "activate", "sample"} => ev \in Event
    /\ held \in Event <=> producer \in {"evict", "reput"}
    /\ loc.session \in 0..Len(db)
    /\ pc \in {"endCar", "activate", "sample", "addCount", "endTimeout", "endShutdown"} =>
           loc.session # NoSession
    /\ pc \in {"off", "open", "start", "clear"} => loc.session = NoSession
    /\ producer = "new" => pc = "off"

TypeInv == TypeOK /\ WorkInv

\* The fields of an event, and of the local variables of the writer thread.
LEMMA EventFields ==
    ASSUME NEW e \in Event
    PROVE  e.at \in Nat /\ e.at > 0 /\ e.rev \in Nat /\ e.rev \in Int /\ e.car \in Cars
  BY DEF Event, Instant

\* The event that observe() makes.
LEMMA ObservedEvent ==
    ASSUME TypeOK
    PROVE  [rev |-> feed.rev, car |-> feed.car, connected |-> Connected, at |-> now] \in Event
  <1>1. feed.rev \in Nat /\ feed.car \in Cars /\ now \in Instant
    BY DEF TypeOK
  <1>2. Connected \in BOOLEAN
    BY DEF Connected
  <1> QED
    BY <1>1, <1>2, Zenon DEF Event

\* Arithmetic of durations.
LEMMA DurationType ==
    ASSUME NEW d \in Nat, NEW n \in Int
    PROVE  Larger(d, AtLeast0(n)) \in Nat
  BY DEF Larger, AtLeast0

\* The row that end_session writes is a row.
LEMMA EndedRowType ==
    ASSUME NEW row \in Row, NEW at \in Nat, NEW why \in Reasons, loc \in Locals
    PROVE  EndedRow(row, at, why) \in Row
  <1>1. row.duration \in Nat /\ at - loc.startedAt \in Int
    BY DEF Row, Locals
  <1>2. Larger(row.duration, AtLeast0(at - loc.startedAt)) \in Nat
    BY <1>1, DurationType
  <1> QED
    BY <1>2 DEF EndedRow, Row

\* The row that add_sample writes is a row.
LEMMA SampledRowType ==
    ASSUME NEW row \in Row, NEW e \in Event, loc \in Locals
    PROVE  SampledRow(row, e) \in Row
  <1>1. row.duration \in Nat /\ e.at - loc.startedAt \in Int
    BY DEF Row, Locals, Event, Instant
  <1>2. Larger(row.duration, AtLeast0(e.at - loc.startedAt)) \in Nat
    BY <1>1, DurationType
  <1>3. [rev |-> e.rev, car |-> e.car, at |-> e.at] \in Sample
    BY DEF Event, Instant, Sample
  <1>4. Append(row.samples, [rev |-> e.rev, car |-> e.car, at |-> e.at]) \in Seq(Sample)
    BY <1>3 DEF Row
  <1> QED
    BY <1>2, <1>4 DEF SampledRow, Row

\* The row that start_session writes is a row.
LEMMA NewRowType ==
    ASSUME NEW e \in Event
    PROVE  NewRow(e) \in Row
  BY DEF NewRow, Row, Event, Instant, Reasons, NotEnded

\* Committing a changed row keeps db a sequence of rows of the same length.
LEMMA CommitType ==
    ASSUME NEW i \in 1..Len(db), NEW row \in Row, db \in Seq(Row)
    PROVE  /\ [db EXCEPT ![i] = row] \in Seq(Row)
           /\ Len([db EXCEPT ![i] = row]) = Len(db)
  BY ExceptSeq

\* A session that is open is a row of the history.
LEMMA OpenRow ==
    ASSUME TypeInv, loc.session # NoSession
    PROVE  loc.session \in 1..Len(db) /\ db[loc.session] \in Row /\ Len(db) \in Nat
  <1>1. Len(db) \in Nat
    BY LenProperties DEF TypeInv, TypeOK
  <1>2. loc.session \in 1..Len(db)
    BY <1>1 DEF TypeInv, WorkInv, NoSession
  <1> QED
    BY <1>1, <1>2, ElementOfSeq DEF TypeInv, TypeOK

\* The local variables after _run() starts or restarts are well typed.
LEMMA InitialLocalsType ==
    InitialLocals \in Locals /\ InitialLocals.session = NoSession
  BY RecorderAssumption DEF InitialLocals, Locals, NoSession

\* The type invariant holds initially.
LEMMA TypeInit == Init => TypeInv
  <1> SUFFICES ASSUME Init PROVE TypeInv
    OBVIOUS
  <1>1. feed \in [rev : Nat, car : Cars, at : Nat]
    BY RecorderAssumption DEF Init, InitialFeed
  <1>2. TypeOK
    BY <1>1, InitialLocalsType DEF Init, TypeOK, Instant, Producers, WriterStates,
       NoSession, NoError
  <1>3. WorkInv
    BY InitialLocalsType, RecorderAssumption DEF Init, WorkInv, NoSession
  <1> QED
    BY <1>2, <1>3 DEF TypeInv

\* Every step preserves the type invariant.
LEMMA TypeStep == TypeInv /\ [Next]_vars => TypeInv'
  <1> SUFFICES ASSUME TypeInv, [Next]_vars PROVE TypeInv'
    OBVIOUS
  <1> USE RecorderAssumption DEF TypeInv, TypeOK, WorkInv, Producers, WriterStates,
          NoSession, NoError, clock, mailbox, thread, status, history
  <1>1. CASE Tick
    BY <1>1 DEF Tick, Instant
  <1>2. CASE ReceivePacket
    BY <1>2 DEF ReceivePacket, Instant, Event
  <1>3. CASE Start
    BY <1>3 DEF Start
  <1>4. CASE Observe
    BY <1>4, ObservedEvent DEF Observe
  <1>5. CASE Stop
    BY <1>5 DEF Stop
  <1>6. CASE Evict
    BY <1>6 DEF Evict
  <1>7. CASE Reput
    BY <1>7 DEF Reput
  <1>8. CASE CountDropped
    BY <1>8 DEF CountDropped
  <1>9. CASE StopPut
    BY <1>9 DEF StopPut
  <1>10. CASE StopEvict
    BY <1>10 DEF StopEvict
  <1>11. CASE Joined
    BY <1>11 DEF Joined
  <1>12. CASE Open
    BY <1>12 DEF Open
  <1>13. CASE OpenFails
    BY <1>13 DEF OpenFails
  <1>14. CASE TakePill
    BY <1>14 DEF TakePill
  <1>15. CASE TakePacket
    <2>1. queue \in Event
      BY <1>15 DEF TakePacket
    <2>2. loc' \in Locals /\ loc'.session = loc.session
      <3>1. queue.at \in Nat /\ queue.rev \in Int
        BY <2>1, EventFields
      <3>2. loc' = [loc EXCEPT !.lastSeen = queue.at, !.lastObserved = queue.rev]
        BY <1>15 DEF TakePacket
      <3>3. loc \in Locals
        OBVIOUS
      <3> QED
        BY ONLY <3>1, <3>2, <3>3, ZenonT(30) DEF Locals
    <2>3. pc' \in {"endCar", "start", "sample", "get"}
      BY <1>15 DEF TakePacket
    <2>4. pc' \in {"endCar", "sample"} => loc.session # NoSession
      BY <1>15 DEF TakePacket, CarChanged
    <2>5. pc' = "start" => loc.session = NoSession
      BY <1>15 DEF TakePacket
    <2>6. pc' \in {"endCar", "start", "sample"} => ev' \in Event
      BY <1>15, <2>1 DEF TakePacket
    <2>7. ev' \in Event \cup {NoEvent}
      BY <1>15, <2>1 DEF TakePacket
    <2> QED
      <3>1. UNCHANGED <<now, feed, producer, held, dropped, status, db, base, observed,
                        failures, restarts>> /\ queue' = Empty /\ taken' = taken + 1
        BY <1>15 DEF TakePacket
      <3>3. TypeOK'
        BY <2>2, <2>3, <2>7, <3>1
      <3>2. WorkInv'
        BY <1>15, <2>2, <2>3, <2>4, <2>5, <2>6 DEF TakePacket
      <3> QED
        BY <3>2, <3>3
  <1>16. CASE TakeStale
    BY <1>16 DEF TakeStale, TimedOut
  <1>17. CASE PollEmpty
    BY <1>17 DEF PollEmpty, TimedOut
  <1>18. CASE EndOnCarChange
    <2>1. loc.session \in 1..Len(db) /\ ev.at \in Nat /\ "car_changed" \in Reasons
      <3>1. loc.session # NoSession
        BY <1>18 DEF EndOnCarChange
      <3>2. ev.at \in Nat
        BY <1>18, EventFields DEF EndOnCarChange
      <3> QED
        BY <3>1, <3>2, OpenRow DEF Reasons
    <2>2. db' \in Seq(Row) /\ Len(db') = Len(db)
      <3>1. EndedRow(db[loc.session], ev.at, "car_changed") \in Row
        BY <2>1, EndedRowType, ElementOfSeq
      <3> QED
        BY <1>18, <2>1, <3>1, CommitType DEF EndOnCarChange
    <2>3. loc' \in Locals /\ loc'.session = NoSession
      BY <1>18 DEF EndOnCarChange, Locals
    <2> QED
      BY <1>18, <2>1, <2>2, <2>3 DEF EndOnCarChange
  <1>19. CASE StartSession
    <2>1. ev \in Event /\ NewRow(ev) \in Row
      BY <1>19, NewRowType DEF StartSession
    <2>2. db' \in Seq(Row) /\ Len(db') = Len(db) + 1
      BY <1>19, <2>1, AppendProperties DEF StartSession
    <2>3. loc' \in Locals /\ loc'.session = Len(db) + 1
      <3>1. ev.at \in Nat /\ ev.car \in Cars /\ Len(db) + 1 \in Nat /\ -1 \in Int
        BY <2>1, EventFields, LenProperties
      <3>2. loc' = [loc EXCEPT !.session = Len(db) + 1, !.startedAt = ev.at,
                               !.nextSample = ev.at, !.lastSample = -1, !.car = ev.car]
        BY <1>19 DEF StartSession
      <3>3. loc \in Locals
        OBVIOUS
      <3> QED
        BY ONLY <3>1, <3>2, <3>3, ZenonT(30) DEF Locals
    <2>4. Len(db) \in Nat
      BY LenProperties
    <2>5. loc'.session \in 0..Len(db') /\ loc'.session # NoSession
      BY <2>2, <2>3, <2>4
    <2> QED
      BY <1>19, <2>1, <2>2, <2>3, <2>5 DEF StartSession
  <1>20. CASE SetActive
    BY <1>20 DEF SetActive
  <1>21. CASE AddSample
    <2>1. loc.session \in 1..Len(db) /\ ev \in Event
      BY <1>21, OpenRow DEF AddSample
    <2>2. db' \in Seq(Row) /\ Len(db') = Len(db)
      <3>1. SampledRow(db[loc.session], ev) \in Row
        BY <2>1, SampledRowType, ElementOfSeq
      <3> QED
        BY <1>21, <2>1, <3>1, CommitType DEF AddSample
    <2>3. loc' \in Locals /\ loc'.session = loc.session
      <3>1. ev.at + SampleGap \in Nat /\ ev.rev \in Int
        BY <2>1, EventFields
      <3>2. loc' = [loc EXCEPT !.lastSample = ev.rev, !.nextSample = ev.at + SampleGap]
        BY <1>21 DEF AddSample
      <3>3. loc \in Locals
        OBVIOUS
      <3> QED
        BY ONLY <3>1, <3>2, <3>3, ZenonT(30) DEF Locals
    <2> QED
      BY <1>21, <2>1, <2>2, <2>3 DEF AddSample
  <1>22. CASE CountSample
    BY <1>22 DEF CountSample
  <1>23. CASE EndOnTimeout
    <2>1. loc.session \in 1..Len(db) /\ loc.lastSeen \in Nat /\ "telemetry_timeout" \in Reasons
      <3>1. loc.session # NoSession
        BY <1>23 DEF EndOnTimeout
      <3>2. loc.lastSeen \in Nat
        BY DEF Locals
      <3> QED
        BY <3>1, <3>2, OpenRow DEF Reasons
    <2>2. db' \in Seq(Row) /\ Len(db') = Len(db)
      <3>1. EndedRow(db[loc.session], loc.lastSeen, "telemetry_timeout") \in Row
        BY <2>1, EndedRowType, ElementOfSeq
      <3> QED
        BY <1>23, <2>1, <3>1, CommitType DEF EndOnTimeout
    <2>3. loc' \in Locals /\ loc'.session = NoSession
      BY <1>23 DEF EndOnTimeout, Locals
    <2> QED
      BY <1>23, <2>1, <2>2, <2>3 DEF EndOnTimeout
  <1>24. CASE ClearActive
    BY <1>24 DEF ClearActive
  <1>25. CASE EndOnShutdown
    <2>1. loc.session \in 1..Len(db) /\ loc.lastSeen \in Nat /\ "service_shutdown" \in Reasons
      <3>1. loc.session # NoSession
        BY <1>25 DEF EndOnShutdown
      <3>2. loc.lastSeen \in Nat
        BY DEF Locals
      <3> QED
        BY <3>1, <3>2, OpenRow DEF Reasons
    <2>2. db' \in Seq(Row) /\ Len(db') = Len(db)
      <3>1. EndedRow(db[loc.session], loc.lastSeen, "service_shutdown") \in Row
        BY <2>1, EndedRowType, ElementOfSeq
      <3> QED
        BY <1>25, <2>1, <3>1, CommitType DEF EndOnShutdown
    <2> QED
      BY <1>25, <2>1, <2>2 DEF EndOnShutdown
  <1>26. CASE WriterFails
    BY <1>26 DEF WriterFails
  <1>27. CASE CloseWriter
    BY <1>27 DEF CloseWriter
  <1>28. CASE Restart
    <2>1. feed' \in [rev : Nat, car : Cars, at : Nat]
      BY <1>28 DEF Restart, InitialFeed
    <2>2. loc' \in Locals /\ loc'.session = NoSession
      BY <1>28, InitialLocalsType DEF Restart
    <2>3. Len(db) \in Nat /\ db' = db
      BY <1>28, LenProperties DEF Restart
    <2> QED
      BY <1>28, <2>1, <2>2, <2>3 DEF Restart
  <1>29. CASE UNCHANGED vars
    BY <1>29 DEF vars
  <1> QED
    BY <1>1, <1>2, <1>3, <1>4, <1>5, <1>6, <1>7, <1>8, <1>9, <1>10, <1>11, <1>12, <1>13, <1>14, <1>15, <1>16, <1>17, <1>18, <1>19, <1>20, <1>21, <1>22, <1>23, <1>24, <1>25, <1>26, <1>27, <1>28, <1>29, NextCases

\* Every variable keeps its type in every execution, whatever the constants.
THEOREM TypeCorrect == Spec => []TypeOK
  <1>1. Spec => []TypeInv
    BY TypeInit, TypeStep, PTL DEF Spec
  <1>2. TypeInv => TypeOK
    BY DEF TypeInv
  <1> QED
    BY <1>1, <1>2, PTL

----------------------------------------------------------------------------
(* The queue of one place.                                                 *)

\* What of the types the hand-over depends on.
HandTypes ==
    /\ queue \in Event \cup {Pill, Empty}
    /\ held \in Event \cup {NoEvent}
    /\ held \in Event <=> producer \in {"evict", "reput"}
    /\ observed \in Nat /\ taken \in Nat /\ dropped \in Nat
    /\ [rev |-> feed.rev, car |-> feed.car, connected |-> Connected, at |-> now] \in Event

\* The hand-off argument needs only a part of the types; naming it keeps its proof
\* from unfolding the rest.
LEMMA HandTypesHold == TypeInv => HandTypes
  <1> SUFFICES ASSUME TypeInv PROVE HandTypes
    OBVIOUS
  <1>1. [rev |-> feed.rev, car |-> feed.car, connected |-> Connected, at |-> now] \in Event
    BY ObservedEvent DEF TypeInv
  <1> QED
    BY <1>1 DEF TypeInv, TypeOK, WorkInv, HandTypes

\* NewestKept is inductive once the start is added to it.
HandoffInv ==
    /\ NewestKept
    /\ producer = "new" => queue = Empty

\* The hand-off invariant holds initially.
LEMMA HandoffInit == Init => HandoffInv
  BY RecorderAssumption DEF Init, HandoffInv, NewestKept

\* Every step preserves the hand-off invariant: only the writer thread can empty
\* the queue between the two puts, and nothing can fill it.
LEMMA HandoffStep == HandTypes /\ HandoffInv /\ [Next]_vars => HandoffInv'
  <1> SUFFICES ASSUME HandTypes, HandoffInv, [Next]_vars PROVE HandoffInv'
    OBVIOUS
  <1> USE RecorderAssumption DEF HandTypes, HandoffInv, NewestKept, mailbox, thread
  <1>1. CASE Tick
    BY <1>1 DEF Tick
  <1>2. CASE ReceivePacket
    BY <1>2 DEF ReceivePacket
  <1>3. CASE Start
    BY <1>3 DEF Start
  <1>4. CASE Observe
    BY <1>4 DEF Observe
  <1>5. CASE Stop
    BY <1>5 DEF Stop
  <1>6. CASE Evict
    BY <1>6 DEF Evict
  <1>7. CASE Reput
    BY <1>7 DEF Reput
  <1>8. CASE CountDropped
    BY <1>8 DEF CountDropped
  <1>9. CASE StopPut
    BY <1>9 DEF StopPut
  <1>10. CASE StopEvict
    BY <1>10 DEF StopEvict
  <1>11. CASE Joined
    BY <1>11 DEF Joined
  <1>12. CASE Open
    BY <1>12 DEF Open
  <1>13. CASE OpenFails
    BY <1>13 DEF OpenFails
  <1>14. CASE TakePill
    BY <1>14 DEF TakePill
  <1>15. CASE TakePacket
    BY <1>15 DEF TakePacket
  <1>16. CASE TakeStale
    BY <1>16 DEF TakeStale
  <1>17. CASE PollEmpty
    BY <1>17 DEF PollEmpty
  <1>18. CASE EndOnCarChange
    BY <1>18 DEF EndOnCarChange
  <1>19. CASE StartSession
    BY <1>19 DEF StartSession
  <1>20. CASE SetActive
    BY <1>20 DEF SetActive
  <1>21. CASE AddSample
    BY <1>21 DEF AddSample
  <1>22. CASE CountSample
    BY <1>22 DEF CountSample
  <1>23. CASE EndOnTimeout
    BY <1>23 DEF EndOnTimeout
  <1>24. CASE ClearActive
    BY <1>24 DEF ClearActive
  <1>25. CASE EndOnShutdown
    BY <1>25 DEF EndOnShutdown
  <1>26. CASE WriterFails
    BY <1>26 DEF WriterFails
  <1>27. CASE CloseWriter
    BY <1>27 DEF CloseWriter
  <1>28. CASE Restart
    BY <1>28 DEF Restart
  <1>29. CASE UNCHANGED vars
    BY <1>29 DEF vars
  <1> QED
    BY <1>1, <1>2, <1>3, <1>4, <1>5, <1>6, <1>7, <1>8, <1>9, <1>10, <1>11, <1>12, <1>13, <1>14, <1>15, <1>16, <1>17, <1>18, <1>19, <1>20, <1>21, <1>22, <1>23, <1>24, <1>25, <1>26, <1>27, <1>28, <1>29, NextCases

\* Whatever the interleaving of observe() or stop() with the writer thread, the
\* newest update and the pill are never lost.
THEOREM NewestAlwaysKept == Spec => []NewestKept
  <1>1. Init => TypeInv /\ HandoffInv
    BY TypeInit, HandoffInit
  <1>2. TypeInv /\ HandoffInv /\ [Next]_vars => (TypeInv /\ HandoffInv)'
    BY TypeStep, HandTypesHold, HandoffStep
  <1>3. HandoffInv => NewestKept
    BY DEF HandoffInv
  <1> QED
    BY <1>1, <1>2, <1>3, PTL DEF Spec

\* DropsAccounted is inductive once it says at which points of observe() and of
\* stop() one loss may still be uncounted.
DropInv ==
    /\ Lost >= 0
    /\ producer \in {"new", "publish", "evict", "stopEvict"} => Lost <= dropped
    /\ producer = "stopPut" /\ queue # Empty => Lost <= dropped
    /\ Lost <= dropped + 1

\* The accounting of lost updates holds initially.
LEMMA DropInit == Init => DropInv
  BY RecorderAssumption DEF Init, DropInv, Lost, Queued, InHand

\* Every step preserves the accounting: an update is lost only by Evict, which
\* CountDropped follows, or by StopEvict, which runs at most once with an event.
LEMMA DropStep == HandTypes /\ HandoffInv /\ DropInv /\ [Next]_vars => DropInv'
  <1> SUFFICES ASSUME HandTypes, HandoffInv, DropInv, [Next]_vars PROVE DropInv'
    OBVIOUS
  <1> USE RecorderAssumption DEF HandTypes, HandoffInv, NewestKept, DropInv, Lost, Queued,
          InHand, mailbox, history
  <1>1. CASE Tick
    BY <1>1 DEF Tick
  <1>2. CASE ReceivePacket
    BY <1>2 DEF ReceivePacket
  <1>3. CASE Start
    BY <1>3 DEF Start
  <1>4. CASE Observe
    BY <1>4 DEF Observe
  <1>5. CASE Stop
    BY <1>5 DEF Stop
  <1>6. CASE Evict
    BY <1>6 DEF Evict
  <1>7. CASE Reput
    BY <1>7 DEF Reput
  <1>8. CASE CountDropped
    BY <1>8 DEF CountDropped
  <1>9. CASE StopPut
    BY <1>9 DEF StopPut
  <1>10. CASE StopEvict
    BY <1>10 DEF StopEvict
  <1>11. CASE Joined
    BY <1>11 DEF Joined
  <1>12. CASE Open
    BY <1>12 DEF Open
  <1>13. CASE OpenFails
    BY <1>13 DEF OpenFails
  <1>14. CASE TakePill
    BY <1>14 DEF TakePill
  <1>15. CASE TakePacket
    BY <1>15 DEF TakePacket
  <1>16. CASE TakeStale
    BY <1>16 DEF TakeStale
  <1>17. CASE PollEmpty
    BY <1>17 DEF PollEmpty
  <1>18. CASE EndOnCarChange
    BY <1>18 DEF EndOnCarChange
  <1>19. CASE StartSession
    BY <1>19 DEF StartSession
  <1>20. CASE SetActive
    BY <1>20 DEF SetActive
  <1>21. CASE AddSample
    BY <1>21 DEF AddSample
  <1>22. CASE CountSample
    BY <1>22 DEF CountSample
  <1>23. CASE EndOnTimeout
    BY <1>23 DEF EndOnTimeout
  <1>24. CASE ClearActive
    BY <1>24 DEF ClearActive
  <1>25. CASE EndOnShutdown
    BY <1>25 DEF EndOnShutdown
  <1>26. CASE WriterFails
    BY <1>26 DEF WriterFails
  <1>27. CASE CloseWriter
    BY <1>27 DEF CloseWriter
  <1>28. CASE Restart
    BY <1>28 DEF Restart
  <1>29. CASE UNCHANGED vars
    BY <1>29 DEF vars
  <1> QED
    BY <1>1, <1>2, <1>3, <1>4, <1>5, <1>6, <1>7, <1>8, <1>9, <1>10, <1>11, <1>12, <1>13, <1>14, <1>15, <1>16, <1>17, <1>18, <1>19, <1>20, <1>21, <1>22, <1>23, <1>24, <1>25, <1>26, <1>27, <1>28, <1>29, NextCases

\* dropped_events never hides more than the loss in progress or the one of stop().
THEOREM DropsAlwaysAccounted == Spec => []DropsAccounted
  <1>1. Init => TypeInv /\ HandoffInv /\ DropInv
    BY TypeInit, HandoffInit, DropInit
  <1>2. TypeInv /\ HandoffInv /\ DropInv /\ [Next]_vars => (TypeInv /\ HandoffInv /\ DropInv)'
    BY TypeStep, HandTypesHold, HandoffStep, DropStep
  <1>3. DropInv => DropsAccounted
    BY DEF DropInv, DropsAccounted
  <1> QED
    BY <1>1, <1>2, <1>3, PTL DEF Spec

----------------------------------------------------------------------------
(* The session that is open.                                               *)

\* OnlyLastOpen is inductive once it says where the session of the writer is and
\* that its last packet has an instant: ended_at is then never left NULL.
OpenInv ==
    /\ base \in 0..Len(db)
    /\ loc.session # NoSession =>
           loc.session = Len(db) /\ loc.session > base /\ loc.lastSeen > 0
    /\ pc = "start" => loc.lastSeen > 0
    /\ OnlyLastOpen

\* With no session in hand, no session of the process is open.
LEMMA NoneOpen ==
    ASSUME TypeInv, OpenInv, loc.session = NoSession, NEW i \in base + 1 .. Len(db)
    PROVE  db[i].endedAt # NotEnded
  <1>1. base \in Nat /\ Len(db) \in Nat
    BY LenProperties DEF TypeInv, TypeOK
  <1>2. i # 0
    BY <1>1
  <1>3. i \in Rows
    BY DEF Rows
  <1> QED
    BY <1>2, <1>3 DEF OpenInv, OnlyLastOpen, NoSession

\* end_session leaves no session of the process open.
LEMMA EndedCommit ==
    ASSUME TypeInv, OpenInv, loc.session # NoSession,
           NEW at \in Nat, at > 0, NEW why \in Reasons,
           db' = [db EXCEPT ![loc.session] = EndedRow(@, at, why)]
    PROVE  /\ Len(db') = Len(db)
           /\ \A i \in base + 1 .. Len(db) : db'[i].endedAt # NotEnded
  <1>1. loc.session \in 1..Len(db) /\ Len(db) \in Nat /\ base \in Nat
    BY OpenRow DEF TypeInv, TypeOK
  <1>2. EndedRow(db[loc.session], at, why) \in Row
    BY OpenRow, EndedRowType DEF TypeInv, TypeOK
  <1>3. EndedRow(db[loc.session], at, why).endedAt = at
    BY OpenRow DEF EndedRow, Row
  <1>4. /\ Len(db') = Len(db)
        /\ \A j \in 1..Len(db) : db'[j] = IF j = loc.session
                                          THEN EndedRow(db[loc.session], at, why) ELSE db[j]
    BY <1>1, <1>2, ExceptSeq DEF TypeInv, TypeOK
  <1>5. ASSUME NEW i \in base + 1 .. Len(db) PROVE db'[i].endedAt # NotEnded
    <2>1. i \in 1..Len(db)
      BY <1>1
    <2>2. CASE i = loc.session
      BY <1>3, <1>4, <2>1, <2>2 DEF NotEnded
    <2>3. CASE i # loc.session
      BY <1>4, <2>1, <2>3 DEF OpenInv, OnlyLastOpen, Rows
    <2> QED
      BY <2>2, <2>3
  <1> QED
    BY <1>4, <1>5

\* The invariant about open sessions holds initially.
LEMMA OpenInit == Init => OpenInv
  BY InitialLocalsType DEF Init, OpenInv, OnlyLastOpen, Rows

\* Every step preserves the invariant about open sessions: a session in hand is the
\* last row, and it is let go only together with its end or with a failure.
LEMMA OpenStep == TypeInv /\ OpenInv /\ [Next]_vars => OpenInv'
  <1> SUFFICES ASSUME TypeInv, OpenInv, [Next]_vars PROVE OpenInv'
    OBVIOUS
  <1>a. /\ Len(db) \in Nat /\ base \in Nat
        /\ loc \in Locals /\ loc.session \in 0..Len(db) /\ loc.lastSeen \in Nat
        /\ pc \in {"endCar", "start", "activate", "sample"} => ev \in Event
        /\ pc \in {"endCar", "activate", "sample", "addCount", "endTimeout", "endShutdown"} =>
               loc.session # NoSession
        /\ pc \in {"off", "open", "start", "clear"} => loc.session = NoSession
        /\ queue \in Event \cup {Pill, Empty}
    BY LenProperties DEF TypeInv, TypeOK, WorkInv, Locals
  <1> USE DEF OpenInv, OnlyLastOpen, Rows, mailbox, thread, status, history, clock
  <1>1. CASE Tick
    BY <1>a, <1>1 DEF Tick
  <1>2. CASE ReceivePacket
    BY <1>a, <1>2 DEF ReceivePacket
  <1>3. CASE Start
    BY <1>a, <1>3 DEF Start
  <1>4. CASE Observe
    BY <1>a, <1>4 DEF Observe
  <1>5. CASE Stop
    BY <1>a, <1>5 DEF Stop
  <1>6. CASE Evict
    BY <1>a, <1>6 DEF Evict
  <1>7. CASE Reput
    BY <1>a, <1>7 DEF Reput
  <1>8. CASE CountDropped
    BY <1>a, <1>8 DEF CountDropped
  <1>9. CASE StopPut
    BY <1>a, <1>9 DEF StopPut
  <1>10. CASE StopEvict
    BY <1>a, <1>10 DEF StopEvict
  <1>11. CASE Joined
    BY <1>a, <1>11 DEF Joined
  <1>12. CASE Open
    BY <1>a, <1>12 DEF Open
  <1>13. CASE OpenFails
    <2>1. loc.session = NoSession
      BY <1>a, <1>13 DEF OpenFails
    <2> QED
      BY <1>a, <1>13, <2>1, NoneOpen DEF OpenFails
  <1>14. CASE TakePill
    BY <1>a, <1>14, NoneOpen DEF TakePill
  <1>15. CASE TakePacket
    <2>1. queue \in Event /\ queue.at > 0
      BY <1>a, <1>15, EventFields DEF TakePacket
    <2>2. loc'.session = loc.session /\ loc'.lastSeen = queue.at
      BY <1>a, <1>15 DEF TakePacket, Locals
    <2>3. pc' \notin {"close", "dead"}
      BY <1>15 DEF TakePacket
    <2> QED
      BY <1>a, <1>15, <2>1, <2>2, <2>3 DEF TakePacket
  <1>16. CASE TakeStale
    BY <1>a, <1>16 DEF TakeStale
  <1>17. CASE PollEmpty
    BY <1>a, <1>17 DEF PollEmpty
  <1>18. CASE EndOnCarChange
    <2>1. loc.session # NoSession /\ ev.at \in Nat /\ ev.at > 0 /\ "car_changed" \in Reasons
      BY <1>a, <1>18, EventFields DEF EndOnCarChange, Reasons
    <2>2. db' = [db EXCEPT ![loc.session] = EndedRow(@, ev.at, "car_changed")]
      BY <1>18 DEF EndOnCarChange
    <2>3. /\ Len(db') = Len(db)
          /\ \A i \in base + 1 .. Len(db) : db'[i].endedAt # NotEnded
      BY <2>1, <2>2, EndedCommit
    <2>4. loc'.session = NoSession /\ loc'.lastSeen = loc.lastSeen
      BY <1>a, <1>18 DEF EndOnCarChange, Locals
    <2> QED
      BY <1>a, <1>18, <2>1, <2>3, <2>4 DEF EndOnCarChange
  <1>19. CASE StartSession
    <2>1. ev \in Event /\ NewRow(ev) \in Row /\ loc.session = NoSession
      BY <1>a, <1>19, NewRowType DEF StartSession
    <2>2. /\ Len(db') = Len(db) + 1
          /\ \A i \in 1..Len(db) : db'[i] = db[i]
      BY <1>19, <2>1, AppendProperties DEF StartSession, TypeInv, TypeOK
    <2>3. loc'.session = Len(db) + 1 /\ loc'.lastSeen = loc.lastSeen
      BY <1>a, <1>19 DEF StartSession, Locals
    <2>4. \A i \in base + 1 .. Len(db) : db[i].endedAt # NotEnded
      BY <2>1, NoneOpen
    <2> QED
      BY <1>a, <1>19, <2>1, <2>2, <2>3, <2>4 DEF StartSession
  <1>20. CASE SetActive
    BY <1>a, <1>20 DEF SetActive
  <1>21. CASE AddSample
    <2>1. loc.session \in 1..Len(db) /\ ev \in Event /\ db[loc.session] \in Row
      BY <1>a, <1>21, OpenRow DEF AddSample
    <2>2. /\ SampledRow(db[loc.session], ev) \in Row
          /\ SampledRow(db[loc.session], ev).endedAt = db[loc.session].endedAt
      BY <1>a, <2>1, SampledRowType DEF SampledRow, Row
    <2>3. /\ Len(db') = Len(db)
          /\ \A i \in 1..Len(db) : db'[i].endedAt = db[i].endedAt
      BY <1>21, <2>1, <2>2, ExceptSeq DEF AddSample, TypeInv, TypeOK
    <2>4. loc'.session = loc.session /\ loc'.lastSeen = loc.lastSeen
      BY <1>a, <1>21 DEF AddSample, Locals
    <2> QED
      BY <1>a, <1>21, <2>1, <2>3, <2>4 DEF AddSample
  <1>22. CASE CountSample
    BY <1>a, <1>22 DEF CountSample
  <1>23. CASE EndOnTimeout
    <2>1. loc.session # NoSession /\ loc.lastSeen \in Nat /\ loc.lastSeen > 0 /\ "telemetry_timeout" \in Reasons
      BY <1>a, <1>23, EventFields DEF EndOnTimeout, Reasons
    <2>2. db' = [db EXCEPT ![loc.session] = EndedRow(@, loc.lastSeen, "telemetry_timeout")]
      BY <1>23 DEF EndOnTimeout
    <2>3. /\ Len(db') = Len(db)
          /\ \A i \in base + 1 .. Len(db) : db'[i].endedAt # NotEnded
      BY <2>1, <2>2, EndedCommit
    <2>4. loc'.session = NoSession /\ loc'.lastSeen = loc.lastSeen
      BY <1>a, <1>23 DEF EndOnTimeout, Locals
    <2> QED
      BY <1>a, <1>23, <2>1, <2>3, <2>4 DEF EndOnTimeout
  <1>24. CASE ClearActive
    BY <1>a, <1>24 DEF ClearActive
  <1>25. CASE EndOnShutdown
    <2>1. loc.session # NoSession /\ loc.lastSeen \in Nat /\ loc.lastSeen > 0 /\ "service_shutdown" \in Reasons
      BY <1>a, <1>25, EventFields DEF EndOnShutdown, Reasons
    <2>2. db' = [db EXCEPT ![loc.session] = EndedRow(@, loc.lastSeen, "service_shutdown")]
      BY <1>25 DEF EndOnShutdown
    <2>3. /\ Len(db') = Len(db)
          /\ \A i \in base + 1 .. Len(db) : db'[i].endedAt # NotEnded
      BY <2>1, <2>2, EndedCommit
    <2>4. loc' = loc
      BY <1>a, <1>25 DEF EndOnShutdown, Locals
    <2> QED
      BY <1>a, <1>25, <2>1, <2>3, <2>4 DEF EndOnShutdown
  <1>26. CASE WriterFails
    BY <1>a, <1>26 DEF WriterFails, NoError
  <1>27. CASE CloseWriter
    BY <1>a, <1>27 DEF CloseWriter
  <1>28. CASE Restart
    BY <1>a, <1>28, InitialLocalsType DEF Restart
  <1>29. CASE UNCHANGED vars
    BY <1>29 DEF vars
  <1> QED
    BY <1>1, <1>2, <1>3, <1>4, <1>5, <1>6, <1>7, <1>8, <1>9, <1>10, <1>11, <1>12, <1>13, <1>14, <1>15, <1>16, <1>17, <1>18, <1>19, <1>20, <1>21, <1>22, <1>23, <1>24, <1>25, <1>26, <1>27, <1>28, <1>29, NextCases

\* No car change, timeout or shutdown ever leaves a session of the process
\* without its end; only a failed writer does.
THEOREM OnlyLastStaysOpen == Spec => []OnlyLastOpen
  <1>1. Init => TypeInv /\ OpenInv
    BY TypeInit, OpenInit
  <1>2. TypeInv /\ OpenInv /\ [Next]_vars => (TypeInv /\ OpenInv)'
    BY TypeStep, OpenStep
  <1>3. OpenInv => OnlyLastOpen
    BY DEF OpenInv
  <1> QED
    BY <1>1, <1>2, <1>3, PTL DEF Spec

----------------------------------------------------------------------------
(* The flow of updates.                                                    *)

\* An update on its way: not before the last one the writer saw, not after now.
Between(e) ==
    /\ loc.lastObserved <= e.rev /\ e.rev <= feed.rev
    /\ loc.lastSeen <= e.at /\ e.at <= now

\* Updates keep their order from observe() to the writer thread, and the one the
\* writer works on is the last one it saw.
FlowInv ==
    /\ loc.lastObserved <= feed.rev /\ loc.lastSeen <= now
    /\ queue \in Event => Between(queue)
    /\ held \in Event => Between(held)
    /\ queue \in Event /\ held \in Event => queue.rev <= held.rev /\ queue.at <= held.at
    /\ ev \in Event => ev.rev = loc.lastObserved /\ ev.at = loc.lastSeen

\* The steps that touch the local variables of _run() or the history; every other
\* step keeps both, and only moves the writer thread where that needs no commit.
Working == {"endCar", "start", "activate", "sample"}
Keeps ==
    /\ UNCHANGED <<loc, db, base>>
    /\ now' >= now
    /\ pc' \in Working => /\ ev' = ev
                          /\ pc' = pc \/ (pc = "activate" /\ pc' = "sample")
    /\ pc' = "endTimeout" => pc = "endTimeout" \/ TimedOut
    /\ pc = "close" => pc' \in {"close", "dead"}
    /\ pc = "dead" => pc' = "dead"

\* The session in hand is open until the writer thread gives up.
LiveInv == loc.session # NoSession /\ pc \notin {"close", "dead"} =>
               db[loc.session].endedAt = NotEnded

\* RecordedOnce without the sets of revisions: the samples of the process, taken
\* pairwise in the order in which they were written.
PairwiseNewer ==
    \A i, j \in Rows :
        \A m \in 1..Len(db[i].samples), k \in 1..Len(db[j].samples) :
            i < j \/ (i = j /\ m < k) => db[i].samples[m].rev < db[j].samples[k].rev

\* It is inductive once it says that nothing recorded is newer than the last update
\* seen, and that an update about to be recorded is newer than all.
PairwiseInv ==
    /\ PairwiseNewer
    /\ \A i \in Rows : \A m \in 1..Len(db[i].samples) :
           /\ db[i].samples[m].rev <= loc.lastObserved
           /\ pc \in Working => db[i].samples[m].rev < loc.lastObserved

\* SpansAreTight, row by row and without the sets of times.  It is inductive once it
\* says that the history ends at the last update seen ...
Tight(i) ==
    /\ db[i].startedAt <= loc.lastSeen /\ db[i].endedAt <= loc.lastSeen
    /\ \A m \in 1..Len(db[i].samples) :
           /\ db[i].startedAt <= db[i].samples[m].at /\ db[i].samples[m].at <= loc.lastSeen
           /\ db[i].endedAt # NotEnded => db[i].samples[m].at <= db[i].endedAt
    /\ db[i].endedAt # NotEnded =>
           /\ db[i].duration = db[i].endedAt - db[i].startedAt
           /\ \A j \in Rows : j > i => db[j].startedAt >= db[i].endedAt
    /\ db[i].reason = "telemetry_timeout" => now - db[i].endedAt >= EndTimeout

\* ... and that _run() remembers the start of the session in hand.
SpanInv ==
    /\ \A i \in Rows : Tight(i)
    /\ loc.session # NoSession =>
           /\ db[loc.session].startedAt = loc.startedAt
           /\ db[loc.session].startedAt + db[loc.session].duration <= loc.lastSeen
    /\ pc = "endTimeout" => now - loc.lastSeen >= EndTimeout

\* StatusFollows is inductive once it says where the status is exact, one sample
\* behind, and cleared.
CountInv ==
    /\ StatusFollows
    /\ pc \in {"off", "open", "dead"} => active = NoSession
    /\ pc = "activate" => db[loc.session].samples = <<>>
    /\ pc \in {"endCar", "sample", "endTimeout", "endShutdown"} =>
           active = loc.session /\ sampleCount = Len(db[active].samples)
    /\ pc = "addCount" =>
           active = loc.session /\ sampleCount + 1 = Len(db[active].samples)

----------------------------------------------------------------------------
(* The flow is ordered.                                                    *)

\* What of the types the flow depends on.
FlowTypes ==
    /\ queue \in Event \cup {Pill, Empty}
    /\ held \in Event \cup {NoEvent}
    /\ held \in Event => producer \in {"evict", "reput"}
    /\ ev \in Event \cup {NoEvent}
    /\ now \in Nat /\ feed.rev \in Nat
    /\ loc \in Locals /\ loc.lastSeen \in Nat /\ loc.lastObserved \in Int
    /\ \A e \in Event : e.rev \in Nat /\ e.at \in Nat

\* Naming them keeps the proof from unfolding the rest.
LEMMA FlowTypesHold == TypeInv => FlowTypes
  BY EventFields DEF TypeInv, TypeOK, WorkInv, FlowTypes, Locals, Instant

\* The order of updates holds initially.
LEMMA FlowInit == Init => FlowInv
  BY RecorderAssumption DEF Init, FlowInv, InitialFeed, InitialLocals

\* The locals that a new process starts with.
LEMMA FreshLocals == InitialLocals.lastObserved = -1 /\ InitialLocals.lastSeen = 0
  BY DEF InitialLocals

\* Every step preserves the order of updates.
LEMMA FlowStep == FlowTypes /\ FlowInv /\ [Next]_vars => FlowInv'
  <1> SUFFICES ASSUME FlowTypes, FlowInv, [Next]_vars PROVE FlowInv'
    OBVIOUS
  <1> USE RecorderAssumption DEF FlowTypes, FlowInv, Between, clock, mailbox, thread
  <1>1. CASE Tick
    BY <1>1 DEF Tick
  <1>2. CASE ReceivePacket
    <2>1. feed'.rev = feed.rev + 1
      BY <1>2 DEF ReceivePacket
    <2> QED
      BY <1>2, <2>1 DEF ReceivePacket
  <1>3. CASE Start
    BY <1>3 DEF Start
  <1>4. CASE Observe
    <2>1. PICK e : /\ e.rev = feed.rev /\ e.at = now
                   /\ \/ queue = Empty /\ queue' = e /\ held' = held
                      \/ held' = e /\ queue' = queue
      BY <1>4 DEF Observe
    <2>2. UNCHANGED <<now, feed, ev, loc>>
      BY <1>4 DEF Observe
    <2>3. held \notin Event
      BY <1>4 DEF Observe
    <2> QED
      BY <2>1, <2>2, <2>3
  <1>5. CASE Stop
    BY <1>5 DEF Stop
  <1>6. CASE Evict
    BY <1>6 DEF Evict
  <1>7. CASE Reput
    BY <1>7 DEF Reput
  <1>8. CASE CountDropped
    BY <1>8 DEF CountDropped
  <1>9. CASE StopPut
    BY <1>9 DEF StopPut
  <1>10. CASE StopEvict
    BY <1>10 DEF StopEvict
  <1>11. CASE Joined
    BY <1>11 DEF Joined
  <1>12. CASE Open
    BY <1>12 DEF Open
  <1>13. CASE OpenFails
    BY <1>13 DEF OpenFails
  <1>14. CASE TakePill
    BY <1>14 DEF TakePill
  <1>15. CASE TakePacket
    <2>1. /\ queue \in Event
          /\ queue' = Empty /\ ev' \in {queue, NoEvent}
          /\ UNCHANGED <<now, feed, held>>
      BY <1>15 DEF TakePacket
    <2>2. loc'.lastSeen = queue.at /\ loc'.lastObserved = queue.rev
      BY <1>15 DEF TakePacket, Locals
    <2> QED
      BY <2>1, <2>2
  <1>16. CASE TakeStale
    BY <1>16 DEF TakeStale
  <1>17. CASE PollEmpty
    BY <1>17 DEF PollEmpty
  <1>18. CASE EndOnCarChange
    <2>1. loc'.lastSeen = loc.lastSeen /\ loc'.lastObserved = loc.lastObserved
      BY <1>18 DEF EndOnCarChange, Locals
    <2> QED
      BY <1>18, <2>1 DEF EndOnCarChange
  <1>19. CASE StartSession
    <2>1. loc'.lastSeen = loc.lastSeen /\ loc'.lastObserved = loc.lastObserved
      BY <1>19 DEF StartSession, Locals
    <2> QED
      BY <1>19, <2>1 DEF StartSession
  <1>20. CASE SetActive
    BY <1>20 DEF SetActive
  <1>21. CASE AddSample
    <2>1. loc'.lastSeen = loc.lastSeen /\ loc'.lastObserved = loc.lastObserved
      BY <1>21 DEF AddSample, Locals
    <2> QED
      BY <1>21, <2>1 DEF AddSample
  <1>22. CASE CountSample
    BY <1>22 DEF CountSample
  <1>23. CASE EndOnTimeout
    <2>1. loc'.lastSeen = loc.lastSeen /\ loc'.lastObserved = loc.lastObserved
      BY <1>23 DEF EndOnTimeout, Locals
    <2> QED
      BY <1>23, <2>1 DEF EndOnTimeout
  <1>24. CASE ClearActive
    BY <1>24 DEF ClearActive
  <1>25. CASE EndOnShutdown
    BY <1>25 DEF EndOnShutdown
  <1>26. CASE WriterFails
    BY <1>26 DEF WriterFails
  <1>27. CASE CloseWriter
    BY <1>27 DEF CloseWriter
  <1>28. CASE Restart
    BY <1>28, FreshLocals DEF Restart, InitialFeed
  <1>29. CASE UNCHANGED vars
    BY <1>29 DEF vars
  <1> QED
    BY <1>1, <1>2, <1>3, <1>4, <1>5, <1>6, <1>7, <1>8, <1>9, <1>10, <1>11, <1>12, <1>13, <1>14, <1>15, <1>16, <1>17, <1>18, <1>19, <1>20, <1>21, <1>22, <1>23, <1>24, <1>25, <1>26, <1>27, <1>28, <1>29, NextCases

\* Every step either touches the history or the local variables, or keeps both.
LEMMA DataCases ==
    ASSUME TypeInv, [Next]_vars
    PROVE  \/ TakePacket \/ EndOnCarChange \/ StartSession \/ AddSample
           \/ EndOnTimeout \/ EndOnShutdown \/ Restart
           \/ Keeps
  <1> now \in Nat /\ (producer = "new" => pc = "off")
    BY DEF TypeInv, TypeOK, WorkInv, Instant
  <1> USE DEF Keeps, Working, clock, mailbox, thread, status, history
  <1>1. CASE Tick
    BY <1>1 DEF Tick
  <1>2. CASE ReceivePacket
    BY <1>2 DEF ReceivePacket
  <1>3. CASE Start
    BY <1>3 DEF Start
  <1>4. CASE Observe
    BY <1>4 DEF Observe
  <1>5. CASE Stop
    BY <1>5 DEF Stop
  <1>6. CASE Evict
    BY <1>6 DEF Evict
  <1>7. CASE Reput
    BY <1>7 DEF Reput
  <1>8. CASE CountDropped
    BY <1>8 DEF CountDropped
  <1>9. CASE StopPut
    BY <1>9 DEF StopPut
  <1>10. CASE StopEvict
    BY <1>10 DEF StopEvict
  <1>11. CASE Joined
    BY <1>11 DEF Joined
  <1>12. CASE Open
    BY <1>12 DEF Open
  <1>13. CASE OpenFails
    BY <1>13 DEF OpenFails
  <1>14. CASE TakePill
    BY <1>14 DEF TakePill
  <1>15. CASE TakePacket
    BY <1>15
  <1>16. CASE TakeStale
    BY <1>16 DEF TakeStale
  <1>17. CASE PollEmpty
    BY <1>17 DEF PollEmpty
  <1>18. CASE EndOnCarChange
    BY <1>18
  <1>19. CASE StartSession
    BY <1>19
  <1>20. CASE SetActive
    BY <1>20 DEF SetActive
  <1>21. CASE AddSample
    BY <1>21
  <1>22. CASE CountSample
    BY <1>22 DEF CountSample
  <1>23. CASE EndOnTimeout
    BY <1>23
  <1>24. CASE ClearActive
    BY <1>24 DEF ClearActive
  <1>25. CASE EndOnShutdown
    BY <1>25
  <1>26. CASE WriterFails
    BY <1>26 DEF WriterFails
  <1>27. CASE CloseWriter
    BY <1>27 DEF CloseWriter
  <1>28. CASE Restart
    BY <1>28
  <1>29. CASE UNCHANGED vars
    BY <1>29 DEF vars
  <1> QED
    BY <1>1, <1>2, <1>3, <1>4, <1>5, <1>6, <1>7, <1>8, <1>9, <1>10, <1>11, <1>12, <1>13, <1>14, <1>15, <1>16, <1>17, <1>18, <1>19, <1>20, <1>21, <1>22, <1>23, <1>24, <1>25, <1>26, <1>27, <1>28, <1>29, NextCases

----------------------------------------------------------------------------
(* What the steps that write do.                                           *)

\* The rows of the history and their samples.
LEMMA RowFields ==
    ASSUME TypeInv, NEW i \in 1..Len(db)
    PROVE  /\ db[i].startedAt \in Nat /\ db[i].endedAt \in Nat /\ db[i].duration \in Nat
           /\ db[i].samples \in Seq(Sample) /\ Len(db[i].samples) \in Nat
           /\ \A m \in 1..Len(db[i].samples) :
                  db[i].samples[m].rev \in Nat /\ db[i].samples[m].at \in Nat
  <1>1. db[i] \in Row
    BY ElementOfSeq DEF TypeInv, TypeOK
  <1>2. db[i].samples \in Seq(Sample)
    BY <1>1 DEF Row
  <1>3. Len(db[i].samples) \in Nat /\ \A m \in 1..Len(db[i].samples) : db[i].samples[m] \in Sample
    BY <1>2, LenProperties, ElementOfSeq
  <1> QED
    BY <1>1, <1>2, <1>3 DEF Row, Sample

\* The rows of this process are rows of the history.
LEMMA RowsInHistory ==
    ASSUME TypeInv
    PROVE  Rows \subseteq 1..Len(db) /\ Len(db) \in Nat /\ base \in Nat /\ loc \in Locals
           /\ loc.lastSeen \in Nat /\ loc.lastObserved \in Int /\ loc.startedAt \in Nat
           /\ now \in Nat
  BY LenProperties DEF TypeInv, TypeOK, Rows, Locals, Instant

\* A new packet: both marks move on, the revision strictly.
LEMMA PacketFacts ==
    ASSUME TypeInv, FlowInv, TakePacket
    PROVE  /\ UNCHANGED <<db, base, now>>
           /\ loc'.session = loc.session /\ loc'.startedAt = loc.startedAt
           /\ loc'.lastSeen \in Nat /\ loc'.lastSeen >= loc.lastSeen
           /\ loc'.lastObserved \in Int /\ loc'.lastObserved > loc.lastObserved
           /\ pc = "get" /\ pc' \notin {"endTimeout", "close", "dead"}
  <1>1. queue \in Event
    BY DEF TakePacket, TypeInv, TypeOK
  <1>2. queue.rev \in Nat /\ queue.at \in Nat /\ loc \in Locals
    BY <1>1, EventFields DEF TypeInv, TypeOK
  <1>3. loc.lastObserved <= queue.rev /\ loc.lastSeen <= queue.at /\ loc.lastObserved \in Int
    BY <1>1, <1>2 DEF FlowInv, Between, Locals
  <1>4. queue.rev # loc.lastObserved
    BY DEF TakePacket, IsNewPacket
  <1>5. /\ loc'.session = loc.session /\ loc'.startedAt = loc.startedAt
        /\ loc'.lastSeen = queue.at /\ loc'.lastObserved = queue.rev
    BY <1>2 DEF TakePacket, Locals
  <1> QED
    BY <1>2, <1>3, <1>4, <1>5 DEF TakePacket, clock

\* end_session changes the row of the session in hand, and no sample.
LEMMA EndFacts ==
    ASSUME TypeInv, loc.session # NoSession, NEW at \in Nat, NEW why \in Reasons,
           db' = [db EXCEPT ![loc.session] = EndedRow(@, at, why)]
    PROVE  /\ loc.session \in 1..Len(db) /\ Len(db') = Len(db)
           /\ \A j \in 1..Len(db) :
                  /\ j # loc.session => db'[j] = db[j]
                  /\ db'[j].samples = db[j].samples
                  /\ db'[j].startedAt = db[j].startedAt
                  /\ db'[j].car = db[j].car
           /\ db'[loc.session].endedAt = at
           /\ db'[loc.session].reason = why
           /\ db'[loc.session].duration =
                  Larger(db[loc.session].duration, AtLeast0(at - loc.startedAt))
  <1>1. loc.session \in 1..Len(db) /\ db[loc.session] \in Row
    BY OpenRow
  <1> DEFINE row == EndedRow(db[loc.session], at, why)
  <1>2. row \in Row
    BY <1>1, EndedRowType DEF TypeInv, TypeOK
  <1>3. /\ row.samples = db[loc.session].samples /\ row.startedAt = db[loc.session].startedAt
        /\ row.car = db[loc.session].car /\ row.endedAt = at /\ row.reason = why
        /\ row.duration = Larger(db[loc.session].duration, AtLeast0(at - loc.startedAt))
    BY <1>1 DEF EndedRow, Row
  <1> HIDE DEF row
  <1>4. db' = [db EXCEPT ![loc.session] = row]
    BY DEF row
  <1>5. /\ Len(db') = Len(db)
        /\ \A j \in 1..Len(db) : db'[j] = IF j = loc.session THEN row ELSE db[j]
    BY <1>1, <1>2, <1>4, ExceptSeq DEF TypeInv, TypeOK
  <1> QED
    BY <1>1, <1>3, <1>5

\* start_session adds a row without a sample.
LEMMA StartFacts ==
    ASSUME TypeInv, FlowInv, StartSession
    PROVE  /\ loc.session = NoSession
           /\ Len(db') = Len(db) + 1
           /\ \A j \in 1..Len(db) : db'[j] = db[j]
           /\ db'[Len(db) + 1] = NewRow(ev)
           /\ ev \in Event /\ ev.at = loc.lastSeen /\ ev.rev = loc.lastObserved
           /\ NewRow(ev).samples = <<>> /\ NewRow(ev).startedAt = ev.at
           /\ NewRow(ev).endedAt = NotEnded /\ NewRow(ev).duration = 0
           /\ NewRow(ev).reason = "none"
           /\ loc'.session = Len(db) + 1 /\ loc'.startedAt = ev.at
           /\ loc'.lastSeen = loc.lastSeen /\ loc'.lastObserved = loc.lastObserved
           /\ base' = base /\ now' = now
  <1>1. ev \in Event /\ loc.session = NoSession /\ db \in Seq(Row) /\ loc \in Locals
    BY DEF StartSession, TypeInv, TypeOK, WorkInv
  <1>2. NewRow(ev) \in Row
    BY <1>1, NewRowType
  <1>3. /\ Len(db') = Len(db) + 1 /\ \A j \in 1..Len(db) : db'[j] = db[j]
        /\ db'[Len(db) + 1] = NewRow(ev)
    BY <1>1, <1>2, AppendProperties DEF StartSession
  <1>4. /\ loc'.session = Len(db) + 1 /\ loc'.startedAt = ev.at
        /\ loc'.lastSeen = loc.lastSeen /\ loc'.lastObserved = loc.lastObserved
    BY <1>1 DEF StartSession, Locals
  <1>5. base' = base /\ now' = now
    BY DEF StartSession, history, clock
  <1>6. ev.at = loc.lastSeen /\ ev.rev = loc.lastObserved
    BY <1>1 DEF FlowInv
  <1> QED
    BY <1>1, <1>3, <1>4, <1>5, <1>6 DEF NewRow

\* add_sample adds the update in hand to the session in hand.
LEMMA SampleFacts ==
    ASSUME TypeInv, FlowInv, AddSample
    PROVE  /\ loc.session # NoSession /\ loc.session \in 1..Len(db) /\ Len(db') = Len(db)
           /\ \A j \in 1..Len(db) : j # loc.session => db'[j] = db[j]
           /\ \A j \in 1..Len(db) : /\ db'[j].startedAt = db[j].startedAt
                                    /\ db'[j].endedAt = db[j].endedAt
                                    /\ db'[j].reason = db[j].reason
                                    /\ db'[j].car = db[j].car
           /\ LET old == db[loc.session].samples
                  new == db'[loc.session].samples
              IN  /\ Len(new) = Len(old) + 1
                  /\ \A m \in 1..Len(old) : new[m] = old[m]
                  /\ new[Len(old) + 1].rev = loc.lastObserved
                  /\ new[Len(old) + 1].at = loc.lastSeen
           /\ db'[loc.session].duration =
                  Larger(db[loc.session].duration, AtLeast0(loc.lastSeen - loc.startedAt))
           /\ loc'.session = loc.session /\ loc'.startedAt = loc.startedAt
           /\ loc'.lastSeen = loc.lastSeen /\ loc'.lastObserved = loc.lastObserved
           /\ base' = base /\ now' = now /\ pc = "sample" /\ pc' = "addCount"
  <1>1. /\ ev \in Event /\ loc.session # NoSession /\ loc.session \in 1..Len(db)
        /\ db[loc.session] \in Row /\ loc \in Locals /\ db \in Seq(Row)
    BY OpenRow DEF AddSample, TypeInv, TypeOK, WorkInv
  <1>2. ev.rev = loc.lastObserved /\ ev.at = loc.lastSeen
    BY <1>1 DEF FlowInv
  <1> DEFINE row == SampledRow(db[loc.session], ev)
             old == db[loc.session].samples
             sample == [rev |-> ev.rev, car |-> ev.car, at |-> ev.at]
  <1>3. row \in Row
    BY <1>1, SampledRowType
  <1>4. /\ row.samples = Append(old, sample) /\ row.startedAt = db[loc.session].startedAt
        /\ row.endedAt = db[loc.session].endedAt /\ row.reason = db[loc.session].reason
        /\ row.car = db[loc.session].car
        /\ row.duration = Larger(db[loc.session].duration, AtLeast0(ev.at - loc.startedAt))
    BY <1>1 DEF SampledRow, Row
  <1>5. old \in Seq(Sample) /\ sample \in Sample
    BY <1>1 DEF Row, Event, Instant, Sample
  <1>6. /\ Len(row.samples) = Len(old) + 1
        /\ \A m \in 1..Len(old) : row.samples[m] = old[m]
        /\ row.samples[Len(old) + 1] = sample
    BY <1>4, <1>5, AppendProperties
  <1>7. db' = [db EXCEPT ![loc.session] = row]
    BY DEF AddSample
  <1> HIDE DEF row
  <1>8. /\ Len(db') = Len(db)
        /\ \A j \in 1..Len(db) : db'[j] = IF j = loc.session THEN row ELSE db[j]
    BY <1>1, <1>3, <1>7, ExceptSeq
  <1>9. /\ loc'.session = loc.session /\ loc'.startedAt = loc.startedAt
        /\ loc'.lastSeen = loc.lastSeen /\ loc'.lastObserved = loc.lastObserved
    BY <1>1 DEF AddSample, Locals
  <1>10. base' = base /\ now' = now /\ pc = "sample" /\ pc' = "addCount"
    BY DEF AddSample, history, clock
  <1>11. sample.rev = loc.lastObserved /\ sample.at = loc.lastSeen
    BY <1>2
  <1> HIDE DEF sample
  <1>12. /\ Len(db'[loc.session].samples) = Len(old) + 1
         /\ \A m \in 1..Len(old) : db'[loc.session].samples[m] = old[m]
         /\ db'[loc.session].samples[Len(old) + 1].rev = loc.lastObserved
         /\ db'[loc.session].samples[Len(old) + 1].at = loc.lastSeen
    BY <1>1, <1>6, <1>8, <1>11
  <1>13. \A j \in 1..Len(db) : /\ db'[j].startedAt = db[j].startedAt
                               /\ db'[j].endedAt = db[j].endedAt
                               /\ db'[j].reason = db[j].reason
                               /\ db'[j].car = db[j].car
    BY <1>4, <1>8
  <1>14. db'[loc.session].duration =
             Larger(db[loc.session].duration, AtLeast0(loc.lastSeen - loc.startedAt))
    BY <1>1, <1>2, <1>4, <1>8
  <1> QED
    BY <1>1, <1>8, <1>9, <1>10, <1>12, <1>13, <1>14

\* However a session ends, it ends at the last update seen.
Ends(why) ==
    /\ loc.session # NoSession
    /\ db' = [db EXCEPT ![loc.session] = EndedRow(@, loc.lastSeen, why)]
    /\ loc'.session \in {NoSession, loc.session} /\ loc'.startedAt = loc.startedAt
    /\ loc'.lastSeen = loc.lastSeen /\ loc'.lastObserved = loc.lastObserved
    /\ base' = base /\ now' = now
    /\ why = "telemetry_timeout" => pc = "endTimeout"
    /\ \/ pc = "endCar" /\ pc' = "start" /\ loc'.session = NoSession
       \/ pc = "endTimeout" /\ pc' = "clear" /\ loc'.session = NoSession
       \/ pc = "endShutdown" /\ pc' = "close"

\* What end_session does to the history and to the writer.
LEMMA EndCases ==
    ASSUME TypeInv, FlowInv, EndOnCarChange \/ EndOnTimeout \/ EndOnShutdown
    PROVE  \E why \in Reasons : Ends(why)
  <1>1. loc \in Locals /\ loc.session # NoSession
    BY DEF EndOnCarChange, EndOnTimeout, EndOnShutdown, TypeInv, TypeOK, WorkInv
  <1>2. base' = base /\ now' = now
    BY DEF EndOnCarChange, EndOnTimeout, EndOnShutdown, history, clock
  <1>3. CASE EndOnCarChange
    <2>1. ev.at = loc.lastSeen
      BY <1>3 DEF EndOnCarChange, FlowInv, TypeInv, WorkInv
    <2>2. /\ loc'.session = NoSession /\ loc'.startedAt = loc.startedAt
          /\ loc'.lastSeen = loc.lastSeen /\ loc'.lastObserved = loc.lastObserved
      BY <1>1, <1>3 DEF EndOnCarChange, Locals
    <2>3. Ends("car_changed")
      BY <1>1, <1>2, <1>3, <2>1, <2>2 DEF EndOnCarChange, Ends
    <2> QED
      BY <2>3 DEF Reasons
  <1>4. CASE EndOnTimeout
    <2>1. /\ loc'.session = NoSession /\ loc'.startedAt = loc.startedAt
          /\ loc'.lastSeen = loc.lastSeen /\ loc'.lastObserved = loc.lastObserved
      BY <1>1, <1>4 DEF EndOnTimeout, Locals
    <2>2. Ends("telemetry_timeout")
      BY <1>1, <1>2, <1>4, <2>1 DEF EndOnTimeout, Ends
    <2> QED
      BY <2>2 DEF Reasons
  <1>5. CASE EndOnShutdown
    <2>1. Ends("service_shutdown")
      BY <1>1, <1>2, <1>5 DEF EndOnShutdown, Ends
    <2> QED
      BY <2>1 DEF Reasons
  <1> QED
    BY <1>3, <1>4, <1>5

\* What the rows become when a session ends.
LEMMA EndedRows ==
    ASSUME TypeInv, NEW why \in Reasons, Ends(why)
    PROVE  /\ loc.session \in 1..Len(db) /\ Len(db') = Len(db)
           /\ \A j \in 1..Len(db) :
                  /\ j # loc.session => db'[j] = db[j]
                  /\ db'[j].samples = db[j].samples
                  /\ db'[j].startedAt = db[j].startedAt
                  /\ db'[j].car = db[j].car
           /\ db'[loc.session].endedAt = loc.lastSeen
           /\ db'[loc.session].reason = why
           /\ db'[loc.session].duration =
                  Larger(db[loc.session].duration, AtLeast0(loc.lastSeen - loc.startedAt))
  <1>1. loc.lastSeen \in Nat
    BY RowsInHistory
  <1> QED
    BY <1>1, EndFacts DEF Ends

----------------------------------------------------------------------------
(* The session in hand is open.                                            *)

\* No session is live at the start.
LEMMA LiveInit == Init => LiveInv
  BY InitialLocalsType DEF Init, LiveInv

\* Every step of the recorder keeps the live session in the history.
LEMMA LiveStep == TypeInv /\ FlowInv /\ LiveInv /\ [Next]_vars => LiveInv'
  <1> SUFFICES ASSUME TypeInv, FlowInv, LiveInv, [Next]_vars PROVE LiveInv'
    OBVIOUS
  <1>1. CASE Keeps
    BY <1>1 DEF Keeps, LiveInv
  <1>2. CASE TakePacket
    BY <1>2, PacketFacts DEF LiveInv
  <1>3. CASE EndOnCarChange \/ EndOnTimeout \/ EndOnShutdown
    BY <1>3, EndCases DEF Ends, LiveInv
  <1>4. CASE StartSession
    BY <1>4, StartFacts DEF LiveInv
  <1>5. CASE AddSample
    BY <1>5, SampleFacts DEF LiveInv
  <1>6. CASE Restart
    BY <1>6, InitialLocalsType DEF Restart, LiveInv
  <1> QED
    BY <1>1, <1>2, <1>3, <1>4, <1>5, <1>6, DataCases

----------------------------------------------------------------------------
(* A packet is recorded at most once.                                      *)

\* Recorded at most once, said of two samples of a session and of two sessions.
LEMMA RecordedPairwise == TypeInv => (RecordedOnce <=> PairwiseNewer)
  <1> SUFFICES ASSUME TypeInv PROVE RecordedOnce <=> PairwiseNewer
    OBVIOUS
  <1>1. \A i \in Rows : i \in Nat
    BY RowsInHistory
  <1>2. ASSUME RecordedOnce, NEW i \in Rows, NEW j \in Rows,
               NEW m \in 1..Len(db[i].samples), NEW k \in 1..Len(db[j].samples),
               i < j \/ (i = j /\ m < k)
        PROVE  db[i].samples[m].rev < db[j].samples[k].rev
    <2>1. db[i].samples[m].rev \in Revisions(db[i]) /\ db[j].samples[k].rev \in Revisions(db[j])
      BY DEF Revisions
    <2>2. CASE i < j
      BY <1>2, <2>1, <2>2 DEF RecordedOnce
    <2>3. CASE i = j /\ m < k
      BY <1>2, <2>3 DEF RecordedOnce
    <2> QED
      BY <1>2, <2>2, <2>3
  <1>3. ASSUME PairwiseNewer PROVE RecordedOnce
    <2>1. ASSUME NEW i \in Rows, NEW m \in 1..Len(db[i].samples),
                 NEW k \in 1..Len(db[i].samples), m < k
          PROVE  db[i].samples[m].rev < db[i].samples[k].rev
      BY <1>3, <2>1 DEF PairwiseNewer
    <2>2. ASSUME NEW i \in Rows, NEW j \in Rows, i < j,
                 NEW r \in Revisions(db[i]), NEW q \in Revisions(db[j])
          PROVE  r < q
      <3>1. PICK m \in 1..Len(db[i].samples) : r = db[i].samples[m].rev
        BY DEF Revisions
      <3>2. PICK k \in 1..Len(db[j].samples) : q = db[j].samples[k].rev
        BY DEF Revisions
      <3> QED
        BY <1>3, <2>2, <3>1, <3>2 DEF PairwiseNewer
    <2> QED
      BY <2>1, <2>2 DEF RecordedOnce
  <1> QED
    BY <1>2, <1>3 DEF PairwiseNewer

\* The empty history has no two samples.
LEMMA RecordInit == Init => PairwiseInv
  BY DEF Init, PairwiseInv, PairwiseNewer, Rows

\* A step that adds no sample keeps the order of the samples.
LEMMA RecordSame ==
    ASSUME TypeInv, PairwiseInv, Len(db') = Len(db), base' = base,
           \A j \in 1..Len(db) : db'[j].samples = db[j].samples,
           loc'.lastObserved \in Int, loc'.lastObserved >= loc.lastObserved,
           pc' \in Working => pc \in Working \/ loc'.lastObserved > loc.lastObserved
    PROVE  PairwiseInv'
  <1>1. Rows' = Rows /\ Rows \subseteq 1..Len(db) /\ loc.lastObserved \in Int
    BY RowsInHistory DEF Rows
  <1>2. \A i \in Rows : \A m \in 1..Len(db[i].samples) : db[i].samples[m].rev \in Nat
    BY <1>1, RowFields
  <1>3. \A i \in Rows : db'[i].samples = db[i].samples
    BY <1>1
  <1>4. PairwiseNewer'
    BY <1>1, <1>3 DEF PairwiseInv, PairwiseNewer
  <1>5. ASSUME NEW i \in Rows, NEW m \in 1..Len(db[i].samples)
        PROVE  /\ db[i].samples[m].rev <= loc'.lastObserved
               /\ pc' \in Working => db[i].samples[m].rev < loc'.lastObserved
    <2>1. /\ db[i].samples[m].rev \in Nat /\ db[i].samples[m].rev <= loc.lastObserved
          /\ pc \in Working => db[i].samples[m].rev < loc.lastObserved
      BY <1>2 DEF PairwiseInv
    <2> QED
      BY <1>1, <2>1
  <1> QED
    BY <1>1, <1>3, <1>4, <1>5 DEF PairwiseInv

\* The new sample is newer than every other of the process.
LEMMA RecordSample ==
    ASSUME TypeInv, FlowInv, OpenInv, PairwiseInv, AddSample
    PROVE  PairwiseInv'
  <1> DEFINE s == loc.session
             n == Len(db[s].samples)
  <1>1. /\ Rows' = Rows /\ Rows \subseteq 1..Len(db) /\ s \in Rows
        /\ Len(db) \in Nat /\ base \in Nat /\ n \in Nat
        /\ \A i \in Rows : i \in Nat /\ i <= s
    <2>1. s \in 1..Len(db) /\ s # NoSession /\ Len(db') = Len(db) /\ base' = base
      BY SampleFacts
    <2>2. Rows \subseteq 1..Len(db) /\ Len(db) \in Nat /\ base \in Nat
      BY RowsInHistory
    <2>3. s = Len(db) /\ s > base
      BY <2>1 DEF OpenInv
    <2>4. Rows' = Rows /\ s \in Rows /\ \A i \in Rows : i \in Nat /\ i <= s
      BY <2>1, <2>2, <2>3 DEF Rows
    <2>5. n \in Nat
      BY <2>2, <2>4, RowFields
    <2> QED
      BY <2>2, <2>4, <2>5
  <1>2. \A j \in Rows : j # s => db'[j] = db[j]
    BY <1>1, SampleFacts
  <1>3. /\ Len(db'[s].samples) = n + 1
        /\ \A m \in 1..n : db'[s].samples[m] = db[s].samples[m]
        /\ db'[s].samples[n + 1].rev = loc.lastObserved
        /\ loc'.lastObserved = loc.lastObserved /\ pc' \notin Working /\ pc \in Working
    BY SampleFacts DEF Working
  <1>4. ASSUME NEW i \in Rows, NEW m \in 1..Len(db[i].samples)
        PROVE  db[i].samples[m].rev \in Nat /\ db[i].samples[m].rev < loc.lastObserved
    BY <1>1, <1>3, RowFields DEF PairwiseInv
  <1>5. loc.lastObserved \in Int
    BY RowsInHistory
  <1> HIDE DEF n, s
  \* A sample of the new history is an old one, or the new one.
  <1>6. ASSUME NEW i \in Rows, NEW m \in 1..Len(db'[i].samples)
        PROVE  /\ m \in Nat
               /\ \/ m \in 1..Len(db[i].samples) /\ db'[i].samples[m] = db[i].samples[m]
                  \/ i = s /\ m = n + 1 /\ db'[i].samples[m].rev = loc.lastObserved
    <2>1. CASE i = s
      <3>1. m \in 1..(n + 1)
        BY <1>3, <2>1
      <3>2. CASE m = n + 1
        BY <1>1, <1>3, <2>1, <3>1, <3>2
      <3>3. CASE m # n + 1
        BY <1>1, <1>3, <2>1, <3>1, <3>3 DEF n
      <3> QED
        BY <3>2, <3>3
    <2>2. CASE i # s
      <3>1. db'[i] = db[i]
        BY <1>2, <2>2
      <3> QED
        BY <3>1
    <2> QED
      BY <2>1, <2>2
  <1>7. ASSUME NEW i \in Rows, NEW j \in Rows,
               NEW m \in 1..Len(db'[i].samples), NEW k \in 1..Len(db'[j].samples),
               i < j \/ (i = j /\ m < k)
        PROVE  db'[i].samples[m].rev < db'[j].samples[k].rev
    <2>1. m \in 1..Len(db[i].samples) /\ db'[i].samples[m] = db[i].samples[m]
      <3>1. CASE m \in 1..Len(db[i].samples) /\ db'[i].samples[m] = db[i].samples[m]
        BY <3>1
      <3>2. CASE i = s /\ m = n + 1
        <4>1. i = j /\ i \in Nat /\ k \in 1..(n + 1) /\ n \in Nat
          BY <1>1, <1>3, <1>7, <3>2
        <4> QED
          BY <1>7, <3>2, <4>1
      <3> QED
        BY <1>6, <3>1, <3>2
    <2>2. CASE k \in 1..Len(db[j].samples) /\ db'[j].samples[k] = db[j].samples[k]
      BY <1>7, <2>1, <2>2 DEF PairwiseInv, PairwiseNewer
    <2>3. CASE db'[j].samples[k].rev = loc.lastObserved
      BY <1>4, <2>1, <2>3
    <2> QED
      BY <1>6, <2>2, <2>3
  <1>8. ASSUME NEW i \in Rows, NEW m \in 1..Len(db'[i].samples)
        PROVE  db'[i].samples[m].rev <= loc.lastObserved
    <2>1. CASE m \in 1..Len(db[i].samples) /\ db'[i].samples[m] = db[i].samples[m]
      BY <1>4, <1>5, <2>1
    <2>2. CASE db'[i].samples[m].rev = loc.lastObserved
      BY <1>5, <2>2
    <2> QED
      BY <1>6, <2>1, <2>2
  <1>9. PairwiseNewer'
    BY <1>1, <1>7 DEF PairwiseNewer
  <1> QED
    BY <1>1, <1>3, <1>8, <1>9 DEF PairwiseInv

\* Only an INSERT of a sample adds to the order, and it adds at the end.
LEMMA RecordStep ==
    TypeInv /\ FlowInv /\ OpenInv /\ PairwiseInv /\ [Next]_vars => PairwiseInv'
  <1> SUFFICES ASSUME TypeInv, FlowInv, OpenInv, PairwiseInv, [Next]_vars PROVE PairwiseInv'
    OBVIOUS
  <1>a. loc.lastObserved \in Int
    BY RowsInHistory
  <1>1. CASE Keeps
    BY <1>a, <1>1, RecordSame DEF Keeps, Working
  <1>2. CASE TakePacket
    BY <1>a, <1>2, RecordSame, PacketFacts
  <1>3. CASE EndOnCarChange \/ EndOnTimeout \/ EndOnShutdown
    <2>1. PICK why \in Reasons : Ends(why)
      BY <1>3, EndCases
    <2>2. Len(db') = Len(db) /\ \A j \in 1..Len(db) : db'[j].samples = db[j].samples
      BY <2>1, EndedRows
    <2>3. /\ base' = base /\ loc'.lastObserved = loc.lastObserved
          /\ pc' \in Working => pc \in Working
      BY <2>1 DEF Ends, Working
    <2> QED
      BY <1>a, <2>2, <2>3, RecordSame
  <1>4. CASE StartSession
    <2>1. /\ Rows' \subseteq Rows \cup {Len(db) + 1} /\ Rows \subseteq 1..Len(db)
          /\ Len(db) \in Nat
      BY <1>4, StartFacts, RowsInHistory DEF Rows
    <2>2. /\ \A j \in Rows : db'[j] = db[j]
          /\ 1..Len(db'[Len(db) + 1].samples) = {}
          /\ loc'.lastObserved = loc.lastObserved
      BY <1>4, <2>1, StartFacts
    <2>3. pc \in Working
      BY <1>4 DEF StartSession, Working
    <2>4. ASSUME NEW i \in Rows', NEW m \in 1..Len(db'[i].samples)
          PROVE  i \in Rows /\ db'[i] = db[i] /\ m \in 1..Len(db[i].samples)
      BY <2>1, <2>2
    <2>5. PairwiseNewer'
      BY <2>4 DEF PairwiseInv, PairwiseNewer
    <2> QED
      BY <2>2, <2>3, <2>4, <2>5 DEF PairwiseInv
  <1>5. CASE AddSample
    BY <1>5, RecordSample
  <1>6. CASE Restart
    <2>1. Rows' = {}
      BY <1>6, RowsInHistory DEF Restart, Rows
    <2> QED
      BY <2>1 DEF PairwiseInv, PairwiseNewer
  <1> QED
    BY <1>1, <1>2, <1>3, <1>4, <1>5, <1>6, DataCases

\* Across car changes, timeouts and dropped updates, no packet is recorded twice
\* and none out of order.
THEOREM RecordedAtMostOnce == Spec => []RecordedOnce
  <1>1. Init => TypeInv /\ FlowInv /\ OpenInv /\ PairwiseInv
    BY TypeInit, FlowInit, OpenInit, RecordInit
  <1>2. TypeInv /\ FlowInv /\ OpenInv /\ PairwiseInv /\ [Next]_vars
        => (TypeInv /\ FlowInv /\ OpenInv /\ PairwiseInv)'
    BY TypeStep, FlowTypesHold, FlowStep, OpenStep, RecordStep
  <1>3. TypeInv /\ PairwiseInv => RecordedOnce
    BY RecordedPairwise DEF PairwiseInv
  <1> QED
    BY <1>1, <1>2, <1>3, PTL DEF Spec

----------------------------------------------------------------------------
(* The spans of the sessions are tight.                                    *)

\* What the invariant says of the rows is what the property says of them.
LEMMA TightSpans == ASSUME TypeInv, SpanInv PROVE SpansAreTight
  <1> SUFFICES ASSUME NEW i \in Rows
               PROVE  /\ \A t \in Times(db[i]) : t >= db[i].startedAt
                      /\ db[i].endedAt # NotEnded =>
                             /\ \A t \in Times(db[i]) : t <= db[i].endedAt
                             /\ db[i].duration = db[i].endedAt - db[i].startedAt
                             /\ \A j \in Rows : j > i => db[j].startedAt >= db[i].endedAt
                      /\ db[i].reason = "telemetry_timeout" => now - db[i].endedAt >= EndTimeout
    BY DEF SpansAreTight
  <1>1. Tight(i)
    BY DEF SpanInv
  <1>2. i \in 1..Len(db)
    BY RowsInHistory
  <1>3. ASSUME NEW t \in Times(db[i])
        PROVE  t >= db[i].startedAt /\ (db[i].endedAt # NotEnded => t <= db[i].endedAt)
    <2>1. PICK m \in 1..Len(db[i].samples) : t = db[i].samples[m].at
      BY DEF Times
    <2> QED
      BY <1>1, <1>2, <2>1, RowFields DEF Tight
  <1> QED
    BY <1>1, <1>3 DEF Tight

\* The empty history has no span.
LEMMA SpanInit == Init => SpanInv
  BY InitialLocalsType DEF Init, SpanInv, Rows

\* Time that passes and updates that arrive keep what is written tight.
LEMMA SpanSame ==
    ASSUME TypeInv, SpanInv, UNCHANGED <<db, base>>,
           loc'.session = loc.session, loc'.startedAt = loc.startedAt,
           loc'.lastSeen \in Nat, loc'.lastSeen >= loc.lastSeen,
           now' \in Nat, now' >= now,
           pc' = "endTimeout" => now' - loc'.lastSeen >= EndTimeout
    PROVE  SpanInv'
  <1> USE RecorderAssumption
  <1>1. /\ Rows' = Rows /\ Rows \subseteq 1..Len(db) /\ loc.lastSeen \in Nat /\ now \in Nat
    BY RowsInHistory DEF Rows
  <1>2. ASSUME NEW i \in Rows PROVE Tight(i)'
    <2>1. Tight(i)
      BY DEF SpanInv
    <2>2. /\ db[i].startedAt \in Nat /\ db[i].endedAt \in Nat
          /\ \A m \in 1..Len(db[i].samples) : db[i].samples[m].at \in Nat
      BY <1>1, RowFields
    <2>3. db[i].startedAt <= loc'.lastSeen /\ db[i].endedAt <= loc'.lastSeen
      BY <1>1, <2>1, <2>2 DEF Tight
    <2>4. ASSUME NEW m \in 1..Len(db[i].samples)
          PROVE  /\ db[i].startedAt <= db[i].samples[m].at
                 /\ db[i].samples[m].at <= loc'.lastSeen
                 /\ db[i].endedAt # NotEnded => db[i].samples[m].at <= db[i].endedAt
      BY <1>1, <2>1, <2>2 DEF Tight
    <2>5. db[i].reason = "telemetry_timeout" => now' - db[i].endedAt >= EndTimeout
      BY <1>1, <2>1, <2>2 DEF Tight
    <2> QED
      BY <1>1, <2>1, <2>3, <2>4, <2>5 DEF Tight
  <1>3. loc.session # NoSession =>
            /\ db[loc.session].startedAt = loc'.startedAt
            /\ db[loc.session].startedAt + db[loc.session].duration <= loc'.lastSeen
    <2> SUFFICES ASSUME loc.session # NoSession
                 PROVE  /\ db[loc.session].startedAt = loc'.startedAt
                        /\ db[loc.session].startedAt + db[loc.session].duration <= loc'.lastSeen
      OBVIOUS
    <2>1. db[loc.session].startedAt \in Nat /\ db[loc.session].duration \in Nat
      BY OpenRow, RowFields
    <2> QED
      BY <1>1, <2>1 DEF SpanInv
  <1> QED
    BY <1>1, <1>2, <1>3 DEF SpanInv

\* The session in hand ends at its last update, and spans what it spans.
LEMMA SpanEnds ==
    ASSUME TypeInv, OpenInv, SpanInv, NEW why \in Reasons, Ends(why)
    PROVE  SpanInv'
  <1> USE RecorderAssumption
  <1>0. PICK s \in Nat : s = loc.session
    BY DEF TypeInv, TypeOK, Locals
  <1>1. /\ Rows' = Rows /\ Rows \subseteq 1..Len(db) /\ s \in Rows /\ s # NoSession
        /\ loc.lastSeen \in Nat /\ now \in Nat /\ loc.startedAt \in Nat
        /\ \A i \in Rows : i \in Nat /\ i <= s
    BY <1>0, EndedRows, RowsInHistory DEF Rows, OpenInv, Ends
  <1>2. /\ \A j \in Rows : /\ j # s => db'[j] = db[j]
                           /\ db'[j].samples = db[j].samples
                           /\ db'[j].startedAt = db[j].startedAt
        /\ db'[s].endedAt = loc.lastSeen /\ db'[s].reason = why
        /\ db'[s].duration = Larger(db[s].duration, AtLeast0(loc.lastSeen - loc.startedAt))
    BY <1>0, <1>1, EndedRows
  <1>3. /\ loc'.session \in {NoSession, s} /\ loc'.startedAt = loc.startedAt
        /\ loc'.lastSeen = loc.lastSeen /\ now' = now /\ pc' # "endTimeout"
        /\ why = "telemetry_timeout" => now - loc.lastSeen >= EndTimeout
    BY <1>0 DEF Ends, SpanInv
  <1>4. /\ db[s].startedAt \in Nat /\ db[s].duration \in Nat /\ db[s].startedAt = loc.startedAt
        /\ db[s].startedAt + db[s].duration <= loc.lastSeen
    BY <1>0, <1>1, RowFields DEF SpanInv
  <1>5. db'[s].duration = loc.lastSeen - db[s].startedAt
    BY <1>1, <1>2, <1>4 DEF Larger, AtLeast0
  <1>6. Tight(s)'
    <2>1. Tight(s)
      BY <1>0, <1>1 DEF SpanInv
    <2>2. \A j \in Rows : ~(j > s)
      BY <1>1
    <2>3. db[s].startedAt <= loc.lastSeen
      BY <2>1 DEF Tight
    <2>4. \A m \in 1..Len(db[s].samples) :
              db[s].startedAt <= db[s].samples[m].at /\ db[s].samples[m].at <= loc.lastSeen
      BY <2>1 DEF Tight
    <2>5. db'[s].samples = db[s].samples /\ db'[s].startedAt = db[s].startedAt
      BY <1>1, <1>2
    <2> QED
      BY <1>1, <1>2, <1>3, <1>5, <2>2, <2>3, <2>4, <2>5 DEF Tight
  <1>7. ASSUME NEW i \in Rows, i # s PROVE Tight(i)'
    <2>1. Tight(i)
      BY DEF SpanInv
    <2>2. db'[i] = db[i]
      BY <1>2, <1>7
    <2> QED
      BY <1>1, <1>2, <1>3, <2>1, <2>2 DEF Tight
  <1>8. loc'.session # NoSession =>
            /\ db'[loc'.session].startedAt = loc'.startedAt
            /\ db'[loc'.session].startedAt + db'[loc'.session].duration <= loc'.lastSeen
    BY <1>1, <1>2, <1>3, <1>4, <1>5
  <1> QED
    BY <1>1, <1>3, <1>6, <1>7, <1>8 DEF SpanInv

\* A new session starts where the history ends.
LEMMA SpanStarts ==
    ASSUME TypeInv, FlowInv, SpanInv, StartSession
    PROVE  SpanInv'
  <1>0. PICK n \in Nat : n = Len(db) + 1
    BY RowsInHistory
  <1>1. /\ Rows' \subseteq Rows \cup {n} /\ Rows \subseteq 1..Len(db) /\ n \in Nat /\ n # NoSession
        /\ \A j \in Rows' : ~(j > n)
        /\ loc.lastSeen \in Nat
    BY <1>0, StartFacts, RowsInHistory DEF Rows, NoSession
  <1>2. /\ \A j \in Rows : db'[j] = db[j]
        /\ db'[n].startedAt = loc.lastSeen /\ db'[n].endedAt = NotEnded /\ db'[n].duration = 0
        /\ db'[n].reason = "none" /\ 1..Len(db'[n].samples) = {}
        /\ loc'.session = n /\ loc'.startedAt = loc.lastSeen /\ loc'.lastSeen = loc.lastSeen
        /\ now' = now /\ pc' # "endTimeout"
    <2>1. pc' # "endTimeout"
      BY DEF StartSession
    <2> QED
      BY <1>0, <1>1, <2>1, StartFacts
  <1>3. Tight(n)'
    BY <1>1, <1>2 DEF Tight, NotEnded
  <1>4. ASSUME NEW i \in Rows PROVE Tight(i)'
    <2>1. Tight(i)
      BY DEF SpanInv
    <2>2. db'[i] = db[i] /\ db[i].endedAt <= loc.lastSeen
      BY <1>2, <2>1 DEF Tight
    <2>3. db[i].endedAt # NotEnded =>
              \A j \in Rows' : j > i => db'[j].startedAt >= db[i].endedAt
      <3> SUFFICES ASSUME db[i].endedAt # NotEnded, NEW j \in Rows', j > i
                   PROVE  db'[j].startedAt >= db[i].endedAt
        OBVIOUS
      <3>1. CASE j = n
        <4>1. db[i].endedAt \in Nat
          BY <1>1, RowFields
        <4> QED
          BY <1>1, <1>2, <2>2, <3>1, <4>1
      <3>2. CASE j \in Rows
        BY <1>2, <2>1, <3>2 DEF Tight
      <3> QED
        BY <1>1, <3>1, <3>2
    <2> QED
      BY <1>2, <2>1, <2>2, <2>3 DEF Tight
  <1> QED
    BY <1>1, <1>2, <1>3, <1>4 DEF SpanInv

\* A new sample lies at the end of the session in hand.
LEMMA SpanSamples ==
    ASSUME TypeInv, FlowInv, OpenInv, LiveInv, SpanInv, AddSample
    PROVE  SpanInv'
  <1>0. PICK s \in Nat, n \in Nat : s = loc.session /\ n = Len(db[s].samples)
    BY SampleFacts, RowFields DEF TypeInv, TypeOK, Locals
  <1>1. /\ Rows' = Rows /\ Rows \subseteq 1..Len(db) /\ s \in Rows /\ s # NoSession
        /\ loc.lastSeen \in Nat /\ loc.startedAt \in Nat /\ n \in Nat
        /\ db[s].startedAt \in Nat /\ db[s].duration \in Nat
    <2>1. s \in 1..Len(db) /\ s # NoSession /\ Len(db') = Len(db) /\ base' = base
      BY <1>0, SampleFacts
    <2>2. /\ Rows \subseteq 1..Len(db) /\ Len(db) \in Nat /\ base \in Nat
          /\ loc.lastSeen \in Nat /\ loc.startedAt \in Nat
      BY RowsInHistory
    <2>3. s = Len(db) /\ s > base
      BY <1>0, <2>1 DEF OpenInv
    <2>4. Rows' = Rows /\ s \in Rows
      BY <2>1, <2>2, <2>3 DEF Rows
    <2>5. db[s].startedAt \in Nat /\ db[s].duration \in Nat
      BY <2>1, RowFields
    <2> QED
      BY <2>1, <2>2, <2>4, <2>5
  <1>2. /\ \A j \in Rows : /\ j # s => db'[j] = db[j]
                           /\ db'[j].startedAt = db[j].startedAt
                           /\ db'[j].endedAt = db[j].endedAt
                           /\ db'[j].reason = db[j].reason
        /\ db'[s].duration = Larger(db[s].duration, AtLeast0(loc.lastSeen - loc.startedAt))
    BY <1>0, <1>1, SampleFacts
  <1>3. /\ Len(db'[s].samples) = n + 1
        /\ \A m \in 1..n : db'[s].samples[m] = db[s].samples[m]
        /\ db'[s].samples[n + 1].at = loc.lastSeen
    BY <1>0, SampleFacts
  <1>4. /\ loc'.session = s /\ loc'.startedAt = loc.startedAt /\ loc'.lastSeen = loc.lastSeen
        /\ now' = now /\ pc = "sample" /\ pc' = "addCount"
    BY <1>0, SampleFacts
  <1>5. db[s].endedAt = NotEnded
    BY <1>0, <1>1, <1>4 DEF LiveInv
  <1>6. db[s].startedAt = loc.startedAt /\ db[s].startedAt + db[s].duration <= loc.lastSeen
    BY <1>0, <1>1 DEF SpanInv
  <1>7. db'[s].startedAt + db'[s].duration <= loc.lastSeen
    BY <1>1, <1>2, <1>6 DEF Larger, AtLeast0
  <1>8. Tight(s)'
    <2>1. Tight(s)
      BY <1>0, <1>1 DEF SpanInv
    <2>2. ASSUME NEW m \in 1..Len(db'[s].samples)
          PROVE  /\ db[s].startedAt <= db'[s].samples[m].at
                 /\ db'[s].samples[m].at <= loc.lastSeen
      <3>1. m \in 1..(n + 1)
        BY <1>3
      <3>2. CASE m = n + 1
        BY <1>1, <1>3, <2>1, <3>2 DEF Tight
      <3>3. CASE m \in 1..n
        BY <1>0, <1>3, <2>1, <3>3 DEF Tight
      <3> QED
        BY <1>1, <3>1, <3>2, <3>3
    <2>3. db'[s].startedAt = db[s].startedAt /\ db'[s].endedAt = NotEnded
          /\ db'[s].reason = db[s].reason /\ db[s].startedAt <= loc.lastSeen
      BY <1>1, <1>2, <1>5, <2>1 DEF Tight
    <2>4. db'[s].reason = "telemetry_timeout" => now - db'[s].endedAt >= EndTimeout
      BY <1>5, <2>1, <2>3 DEF Tight
    <2> QED
      BY <1>1, <1>4, <2>2, <2>3, <2>4 DEF Tight, NotEnded
  <1>9. ASSUME NEW i \in Rows, i # s PROVE Tight(i)'
    <2>1. Tight(i)
      BY DEF SpanInv
    <2>2. db'[i] = db[i]
      BY <1>2, <1>9
    <2> QED
      BY <1>1, <1>2, <1>4, <2>1, <2>2 DEF Tight
  <1> QED
    BY <1>1, <1>2, <1>4, <1>6, <1>7, <1>8, <1>9 DEF SpanInv

\* Every step of the recorder, the loop and the clock keeps the spans tight.
LEMMA SpanStep ==
    TypeInv /\ FlowInv /\ OpenInv /\ LiveInv /\ SpanInv /\ [Next]_vars => SpanInv'
  <1> SUFFICES ASSUME TypeInv, FlowInv, OpenInv, LiveInv, SpanInv, [Next]_vars
               PROVE  SpanInv'
    OBVIOUS
  <1>a. loc.lastSeen \in Nat /\ now \in Nat /\ now' \in Nat
    <2>1. TypeInv'
      BY TypeStep
    <2> QED
      BY <2>1, RowsInHistory DEF TypeInv, TypeOK, Instant
  <1>1. CASE Keeps
    <2>1. pc' = "endTimeout" => now' - loc.lastSeen >= EndTimeout
      BY <1>a, <1>1, RecorderAssumption DEF Keeps, SpanInv, TimedOut
    <2> QED
      BY <1>a, <1>1, <2>1, SpanSame DEF Keeps
  <1>2. CASE TakePacket
    BY <1>a, <1>2, SpanSame, PacketFacts
  <1>3. CASE EndOnCarChange \/ EndOnTimeout \/ EndOnShutdown
    BY <1>3, EndCases, SpanEnds
  <1>4. CASE StartSession
    BY <1>4, SpanStarts
  <1>5. CASE AddSample
    BY <1>5, SpanSamples
  <1>6. CASE Restart
    <2>1. Rows' = {} /\ loc'.session = NoSession /\ pc' # "endTimeout"
      BY <1>6, RowsInHistory, InitialLocalsType DEF Restart, Rows
    <2> QED
      BY <2>1 DEF SpanInv
  <1> QED
    BY <1>1, <1>2, <1>3, <1>4, <1>5, <1>6, DataCases

\* Every ended session covers exactly its packets, sessions of a process do not
\* overlap, and a timeout closes one only after a real silence.
THEOREM SpansAlwaysTight == Spec => []SpansAreTight
  <1>1. Init => TypeInv /\ FlowInv /\ OpenInv /\ LiveInv /\ SpanInv
    BY TypeInit, FlowInit, OpenInit, LiveInit, SpanInit
  <1>2. TypeInv /\ FlowInv /\ OpenInv /\ LiveInv /\ SpanInv /\ [Next]_vars
        => (TypeInv /\ FlowInv /\ OpenInv /\ LiveInv /\ SpanInv)'
    BY TypeStep, FlowTypesHold, FlowStep, OpenStep, LiveStep, SpanStep
  <1>3. TypeInv /\ SpanInv => SpansAreTight
    BY TightSpans
  <1> QED
    BY <1>1, <1>2, <1>3, PTL DEF Spec

----------------------------------------------------------------------------
(* The status follows what is committed.                                   *)

\* The status counts nothing at the start.
LEMMA CountInit == Init => CountInv
  BY InitialLocalsType DEF Init, CountInv, StatusFollows

\* Every step keeps what the status shows and the live row together.
LEMMA CountStep ==
    TypeInv /\ FlowInv /\ OpenInv /\ LiveInv /\ CountInv /\ [Next]_vars => CountInv'
  <1> SUFFICES ASSUME TypeInv, FlowInv, OpenInv, LiveInv, CountInv, [Next]_vars
               PROVE  CountInv'
    OBVIOUS
  <1>a. /\ Len(db) \in Nat /\ base \in Nat /\ loc \in Locals /\ sampleCount \in Nat
        /\ Rows \subseteq 1..Len(db)
        /\ loc.session # NoSession => loc.session \in Rows
    BY RowsInHistory, OpenRow DEF TypeInv, TypeOK, OpenInv, Rows
  <1> USE DEF clock, mailbox, thread, status, history
  <1>1. CASE Tick
    BY <1>1 DEF Tick, CountInv, StatusFollows, Rows
  <1>2. CASE ReceivePacket
    BY <1>2 DEF ReceivePacket, CountInv, StatusFollows, Rows
  <1>3. CASE Start
    BY <1>a, <1>3 DEF Start, CountInv, StatusFollows, TypeInv, WorkInv, Rows
  <1>4. CASE Observe
    BY <1>4 DEF Observe, CountInv, StatusFollows, Rows
  <1>5. CASE Stop
    BY <1>5 DEF Stop, CountInv, StatusFollows, Rows
  <1>6. CASE Evict
    BY <1>6 DEF Evict, CountInv, StatusFollows, Rows
  <1>7. CASE Reput
    BY <1>7 DEF Reput, CountInv, StatusFollows, Rows
  <1>8. CASE CountDropped
    BY <1>8 DEF CountDropped, CountInv, StatusFollows, Rows
  <1>9. CASE StopPut
    BY <1>9 DEF StopPut, CountInv, StatusFollows, Rows
  <1>10. CASE StopEvict
    BY <1>10 DEF StopEvict, CountInv, StatusFollows, Rows
  <1>11. CASE Joined
    BY <1>11 DEF Joined, CountInv, StatusFollows, Rows
  <1>12. CASE Open
    BY <1>a, <1>12 DEF Open, CountInv, StatusFollows, TypeInv, WorkInv, Rows
  <1>13. CASE OpenFails
    BY <1>13 DEF OpenFails, CountInv, StatusFollows, Rows
  <1>14. CASE TakePill
    BY <1>a, <1>14 DEF TakePill, CountInv, StatusFollows, TypeInv, WorkInv, Rows
  <1>15. CASE TakePacket
    <2>1. /\ loc'.session = loc.session /\ pc = "get"
          /\ pc' \in {"endCar", "start", "sample", "get"}
          /\ pc' \in {"endCar", "sample"} => loc.session # NoSession
      BY <1>a, <1>15 DEF TakePacket, CarChanged, Locals
    <2>2. UNCHANGED <<db, base, active, sampleCount>>
      BY <1>15 DEF TakePacket
    <2> QED
      BY <2>1, <2>2 DEF CountInv, StatusFollows, Rows
  <1>16. CASE TakeStale
    BY <1>a, <1>16 DEF TakeStale, CountInv, StatusFollows, TypeInv, WorkInv, Rows, TimedOut
  <1>17. CASE PollEmpty
    BY <1>a, <1>17 DEF PollEmpty, CountInv, StatusFollows, TypeInv, WorkInv, Rows, TimedOut
  <1>18. CASE EndOnCarChange
    <2>1. PICK why \in Reasons : Ends(why)
      BY <1>18, EndCases
    <2>2. Rows' = Rows /\ \A j \in Rows : db'[j].samples = db[j].samples
      BY <1>a, <2>1, EndedRows DEF Rows, Ends
    <2>3. UNCHANGED <<active, sampleCount>> /\ pc' \in {"start", "clear", "close"}
      BY <1>18 DEF EndOnCarChange
    <2> QED
      BY <2>2, <2>3 DEF CountInv, StatusFollows
  <1>19. CASE StartSession
    <2>1. /\ Len(db') = Len(db) + 1 /\ \A j \in Rows : db'[j] = db[j]
          /\ db'[Len(db) + 1].samples = <<>> /\ loc'.session = Len(db) + 1
      BY <1>a, <1>19, StartFacts
    <2>2. /\ UNCHANGED <<base, active, sampleCount>> /\ pc' = "activate"
      BY <1>19 DEF StartSession
    <2>3. Rows \subseteq Rows'
      BY <1>a, <2>1, <2>2 DEF Rows
    <2>4. (active # NoSession => active \in Rows /\ sampleCount <= Len(db[active].samples))'
      BY <2>1, <2>2, <2>3 DEF CountInv, StatusFollows
    <2> QED
      BY <2>1, <2>2, <2>4 DEF CountInv, StatusFollows
  <1>20. CASE SetActive
    <2>1. loc.session # NoSession /\ db[loc.session].endedAt = NotEnded
      BY <1>20 DEF SetActive, TypeInv, WorkInv, LiveInv
    <2>2. Len(db[loc.session].samples) = 0
      BY <1>20 DEF SetActive, CountInv
    <2> QED
      BY <1>a, <1>20, <2>1, <2>2 DEF SetActive, CountInv, StatusFollows, Rows
  <1>21. CASE AddSample
    <2>1. /\ loc.session \in Rows /\ active = loc.session
          /\ sampleCount = Len(db[loc.session].samples)
      BY <1>a, <1>21, SampleFacts DEF CountInv
    <2>2. /\ Rows' = Rows /\ loc'.session = loc.session
          /\ Len(db'[loc.session].samples) = Len(db[loc.session].samples) + 1
      BY <1>21, SampleFacts DEF Rows
    <2>3. UNCHANGED <<active, sampleCount>> /\ pc' = "addCount"
      BY <1>21 DEF AddSample
    <2> QED
      BY <1>a, <2>1, <2>2, <2>3 DEF CountInv, StatusFollows
  <1>22. CASE CountSample
    <2>1. loc.session # NoSession /\ db[loc.session].endedAt = NotEnded
      BY <1>22 DEF CountSample, TypeInv, WorkInv, LiveInv
    <2> QED
      BY <1>a, <1>22, <2>1 DEF CountSample, CountInv, StatusFollows, Rows
  <1>23. CASE EndOnTimeout
    <2>1. PICK why \in Reasons : Ends(why)
      BY <1>23, EndCases
    <2>2. Rows' = Rows /\ \A j \in Rows : db'[j].samples = db[j].samples
      BY <1>a, <2>1, EndedRows DEF Rows, Ends
    <2>3. UNCHANGED <<active, sampleCount>> /\ pc' \in {"start", "clear", "close"}
      BY <1>23 DEF EndOnTimeout
    <2> QED
      BY <2>2, <2>3 DEF CountInv, StatusFollows
  <1>24. CASE ClearActive
    BY <1>a, <1>24 DEF ClearActive, CountInv, StatusFollows, TypeInv, WorkInv, Rows
  <1>25. CASE EndOnShutdown
    <2>1. PICK why \in Reasons : Ends(why)
      BY <1>25, EndCases
    <2>2. Rows' = Rows /\ \A j \in Rows : db'[j].samples = db[j].samples
      BY <1>a, <2>1, EndedRows DEF Rows, Ends
    <2>3. UNCHANGED <<active, sampleCount>> /\ pc' \in {"start", "clear", "close"}
      BY <1>25 DEF EndOnShutdown
    <2> QED
      BY <2>2, <2>3 DEF CountInv, StatusFollows
  <1>26. CASE WriterFails
    BY <1>26 DEF WriterFails, CountInv, StatusFollows, Rows
  <1>27. CASE CloseWriter
    BY <1>a, <1>27 DEF CloseWriter, CountInv, StatusFollows, TypeInv, WorkInv, Rows
  <1>28. CASE Restart
    BY <1>28, InitialLocalsType DEF Restart, CountInv, StatusFollows
  <1>29. CASE UNCHANGED vars
    BY <1>29 DEF vars, CountInv, StatusFollows, Rows
  <1> QED
    BY <1>1, <1>2, <1>3, <1>4, <1>5, <1>6, <1>7, <1>8, <1>9, <1>10, <1>11, <1>12, <1>13, <1>14, <1>15, <1>16, <1>17, <1>18, <1>19, <1>20, <1>21, <1>22, <1>23, <1>24, <1>25, <1>26, <1>27, <1>28, <1>29, NextCases

\* What the pages are told is never ahead of what is committed, and exact whenever
\* the writer thread waits for the next update.
THEOREM StatusAlwaysFollows == Spec => []StatusFollows
  <1>1. Init => TypeInv /\ FlowInv /\ OpenInv /\ LiveInv /\ CountInv
    BY TypeInit, FlowInit, OpenInit, LiveInit, CountInit
  <1>2. TypeInv /\ FlowInv /\ OpenInv /\ LiveInv /\ CountInv /\ [Next]_vars
        => (TypeInv /\ FlowInv /\ OpenInv /\ LiveInv /\ CountInv)'
    BY TypeStep, FlowTypesHold, FlowStep, OpenStep, LiveStep, CountStep
  <1>3. CountInv => StatusFollows
    BY DEF CountInv
  <1> QED
    BY <1>1, <1>2, <1>3, PTL DEF Spec

----------------------------------------------------------------------------
(* The recorder keeps the promises of SessionStore.                        *)

\* What the refinement needs of a state of the recorder.
StoreInv == TypeInv /\ FlowInv /\ OpenInv /\ LiveInv /\ PairwiseInv /\ SpanInv

\* The recorder starts with an empty store.
LEMMA StoreInitHolds == Init => Store!StoreInit
  BY InitialLocalsType DEF Init, Store!StoreInit, Live, NoSession

\* StartSession opens a session.
LEMMA StoreOpens ==
    ASSUME StoreInv, StartSession
    PROVE  Store!OpenSession
  <1>1. /\ loc.session = NoSession /\ loc'.session = Len(db) + 1 /\ Len(db) \in Nat
        /\ Len(db') = Len(db) + 1
        /\ \A j \in 1..Len(db) : db'[j] = db[j]
        /\ db'[Len(db) + 1] = NewRow(ev)
        /\ NewRow(ev).samples = <<>> /\ NewRow(ev).endedAt = NotEnded
        /\ NewRow(ev).duration = 0 /\ NewRow(ev).reason = "none"
    BY StartFacts, RowsInHistory DEF StoreInv
  <1>2. pc' = "activate"
    BY DEF StartSession
  <1>3. Live = 0 /\ Live' = Len(db) + 1
    BY <1>1, <1>2 DEF Live, NoSession
  <1> QED
    BY <1>1, <1>3 DEF Store!OpenSession, Store!Fresh, Store!Unfinished, Store!NotEnded, NotEnded

\* AddSample extends the live session by a newer packet.
LEMMA StoreAppends ==
    ASSUME StoreInv, AddSample
    PROVE  Store!AppendSample
  <1> USE DEF StoreInv
  <1>0. PICK s \in Nat, n \in Nat : s = loc.session /\ n = Len(db[s].samples)
    BY SampleFacts, RowFields DEF TypeInv, TypeOK, Locals
  <1>1. /\ s # NoSession /\ s \in 1..Len(db) /\ s \in Rows /\ Len(db') = Len(db)
        /\ \A j \in 1..Len(db) : j # s => db'[j] = db[j]
        /\ db'[s].startedAt = db[s].startedAt /\ db'[s].endedAt = db[s].endedAt
        /\ db'[s].car = db[s].car
        /\ loc'.session = s /\ pc = "sample" /\ pc' = "addCount"
    <2>1. /\ s # NoSession /\ s \in 1..Len(db) /\ Len(db') = Len(db)
          /\ \A j \in 1..Len(db) : j # s => db'[j] = db[j]
          /\ loc'.session = s /\ pc = "sample" /\ pc' = "addCount"
      BY <1>0, SampleFacts
    <2>2. /\ db'[s].startedAt = db[s].startedAt /\ db'[s].endedAt = db[s].endedAt
          /\ db'[s].car = db[s].car
      BY <2>1, SampleFacts
    <2>3. s = Len(db) /\ s > base /\ base \in Nat /\ Len(db) \in Nat
      BY <1>0, <2>1, RowsInHistory DEF OpenInv
    <2>4. s \in Rows
      BY <2>1, <2>3 DEF Rows
    <2> QED
      BY <2>1, <2>2, <2>4
  <1>2. /\ Len(db'[s].samples) = n + 1
        /\ \A m \in 1..n : db'[s].samples[m] = db[s].samples[m]
        /\ db'[s].samples[n + 1].rev = loc.lastObserved
        /\ db'[s].samples[n + 1].at = loc.lastSeen
    BY <1>0, SampleFacts
  <1>3. db[s].endedAt = NotEnded
    BY <1>0, <1>1 DEF LiveInv
  <1>4. Live = s /\ Live' = s
    BY <1>0, <1>1, <1>3 DEF Live
  <1>5. n > 0 => /\ db[s].samples[n].rev < loc.lastObserved
                 /\ db[s].samples[n].at <= loc.lastSeen
    <2> SUFFICES ASSUME n > 0
                 PROVE  /\ db[s].samples[n].rev < loc.lastObserved
                        /\ db[s].samples[n].at <= loc.lastSeen
      OBVIOUS
    <2>1. n \in 1..Len(db[s].samples) /\ Tight(s)
      BY <1>0, <1>1 DEF SpanInv
    <2> QED
      BY <1>1, <2>1 DEF PairwiseInv, Tight, Working
  <1>6. n = 0 \/ (db[s].samples[n].rev \in Nat /\ db[s].samples[n].at \in Nat)
    BY <1>0, <1>1, RowFields
  <1>7. Store!ExtendsByOne(db[s].samples, db'[s].samples)
    <2>1. loc.lastObserved \in Int /\ loc.lastSeen \in Nat
      BY RowsInHistory
    <2> QED
      BY <1>0, <1>2, <1>5, <1>6, <2>1 DEF Store!ExtendsByOne
  <1>8. Store!OnlyRowChanges(s)
    BY <1>1 DEF Store!OnlyRowChanges
  <1>9. Store!Unfinished(db'[s])
    BY <1>1, <1>3 DEF Store!Unfinished, Store!NotEnded, NotEnded
  <1> QED
    BY <1>1, <1>4, <1>7, <1>8, <1>9 DEF Store!AppendSample, NoSession

\* Every end of a session closes the live session.
LEMMA StoreCloses ==
    ASSUME StoreInv, NEW why \in Reasons, Ends(why)
    PROVE  Store!CloseSession
  <1> USE DEF StoreInv
  <1>0. PICK s \in Nat : s = loc.session
    BY DEF TypeInv, TypeOK, Locals
  <1>a. /\ s # NoSession /\ s \in 1..Len(db) /\ s \in Rows /\ loc.lastSeen > 0
    BY <1>0, EndedRows, RowsInHistory DEF Rows, OpenInv, Ends
  <1>b. Rows' = Rows /\ Len(db') = Len(db)
    BY EndedRows DEF Rows, Ends
  <1>1. /\ s # NoSession /\ s \in 1..Len(db) /\ s \in Rows /\ Rows' = Rows /\ Len(db') = Len(db)
        /\ \A j \in 1..Len(db) : j # s => db'[j] = db[j]
        /\ db'[s].samples = db[s].samples /\ db'[s].startedAt = db[s].startedAt
        /\ db'[s].car = db[s].car /\ db'[s].endedAt = loc.lastSeen
        /\ loc.lastSeen \in Nat /\ loc.lastSeen > 0
    BY <1>0, <1>a, <1>b, EndedRows, RowsInHistory
  <1>2. db'[s].endedAt # NotEnded
    BY <1>1 DEF NotEnded
  <1>3. Tight(s)'
    BY <1>1, SpanEnds DEF SpanInv
  <1>4. /\ db'[s].duration = db'[s].endedAt - db'[s].startedAt
        /\ \A m \in 1..Len(db'[s].samples) : db'[s].samples[m].at <= db'[s].endedAt
    BY <1>2, <1>3 DEF Tight
  <1>5. db[s].endedAt = NotEnded /\ pc \notin {"off", "dead"}
    BY <1>0, <1>1 DEF LiveInv, Ends
  <1>6. Live = s
    BY <1>0, <1>1, <1>5 DEF Live
  <1>7. Live' = 0
    BY <1>0, <1>2 DEF Live, Ends, NoSession
  <1>8. Store!OnlyRowChanges(s)
    BY <1>1 DEF Store!OnlyRowChanges
  <1>9. ~Store!Unfinished(db'[s])
    BY <1>2 DEF Store!Unfinished, Store!NotEnded, NotEnded
  <1> QED
    BY <1>1, <1>4, <1>6, <1>7, <1>8, <1>9 DEF Store!CloseSession, NoSession

\* Every step of the recorder is a step of the store or changes nothing that its
\* readers see; a session is abandoned only by a failed or a dead process.
LEMMA StoreStep == StoreInv /\ [Next]_vars => [Store!StoreNext]_(Store!storeVars)
  <1> SUFFICES ASSUME StoreInv, [Next]_vars
               PROVE  Store!StoreNext \/ UNCHANGED Store!storeVars
    OBVIOUS
  <1> USE DEF StoreInv
  <1>0. ASSUME db' = db, Live' = Live \/ Live' = 0
        PROVE  Store!StoreNext \/ UNCHANGED Store!storeVars
    BY <1>0 DEF Store!StoreNext, Store!Abandon, Store!storeVars
  <1>1. CASE Keeps
    <2>1. Live' = Live \/ Live' = 0
      BY <1>1 DEF Keeps, Live, NoSession, TypeInv, WorkInv
    <2> QED
      BY <1>0, <1>1, <2>1 DEF Keeps
  <1>2. CASE TakePacket
    <2>1. db' = db /\ loc'.session = loc.session /\ pc = "get"
      BY <1>2, PacketFacts
    <2>2. pc' \notin {"off", "dead"}
      BY <1>2 DEF TakePacket
    <2> QED
      BY <1>0, <2>1, <2>2 DEF Live
  <1>3. CASE EndOnCarChange \/ EndOnTimeout \/ EndOnShutdown
    BY <1>3, EndCases, StoreCloses DEF Store!StoreNext
  <1>4. CASE StartSession
    BY <1>4, StoreOpens DEF Store!StoreNext
  <1>5. CASE AddSample
    BY <1>5, StoreAppends DEF Store!StoreNext
  <1>6. CASE Restart
    BY <1>0, <1>6 DEF Restart, Live, NoSession
  <1> QED
    BY <1>1, <1>2, <1>3, <1>4, <1>5, <1>6, DataCases

\* The recorder implements the session history that its readers rely on.
THEOREM RecorderImplementsStore == Spec => ImplementsStore
  <1>1. Init => StoreInv
    BY TypeInit, FlowInit, OpenInit, LiveInit, RecordInit, SpanInit DEF StoreInv
  <1>2. StoreInv /\ [Next]_vars => StoreInv'
    BY TypeStep, FlowTypesHold, FlowStep, OpenStep, LiveStep, RecordStep, SpanStep DEF StoreInv
  <1> QED
    BY <1>1, <1>2, StoreInitHolds, StoreStep, PTL DEF Spec, ImplementsStore, Store!StoreSpec

=============================================================================
