------------------------ MODULE TelemetryStateProofs ------------------------
(***************************************************************************)
(* Theorems about TelemetryState for any timeout, window, senders and      *)
(* plausible packet: what a snapshot shows of the datagrams that came.     *)
(***************************************************************************)
EXTENDS TelemetryState, SequenceTheorems, FiniteSetTheorems, WellFoundedInduction, TLAPS

----------------------------------------------------------------------------
(* Types.                                                                  *)

Faults == UNION {{d.fault : d \in s.datagrams} : s \in Senders}
Datagram == [number : Nat, at : Nat, size : Nat, fault : Faults]

\* The types the invariants depend on; the listener and what is shown need none.
TypeInv ==
    /\ sender \in Senders /\ now \in Nat
    /\ received \in Seq(Datagram)
    /\ recent \in Seq(Nat)
    /\ counts \in [total : Nat, unknown : Nat, valid : Nat]
    /\ revision \in Nat /\ rows.revision \in Int

\* None is no datagram, and a datagram has finitely many damaged fields.
LEMMA DatagramFacts ==
    /\ Missing \notin Datagram
    /\ \A d \in Datagram : d.at \in Nat /\ IsFiniteSet(DOMAIN d.fault)
  <1>1. Missing \notin Datagram
    BY StateAssumption DEF Datagram, Faults
  <1>2. \A f \in Faults : IsFiniteSet(DOMAIN f)
    BY StateAssumption DEF Faults
  <1> QED
    BY <1>1, <1>2 DEF Datagram

\* The length of the history, and what is in it.
LEMMA HistoryFacts ==
    ASSUME TypeInv
    PROVE  /\ Len(received) \in Nat /\ Len(recent) \in Nat
           /\ \A i \in 1..Len(received) : received[i] \in Datagram /\ received[i].at \in Nat
           /\ \A i \in 1..Len(recent) : recent[i] \in Nat
  BY DatagramFacts, LenProperties, ElementOfSeq DEF TypeInv

\* A set of naturals that is not empty has a least element.
LEMMA LeastNatural ==
    ASSUME NEW S, S \subseteq Nat, S # {}
    PROVE  Min(S) \in S /\ \A y \in S : Min(S) <= y
  <1> DEFINE Below == OpToRel(<, Nat)
  <1>1. IsWellFoundedOn(Below, Nat)
    BY NatLessThanWellFounded
  <1>2. \A y \in Nat : \A x \in Nat : y < x => <<y, x>> \in Below
    BY DEF OpToRel
  <1> HIDE DEF Below
  <1>3. \A T : T \subseteq Nat /\ T # {} => \E x \in T : \A y \in T : ~(<<y, x>> \in Below)
    BY ONLY <1>1, WFMin, Zenon
  <1>4. PICK x \in S : \A y \in S : ~(<<y, x>> \in Below)
    BY <1>3, Zenon
  <1>5. ASSUME NEW y \in S PROVE x <= y
    <2>1. x \in Nat /\ y \in Nat
      OBVIOUS
    <2>2. ~(y < x)
      BY <1>2, <1>4, <2>1, Zenon
    <2> QED
      BY <2>1, <2>2
  <1> QED
    BY <1>5 DEF Min

----------------------------------------------------------------------------
(* The invariants.                                                         *)

\* The arrivals come in the order of the clock.
ClockInv ==
    \A i \in 1..Len(received) :
        /\ received[i].at <= now
        /\ \A j \in 1..Len(received) : i <= j => received[i].at <= received[j].at

\* A deque holds the arrivals of the last datagrams, and the others are too old.
Follows(deque) ==
    LET old == Len(received) - Len(deque)
    IN  /\ old >= 0
        /\ \A i \in 1..Len(deque) : deque[i] = received[old + i].at
        /\ \A i \in 1..old : received[i].at < now - Window

\* p is the last parsed of the first n datagrams.
LastParsed(n, p) ==
    \/ p = Missing /\ \A i \in 1..n : received[i].size # FH6_PACKET_SIZE
    \/ \E k \in 1..n :
           /\ p = received[k] /\ received[k].size = FH6_PACKET_SIZE
           /\ \A i \in 1..n : i > k => received[i].size # FH6_PACKET_SIZE

\* What the state keeps of the datagrams that came.
LiveInv ==
    LET n == Len(received)
    IN  /\ counts.total = n
        /\ n = 0 => latestPayload = Missing /\ latest = Missing
        /\ n > 0 => latestPayload = received[n]
        /\ LastParsed(n, latest)
        /\ n > 0 /\ recognized => latest = received[n]
        /\ n > 0 /\ ~recognized => received[n].size # FH6_PACKET_SIZE

\* The cached rows are of the revision they name, and none is ahead of the packet.
RowsInv ==
    /\ rows.revision <= revision
    /\ rows.revision = revision => rows.of = latest
    /\ latest = Missing => rows.of = Missing

\* The rate that a snapshot taken at an instant, after so many datagrams, has to show.
TrueRate(at, seen) ==
    LET known == {n \in 1..seen : received[n].at >= at - Window}
        oldest == Min({received[n].at : n \in known})
    IN  IF Cardinality(known) > 1 /\ oldest < at
        THEN <<Cardinality(known) - 1, at - oldest>>
        ELSE <<IF known = {} THEN 0 ELSE 1, 1>>

\* What was shown is true of the datagrams that had come.
ShownInv ==
    shown # Missing =>
        /\ shown.seen \in Nat /\ shown.seen <= Len(received)
        /\ shown.rate = TrueRate(shown.at, shown.seen)
        /\ LastParsed(shown.seen, shown.telemetry)

\* The page shows things that belong together.
PageInv ==
    /\ DebugShown =>
        /\ shown.debug.fields = shown.telemetry
        /\ shown.debug.issues \subseteq FieldNames \cup {"layout"}
    /\ GuidanceTruthful
    /\ OneFieldIsForgiven

Inv == TypeInv /\ ClockInv /\ Follows(recent) /\ LiveInv /\ RowsInv

----------------------------------------------------------------------------
(* The steps.                                                              *)

\* A step that is neither a datagram nor a snapshot lets at most time pass.
Quiet == UNCHANGED <<sender, received, live, recent, rows, shown>> /\ now' >= now /\ now' \in Nat

\* Every step is a datagram, a snapshot or quiet.
LEMMA StepCases ==
    ASSUME TypeInv, [Next]_vars
    PROVE  \/ Quiet \/ RealtimeSnapshot \/ Snapshot
           \/ \E datagram \in sender.datagrams : HandleDatagram(datagram)
  BY DEF TypeInv, Next, vars, Quiet, Tick, Listen, ErrorReceived, ConnectionLost

\* What the pruned deque holds: the arrivals within the window, and no other.
LEMMA PrunedWithin ==
    ASSUME Inv
    PROVE  /\ Pruned \in Seq(Nat) /\ Len(Pruned) \in Nat /\ Follows(Pruned)
           /\ \A i \in 1..Len(received) :
                  i > Len(received) - Len(Pruned) <=> received[i].at >= now - Window
  <1> DEFINE n == Len(received)
             m == Len(recent)
             kept == {i \in 1..m : recent[i] >= now - Window}
  <1>1. /\ n \in Nat /\ m \in Nat /\ now \in Nat /\ Window \in Nat
        /\ \A i \in 1..n : received[i].at \in Nat
        /\ recent \in Seq(Nat)
    BY HistoryFacts, StateAssumption DEF Inv, TypeInv
  <1>2. /\ n - m >= 0
        /\ \A i \in 1..m : recent[i] = received[n - m + i].at
        /\ \A i \in 1..n - m : received[i].at < now - Window
    BY DEF Inv, Follows
  <1>3. CASE kept = {}
    <2>1. Pruned = <<>>
      BY <1>3 DEF Pruned
    <2>2. ASSUME NEW i \in 1..n PROVE received[i].at < now - Window
      <3>1. i \in 1..n - m \/ i - (n - m) \in 1..m
        BY <1>1, <1>2
      <3>2. CASE i - (n - m) \in 1..m
        <4>1. ~(recent[i - (n - m)] >= now - Window)
          BY <1>3, <3>2
        <4>2. recent[i - (n - m)] = received[i].at
          BY <1>1, <1>2, <3>2
        <4> QED
          BY <1>1, <4>1, <4>2
      <3> QED
        BY <1>2, <3>1, <3>2
    <2> QED
      BY <1>1, <2>1, <2>2 DEF Follows
  <1>4. CASE kept # {}
    <2> DEFINE k == Min(kept)
    <2>1. kept \subseteq Nat
      BY <1>1
    <2>2. k \in kept /\ \A i \in kept : k <= i
      BY <1>4, <2>1, LeastNatural
    <2> HIDE DEF k
    <2>3. Pruned = SubSeq(recent, k, m)
      BY <1>4 DEF Pruned, k
    <2>4. k \in 1..m /\ recent[k] >= now - Window
      BY <2>2
    <2>5. \A i \in 1..m : i < k => ~(recent[i] >= now - Window)
      BY <1>1, <2>2
    <2> HIDE DEF kept
    <2>6. /\ Pruned \in Seq(Nat) /\ Len(Pruned) = m - k + 1
          /\ \A i \in 1..m - k + 1 : Pruned[i] = recent[k + i - 1]
      BY <1>1, <2>3, <2>4, SubSeqProperties, SMTT(30)
    <2>7. ASSUME NEW i \in 1..n
          PROVE  i > n - (m - k + 1) <=> received[i].at >= now - Window
      <3>1. CASE i \in 1..n - m
        BY <1>1, <1>2, <2>4, <3>1
      <3>2. CASE i \notin 1..n - m
        <4>1. i - (n - m) \in 1..m /\ recent[i - (n - m)] = received[i].at
          BY <1>1, <1>2, <3>2
        <4>2. recent[k] = received[n - m + k].at /\ n - m + k \in 1..n
          BY <1>1, <1>2, <2>4
        <4>3. i >= n - m + k => received[i].at >= now - Window
          <5>1. i >= n - m + k => received[n - m + k].at <= received[i].at
            BY <4>2 DEF Inv, ClockInv
          <5> QED
            BY <1>1, <2>4, <4>2, <5>1
        <4> QED
          BY <1>1, <2>4, <2>5, <4>1, <4>3
      <3> QED
        BY <3>1, <3>2
    <2>8. Follows(Pruned)
      <3>1. \A i \in 1..m - k + 1 : Pruned[i] = received[n - (m - k + 1) + i].at
        BY <1>1, <1>2, <2>4, <2>6
      <3>2. \A i \in 1..n - (m - k + 1) : received[i].at < now - Window
        <4>1. ASSUME NEW i \in 1..n - (m - k + 1) PROVE received[i].at < now - Window
          <5>1. i \in 1..n /\ ~(i > n - (m - k + 1))
            BY <1>1, <1>2, <2>4
          <5>2. ~(received[i].at >= now - Window) /\ received[i].at \in Nat
            BY <1>1, <2>7, <5>1
          <5> QED
            BY ONLY <1>1, <5>2
        <4> QED
          BY <4>1
      <3>3. n - (m - k + 1) >= 0
        BY <1>1, <1>2, <2>4
      <3> QED
        BY <2>6, <3>1, <3>2, <3>3 DEF Follows
    <2> QED
      BY <1>1, <2>4, <2>6, <2>7, <2>8
  <1> QED
    BY <1>3, <1>4

\* The rate of a snapshot is the true one.
LEMMA RateNow ==
    ASSUME Inv
    PROVE  PacketsPerSecond = TrueRate(now, Len(received))
  <1> DEFINE n == Len(received)
             p == Len(Pruned)
             known == {i \in 1..n : received[i].at >= now - Window}
             oldest == Min({received[i].at : i \in known})
  <1>1. /\ n \in Nat /\ p \in Nat /\ now \in Nat /\ Window \in Nat
        /\ \A i \in 1..n : received[i].at \in Nat
        /\ Pruned \in Seq(Nat)
    BY HistoryFacts, PrunedWithin, StateAssumption DEF Inv, TypeInv
  <1>2. /\ n - p >= 0
        /\ \A i \in 1..p : Pruned[i] = received[n - p + i].at
        /\ \A i \in 1..n : i > n - p <=> received[i].at >= now - Window
    BY PrunedWithin DEF Follows
  <1>3. known = n - p + 1 .. n
    <2> HIDE DEF n, p
    <2>1. \A i \in known : i \in n - p + 1 .. n
      BY <1>1, <1>2
    <2>2. \A i \in n - p + 1 .. n : i \in known
      BY <1>1, <1>2
    <2> QED
      BY <2>1, <2>2
  <1>4. Cardinality(known) = p
    <2> HIDE DEF n, p, known
    <2>1. n - p + 1 \in Int /\ n \in Int
      BY <1>1
    <2>2. Cardinality(n - p + 1 .. n) = IF n - p + 1 > n THEN 0 ELSE n - (n - p + 1) + 1
      BY <2>1, FS_Interval
    <2> QED
      BY <1>1, <1>3, <2>2
  <1>5. known = {} <=> p = 0
    BY <1>1, <1>2, <1>3
  <1>6. ASSUME p > 0 PROVE oldest = Head(Pruned) /\ Head(Pruned) \in Nat
    <2>1. n - p + 1 \in known /\ \A i \in known : i \in 1..n /\ n - p + 1 <= i
      BY <1>1, <1>2, <1>3, <1>6
    <2>2. Head(Pruned) = received[n - p + 1].at
      BY <1>1, <1>2, <1>6, HeadTailProperties
    <2> DEFINE ats == {received[i].at : i \in known}
    <2>3. /\ Head(Pruned) \in ats /\ ats \subseteq Nat
          /\ \A a \in ats : Head(Pruned) <= a
      <3>1. Head(Pruned) \in ats
        BY <2>1, <2>2
      <3>2. ASSUME NEW i \in known PROVE received[i].at \in Nat /\ Head(Pruned) <= received[i].at
        BY <1>1, <1>2, <2>1, <2>2 DEF Inv, ClockInv
      <3> QED
        BY <3>1, <3>2
    <2> HIDE DEF ats
    <2>4. Min(ats) = Head(Pruned)
      <3>1. Min(ats) \in ats /\ \A a \in ats : Min(ats) <= a
        BY <2>3, LeastNatural
      <3>2. Min(ats) \in Nat /\ Min(ats) <= Head(Pruned) /\ Head(Pruned) <= Min(ats)
        BY <2>3, <3>1
      <3>3. Head(Pruned) \in Nat
        BY <2>3
      <3> QED
        BY ONLY <3>2, <3>3
    <2> QED
      BY <2>3, <2>4 DEF ats
  <1> HIDE DEF known, oldest
  <1>7. TrueRate(now, n) = IF Cardinality(known) > 1 /\ oldest < now
                           THEN <<Cardinality(known) - 1, now - oldest>>
                           ELSE <<IF known = {} THEN 0 ELSE 1, 1>>
    BY DEF TrueRate, known, oldest
  <1>8. Pruned # <<>> <=> p > 0
    BY <1>1, EmptySeq
  <1> HIDE DEF p
  <1>9. PacketsPerSecond = LET span == IF p > 1 THEN now - Head(Pruned) ELSE 0
                           IN  IF span > 0 THEN <<p - 1, span>>
                               ELSE IF Pruned # <<>> THEN <<1, 1>> ELSE <<0, 1>>
    BY DEF PacketsPerSecond, p
  <1> HIDE DEF n
  <1>10. CASE p > 1
    <2>1. oldest = Head(Pruned) /\ oldest \in Nat /\ Pruned # <<>> /\ known # {}
      BY <1>1, <1>5, <1>6, <1>8, <1>10
    <2>2. PacketsPerSecond = IF now - oldest > 0 THEN <<p - 1, now - oldest>> ELSE <<1, 1>>
      BY ONLY <1>9, <1>10, <2>1, Zenon
    <2>3. now - oldest > 0 <=> oldest < now
      BY ONLY <1>1, <2>1
    <2>4. CASE oldest < now
      <3>1. PacketsPerSecond = <<p - 1, now - oldest>>
        BY <2>2, <2>3, <2>4
      <3> QED
        BY <1>4, <1>7, <1>10, <2>4, <3>1 DEF n
    <2>5. CASE ~(oldest < now)
      <3>1. PacketsPerSecond = <<1, 1>>
        BY <2>2, <2>3, <2>5
      <3> QED
        BY <1>7, <2>1, <2>5, <3>1 DEF n
    <2> QED
      BY <2>4, <2>5
  <1>11. CASE ~(p > 1)
    <2>1. PacketsPerSecond = IF Pruned # <<>> THEN <<1, 1>> ELSE <<0, 1>>
      BY <1>9, <1>11
    <2>2. TrueRate(now, n) = <<IF known = {} THEN 0 ELSE 1, 1>>
      BY <1>4, <1>7, <1>11
    <2> QED
      BY <1>1, <1>5, <1>8, <2>1, <2>2 DEF n
  <1> QED
    BY <1>10, <1>11 DEF n

----------------------------------------------------------------------------
(* The checks.                                                             *)

Ordered(p) == p.EngineMaxRpm = 0 \/ LessOrEqual(p.EngineIdleRpm, p.EngineMaxRpm)
Matched(p) == MatchesSpeed(Magnitude(p.VelocityX, p.VelocityY, p.VelocityZ), p.Speed)

\* What fails: a range, the order of the engine speeds, the speed.
LEMMA FailureCases ==
    ASSUME NEW p, NEW x \in ImportantFailures(p)
    PROVE  \/ \E f \in DOMAIN ErrorRanges :
                  x = <<f, "range">> /\ ~InRange(p[f], ErrorRanges[f][1], ErrorRanges[f][2])
           \/ x = <<"EngineIdleRpm", "order">> /\ ~Ordered(p)
           \/ x = <<"VelocityX", "match">> /\ ~Matched(p)
  BY DEF ImportantFailures, Ordered, Matched, OutOfRange

\* Every field marked was looked at by a check, and "layout" says that the verdict is bad.
LEMMA Verdict ==
    ASSUME NEW p
    PROVE  /\ IssueFields(p) \subseteq CheckedFields \cup {"layout"}
           /\ "layout" \in IssueFields(p) <=> ~LayoutLikelyValid(p)
  <1>1. ASSUME NEW x \in ImportantFailures(p) PROVE x[1] \in CheckedFields
    BY <1>1, FailureCases DEF CheckedFields
  <1>2. OutOfRange(p, WarningRanges) \subseteq CheckedFields
    BY DEF OutOfRange, CheckedFields
  <1>3. "layout" \notin CheckedFields
    BY NamesAssumption
  <1>4. "Gear" \in CheckedFields /\ "ReservedTrailingByte" \in CheckedFields
    BY DEF CheckedFields
  <1> DEFINE failed == {failure[1] : failure \in ImportantFailures(p)}
             warned == OutOfRange(p, WarningRanges)
             gear == IF p.Gear = 11 THEN {"Gear"} ELSE {}
             reserved == IF p.ReservedTrailingByte # 0 THEN {"ReservedTrailingByte"} ELSE {}
             layout == IF LayoutLikelyValid(p) THEN {} ELSE {"layout"}
  <1>5. failed \cup warned \cup gear \cup reserved \subseteq CheckedFields
    BY <1>1, <1>2, <1>4
  <1>6. IssueFields(p) = (failed \cup warned \cup gear \cup reserved) \cup layout
    BY DEF IssueFields
  <1>7. "layout" \in layout <=> ~LayoutLikelyValid(p)
    OBVIOUS
  <1>8. layout \subseteq {"layout"}
    OBVIOUS
  <1> HIDE DEF failed, warned, gear, reserved, layout
  <1> QED
    BY <1>3, <1>5, <1>6, <1>7, <1>8

\* A plausible packet fails nothing.
LEMMA PlausibleFailsNothing ==
    /\ \A f \in DOMAIN ErrorRanges :
           InRange(Plausible[f], ErrorRanges[f][1], ErrorRanges[f][2])
    /\ Ordered(Plausible) /\ Matched(Plausible)
  <1>1. ImportantFailures(Plausible) = {}
    BY StateAssumption DEF IssueFields
  <1> QED
    BY <1>1 DEF ImportantFailures, Ordered, Matched, OutOfRange

\* One damaged field fails its own range and one of the two relations at the most, for
\* they look at different fields.
LEMMA OneFieldFails ==
    ASSUME NEW d \in Datagram, NEW g, DOMAIN d.fault \subseteq {g}
    PROVE  LayoutLikelyValid(Packet(d))
  <1> DEFINE p == Packet(d)
  <1>1. ASSUME NEW f \in CheckedFields, f # g PROVE p[f] = Plausible[f]
    BY <1>1, StateAssumption DEF Packet
  <1>2. ~Ordered(p) => g \in {"EngineMaxRpm", "EngineIdleRpm"}
    <2> SUFFICES ASSUME g \notin {"EngineMaxRpm", "EngineIdleRpm"} PROVE Ordered(p)
      OBVIOUS
    <2>1. "EngineMaxRpm" \in CheckedFields /\ "EngineIdleRpm" \in CheckedFields
      BY DEF CheckedFields
    <2>2. /\ p.EngineMaxRpm = Plausible.EngineMaxRpm
          /\ p.EngineIdleRpm = Plausible.EngineIdleRpm
      BY <1>1, <2>1
    <2> QED
      BY <2>2, PlausibleFailsNothing DEF Ordered
  <1>3. ~Matched(p) => g \in {"VelocityX", "VelocityY", "VelocityZ", "Speed"}
    <2> SUFFICES ASSUME g \notin {"VelocityX", "VelocityY", "VelocityZ", "Speed"}
                 PROVE  Matched(p)
      OBVIOUS
    <2>1. {"VelocityX", "VelocityY", "VelocityZ", "Speed"} \subseteq CheckedFields
      BY DEF CheckedFields
    <2>2. /\ p.VelocityX = Plausible.VelocityX /\ p.VelocityY = Plausible.VelocityY
          /\ p.VelocityZ = Plausible.VelocityZ /\ p.Speed = Plausible.Speed
      BY <1>1, <2>1
    <2> QED
      BY <2>2, PlausibleFailsNothing DEF Matched
  <1>4. ASSUME NEW f \in DOMAIN ErrorRanges, f # g
        PROVE  InRange(p[f], ErrorRanges[f][1], ErrorRanges[f][2])
    <2>1. p[f] = Plausible[f]
      BY <1>1, <1>4 DEF CheckedFields
    <2> QED
      BY <2>1, PlausibleFailsNothing
  <1> HIDE DEF p
  <1>5. PICK other : ImportantFailures(p) \subseteq {<<g, "range">>, other}
    <2>1. CASE Ordered(p)
      <3>1. ImportantFailures(p) \subseteq {<<g, "range">>, <<"VelocityX", "match">>}
        BY <1>4, <2>1, FailureCases
      <3> QED
        BY <3>1
    <2>2. CASE ~Ordered(p)
      <3>1. Matched(p)
        BY <1>2, <1>3, <2>2
      <3>2. ImportantFailures(p) \subseteq {<<g, "range">>, <<"EngineIdleRpm", "order">>}
        BY <1>4, <3>1, FailureCases
      <3> QED
        BY <3>2
    <2> QED
      BY <2>1, <2>2
  <1> DEFINE both == {<<g, "range">>} \cup {other}
  <1>6. IsFiniteSet(both) /\ Cardinality(both) \in Nat /\ Cardinality(both) <= 2
    <2>1. /\ IsFiniteSet({<<g, "range">>}) /\ Cardinality({<<g, "range">>}) = 1
      BY FS_Singleton
    <2>2. /\ IsFiniteSet(both)
          /\ Cardinality(both) = IF other \in {<<g, "range">>}
                                 THEN Cardinality({<<g, "range">>})
                                 ELSE Cardinality({<<g, "range">>}) + 1
      BY ONLY <2>1, FS_AddElement, Zenon DEF both
    <2> HIDE DEF both
    <2> QED
      BY <2>1, <2>2
  <1>7. ImportantFailures(p) \in SUBSET both
    BY <1>5
  <1> HIDE DEF both
  <1>8. Cardinality(ImportantFailures(p)) \in Nat /\ Cardinality(ImportantFailures(p)) <= 2
    BY <1>6, <1>7, FS_Subset, FS_CardinalityType
  <1> QED
    BY <1>8 DEF LayoutLikelyValid, p

----------------------------------------------------------------------------
(* The invariants hold.                                                    *)

\* No datagram yet.
LEMMA InvInit == Init => Inv /\ ShownInv /\ PageInv
  <1> SUFFICES ASSUME Init PROVE Inv /\ ShownInv /\ PageInv
    OBVIOUS
  <1>1. /\ sender \in Senders /\ now = 0 /\ received = <<>> /\ recent = <<>>
        /\ counts = [total |-> 0, unknown |-> 0, valid |-> 0] /\ latestPayload = Missing
        /\ latest = Missing /\ revision = 0 /\ rows = [of |-> Missing, revision |-> -1]
        /\ shown = Missing
    BY DEF Init
  <1>2. TypeInv
    BY <1>1 DEF TypeInv
  <1>3. ClockInv /\ Follows(recent) /\ RowsInv
    BY <1>1 DEF ClockInv, Follows, RowsInv
  <1>4. LiveInv
    BY <1>1 DEF LiveInv, LastParsed
  <1>5. ShownInv /\ PageInv
    BY <1>1 DEF ShownInv, PageInv, DebugShown, GuidanceTruthful, OneFieldIsForgiven
  <1> QED
    BY <1>2, <1>3, <1>4, <1>5 DEF Inv

\* A datagram is the last of the history, and the history before it stays.
LEMMA Arrival ==
    ASSUME Inv, NEW datagram \in sender.datagrams, HandleDatagram(datagram)
    PROVE  \E d \in Datagram :
               LET n == Len(received)
               IN  /\ d.at = now /\ received' = Append(received, d) /\ Len(received') = n + 1
                   /\ received'[n + 1] = d /\ \A i \in 1..n : received'[i] = received[i]
                   /\ latestPayload' = d /\ recent' = Append(Pruned, now)
                   /\ IF d.size # FH6_PACKET_SIZE THEN SkipUnknown ELSE Parse(d)
                   /\ UNCHANGED <<sender, now, rows, shown>>
                   /\ received' \in Seq(Datagram)
  <1> DEFINE d == [number |-> Len(received) + 1, at |-> now,
                   size |-> datagram.size, fault |-> datagram.fault]
  <1>1. sender \in Senders /\ now \in Nat /\ received \in Seq(Datagram) /\ Len(received) \in Nat
    BY HistoryFacts DEF Inv, TypeInv
  <1>2. datagram.size \in Nat /\ datagram.fault \in Faults
    BY <1>1, StateAssumption DEF Faults
  <1>3. d \in Datagram /\ d.at = now
    BY <1>1, <1>2 DEF Datagram
  <1>4. /\ received' = Append(received, d) /\ latestPayload' = d /\ recent' = Append(Pruned, now)
        /\ IF d.size # FH6_PACKET_SIZE THEN SkipUnknown ELSE Parse(d)
        /\ UNCHANGED <<sender, now, rows, shown>>
    BY DEF HandleDatagram
  <1> HIDE DEF d
  <1>5. /\ Len(received') = Len(received) + 1 /\ received'[Len(received) + 1] = d
        /\ \A i \in 1..Len(received) : received'[i] = received[i]
        /\ received' \in Seq(Datagram)
    BY <1>1, <1>3, <1>4, AppendProperties
  <1> QED
    BY <1>3, <1>4, <1>5

\* A datagram keeps the invariant of the live values.
LEMMA ArrivalInv ==
    ASSUME Inv, NEW datagram \in sender.datagrams, HandleDatagram(datagram)
    PROVE  Inv'
  <1> DEFINE n == Len(received)
  <1>1. PICK d \in Datagram :
            /\ d.at = now /\ Len(received') = n + 1
            /\ received'[n + 1] = d /\ \A i \in 1..n : received'[i] = received[i]
            /\ latestPayload' = d /\ recent' = Append(Pruned, now)
            /\ IF d.size # FH6_PACKET_SIZE THEN SkipUnknown ELSE Parse(d)
            /\ UNCHANGED <<sender, now, rows, shown>>
            /\ received' \in Seq(Datagram)
    BY Arrival
  <1>2. /\ n \in Nat /\ now \in Nat /\ Window \in Nat \ {0} /\ d # Missing
        /\ \A i \in 1..n : received[i].at \in Nat
    BY HistoryFacts, DatagramFacts, StateAssumption DEF Inv, TypeInv
  <1>3. \A i \in 1..n + 1 : i = n + 1 \/ i \in 1..n
    BY <1>2
  <1>4. /\ Pruned \in Seq(Nat) /\ Len(Pruned) \in Nat /\ Follows(Pruned)
    BY PrunedWithin
  <1>5. /\ recent' \in Seq(Nat) /\ Len(recent') = Len(Pruned) + 1
        /\ recent'[Len(Pruned) + 1] = now
        /\ \A i \in 1..Len(Pruned) : recent'[i] = Pruned[i]
    BY <1>1, <1>2, <1>4, AppendProperties
  <1>6. /\ counts' \in [total : Nat, unknown : Nat, valid : Nat]
        /\ counts'.total = counts.total + 1
        /\ revision' \in {revision, revision + 1}
    <2>1. counts' \in {[counts EXCEPT !.total = @ + 1, !.unknown = @ + 1],
                       [counts EXCEPT !.total = @ + 1, !.valid = @ + 1]}
      BY <1>1 DEF SkipUnknown, Parse
    <2>2. counts \in [total : Nat, unknown : Nat, valid : Nat]
      BY DEF Inv, TypeInv
    <2>3. revision' \in {revision, revision + 1}
      BY <1>1 DEF SkipUnknown, Parse
    <2>4. counts.total + 1 \in Nat /\ counts.unknown + 1 \in Nat /\ counts.valid + 1 \in Nat
      BY <2>2
    <2>5. /\ counts' \in [total : Nat, unknown : Nat, valid : Nat]
          /\ counts'.total = counts.total + 1
      BY ONLY <2>1, <2>2, <2>4, ZenonT(30)
    <2> QED
      BY <2>3, <2>5
  <1>7. TypeInv'
    BY <1>1, <1>5, <1>6 DEF Inv, TypeInv
  <1>8. ClockInv'
    <2>1. ASSUME NEW i \in 1..n + 1 PROVE received'[i].at <= now'
      BY <1>1, <1>2, <1>3 DEF Inv, ClockInv
    <2>2. ASSUME NEW i \in 1..n + 1, NEW j \in 1..n + 1, i <= j
          PROVE  received'[i].at <= received'[j].at
      <3>1. CASE j = n + 1
        BY <1>1, <2>1, <3>1
      <3>2. CASE j # n + 1
        <4>1. i \in 1..n /\ j \in 1..n
          BY <1>2, <2>2, <3>2
        <4> QED
          BY <1>1, <2>2, <4>1 DEF Inv, ClockInv
      <3> QED
        BY <3>1, <3>2
    <2> QED
      BY <1>1, <2>1, <2>2 DEF ClockInv
  <1>9. Follows(recent)'
    <2> DEFINE m == Len(Pruned)
    <2>1. /\ n - m >= 0
          /\ \A i \in 1..m : Pruned[i] = received[n - m + i].at
          /\ \A i \in 1..n - m : received[i].at < now - Window
      BY <1>4 DEF Follows
    <2>2. ASSUME NEW i \in 1..m + 1 PROVE recent'[i] = received'[n - m + i].at
      <3>1. CASE i = m + 1
        BY <1>1, <1>2, <1>4, <1>5, <3>1
      <3>2. CASE i # m + 1
        <4>1. i \in 1..m /\ n - m + i \in 1..n
          BY <1>2, <1>4, <2>1, <3>2
        <4> QED
          BY <1>1, <1>5, <2>1, <4>1
      <3> QED
        BY <3>1, <3>2
    <2>3. ASSUME NEW i \in 1..n - m PROVE received'[i].at < now' - Window
      <3>1. i \in 1..n
        BY <1>2, <1>4
      <3> QED
        BY <1>1, <2>1, <3>1
    <2>4. Len(received') - Len(recent') = n - m
      BY <1>1, <1>2, <1>4, <1>5
    <2> HIDE DEF n, m
    <2> QED
      BY <1>5, <2>1, <2>2, <2>3, <2>4 DEF Follows, m
  <1>10. LiveInv'
    <2>1. counts'.total = n + 1
      BY <1>6 DEF Inv, LiveInv
    <2>2. CASE d.size = FH6_PACKET_SIZE
      <3>1. latest' = d /\ recognized' = TRUE
        BY <1>1, <2>2 DEF Parse
      <3>2. LastParsed(Len(received), latest)'
        <4>1. /\ n + 1 \in 1..Len(received') /\ latest' = received'[n + 1]
              /\ received'[n + 1].size = FH6_PACKET_SIZE
              /\ \A i \in 1..Len(received') : ~(i > n + 1)
          BY <1>1, <1>2, <2>2, <3>1
        <4> QED
          BY <4>1 DEF LastParsed
      <3>3. Len(received') > 0 /\ latestPayload' = received'[Len(received')]
        BY <1>1, <1>2
      <3> HIDE DEF n
      <3> QED
        BY <1>1, <1>2, <2>1, <3>1, <3>2, <3>3 DEF LiveInv
    <2>3. CASE d.size # FH6_PACKET_SIZE
      <3>1. latest' = latest /\ recognized' = FALSE
        BY <1>1, <2>3 DEF SkipUnknown
      <3>2. LastParsed(Len(received), latest)'
        <4>1. LastParsed(n, latest)
          BY DEF Inv, LiveInv
        <4>2. \A i \in 1..n : i \in 1..Len(received')
          BY <1>1, <1>2
        <4>3. CASE latest = Missing /\ \A i \in 1..n : received[i].size # FH6_PACKET_SIZE
          <5>1. \A i \in 1..Len(received') : received'[i].size # FH6_PACKET_SIZE
            BY <1>1, <1>3, <2>3, <4>3
          <5> QED
            BY <3>1, <4>3, <5>1 DEF LastParsed
        <4>4. CASE \E k \in 1..n :
                      /\ latest = received[k] /\ received[k].size = FH6_PACKET_SIZE
                      /\ \A i \in 1..n : i > k => received[i].size # FH6_PACKET_SIZE
          <5>1. PICK k \in 1..n :
                    /\ latest = received[k] /\ received[k].size = FH6_PACKET_SIZE
                    /\ \A i \in 1..n : i > k => received[i].size # FH6_PACKET_SIZE
            BY <4>4
          <5>2. /\ latest' = received'[k] /\ received'[k].size = FH6_PACKET_SIZE
                /\ \A i \in 1..Len(received') :
                       i > k => received'[i].size # FH6_PACKET_SIZE
            BY <1>1, <1>3, <2>3, <3>1, <5>1
          <5> QED
            BY <4>2, <5>1, <5>2 DEF LastParsed
        <4> QED
          BY <4>1, <4>3, <4>4 DEF LastParsed
      <3>3. Len(received') > 0 /\ latestPayload' = received'[Len(received')]
        BY <1>1, <1>2
      <3> HIDE DEF n
      <3> QED
        BY <1>1, <1>2, <2>1, <2>3, <3>1, <3>2, <3>3 DEF LiveInv
    <2> QED
      BY <2>2, <2>3
  <1>11. RowsInv'
    BY <1>1, <1>2 DEF SkipUnknown, Parse, Inv, TypeInv, RowsInv
  <1> QED
    BY <1>7, <1>8, <1>9, <1>10, <1>11 DEF Inv

\* Time passes: what was too old stays too old.
LEMMA QuietInv ==
    ASSUME Inv, Quiet
    PROVE  Inv'
  <1>1. /\ UNCHANGED <<sender, received, recent, rows, shown>>
        /\ UNCHANGED <<counts, latestPayload, latest, recognized, revision>>
        /\ now' >= now /\ now' \in Nat
    BY DEF Quiet, live
  <1>2. /\ now \in Nat /\ Window \in Nat /\ Len(received) \in Nat /\ Len(recent) \in Nat
        /\ \A i \in 1..Len(received) : received[i].at \in Nat
    BY HistoryFacts, StateAssumption DEF Inv, TypeInv
  <1>3. TypeInv' /\ LiveInv' /\ RowsInv'
    BY <1>1 DEF Inv, TypeInv, LiveInv, LastParsed, RowsInv
  <1>4. ClockInv'
    BY <1>1, <1>2 DEF Inv, ClockInv
  <1>5. Follows(recent)'
    BY <1>1, <1>2 DEF Inv, Follows
  <1> QED
    BY <1>3, <1>4, <1>5 DEF Inv

\* A snapshot drops what is too old, and may rebuild the rows.
LEMMA SnapshotInv ==
    ASSUME Inv, recent' = Pruned, rows' = rows \/ rows' = FreshRows,
           UNCHANGED <<sender, now, received, live>>
    PROVE  Inv' /\ (rows' = FreshRows => rows'.of = latest)
  <1>1. UNCHANGED <<sender, now, received, counts, latestPayload, latest, recognized, revision>>
    BY DEF live
  <1>2. revision \in Nat /\ rows.revision \in Int
    BY DEF Inv, TypeInv
  <1>3. CASE rows' = rows /\ rows' # FreshRows
    BY <1>1, <1>3, PrunedWithin
       DEF Inv, TypeInv, ClockInv, LiveInv, LastParsed, Follows, RowsInv
  <1>4. CASE rows' = FreshRows
    <2>1. rows'.revision \in Int /\ rows'.revision <= revision /\ rows'.of = latest
      BY <1>2, <1>4 DEF FreshRows, Inv, RowsInv
    <2> QED
      BY <1>1, <2>1, PrunedWithin
         DEF Inv, TypeInv, ClockInv, LiveInv, LastParsed, Follows, RowsInv
  <1> QED
    BY <1>3, <1>4

\* The history only grows.
HistoryKept ==
    /\ Len(received') \in Nat /\ Len(received') >= Len(received)
    /\ \A i \in 1..Len(received) : received'[i] = received[i]

\* What was true of the first datagrams stays true of them.
LEMMA TruthKept ==
    ASSUME TypeInv, HistoryKept, NEW seen \in Nat, seen <= Len(received), NEW at, NEW p
    PROVE  /\ TrueRate(at, seen)' = TrueRate(at, seen)
           /\ LastParsed(seen, p) => LastParsed(seen, p)'
  <1>1. \A i \in 1..seen : received'[i] = received[i]
    BY HistoryFacts DEF HistoryKept
  <1>2. {n \in 1..seen : received'[n].at >= at - Window} = {n \in 1..seen : received[n].at >= at - Window}
    BY <1>1
  <1> DEFINE known == {n \in 1..seen : received[n].at >= at - Window}
  <1>3. {received'[n].at : n \in known} = {received[n].at : n \in known}
    BY <1>1
  <1>4. TrueRate(at, seen)' = TrueRate(at, seen)
    BY <1>2, <1>3 DEF TrueRate
  <1>5. LastParsed(seen, p) => LastParsed(seen, p)'
    BY <1>1 DEF LastParsed
  <1> QED
    BY <1>4, <1>5

\* What a snapshot shows is true when it is taken, whichever it is.
LEMMA ShownNow ==
    ASSUME Inv, NEW debug, UNCHANGED received, shown' = Shown(debug)
    PROVE  ShownInv'
  <1> DEFINE n == Len(received)
  <1>1. /\ shown'.at = now /\ shown'.seen = n /\ shown'.telemetry = latest
        /\ shown'.rate = PacketsPerSecond
    BY DEF Shown
  <1>2. n \in Nat /\ PacketsPerSecond = TrueRate(now, n) /\ LastParsed(n, latest)
    BY HistoryFacts, RateNow DEF Inv, LiveInv
  <1>3. PICK at, seen, p : at = now /\ seen = n /\ p = latest
    OBVIOUS
  <1>4. HistoryKept /\ n <= Len(received)
    BY <1>2 DEF HistoryKept
  <1>5. TrueRate(at, seen)' = TrueRate(at, seen) /\ LastParsed(seen, p)'
    BY <1>2, <1>3, <1>4, TruthKept DEF Inv
  <1>6. /\ shown'.seen = seen /\ seen \in Nat /\ seen <= Len(received')
        /\ shown'.at = at /\ shown'.telemetry = p /\ shown'.rate = TrueRate(at, seen)
    BY <1>1, <1>2, <1>3, <1>4
  <1> HIDE DEF n
  <1> QED
    BY <1>5, <1>6 DEF ShownInv, TrueRate, LastParsed

\* What was shown stays true while it stays on the page.
LEMMA ShownKept ==
    ASSUME TypeInv, ShownInv, HistoryKept, UNCHANGED shown
    PROVE  ShownInv'
  <1> SUFFICES ASSUME shown # Missing PROVE ShownInv'
    BY DEF ShownInv
  <1>1. PICK at, seen, p : at = shown.at /\ seen = shown.seen /\ p = shown.telemetry
    OBVIOUS
  <1>2. seen \in Nat /\ seen <= Len(received) /\ LastParsed(seen, p)
        /\ shown.rate = TrueRate(at, seen)
    BY <1>1 DEF ShownInv
  <1>3. TrueRate(at, seen)' = TrueRate(at, seen) /\ LastParsed(seen, p)'
    BY <1>2, TruthKept
  <1>4. seen <= Len(received')
    BY <1>2, HistoryFacts DEF HistoryKept
  <1> QED
    BY <1>1, <1>2, <1>3, <1>4 DEF ShownInv, TrueRate, LastParsed

\* The advice of this moment agrees with the connection and the issues of this moment.
LEMMA GuidanceNow ==
    ASSUME Inv, NEW issues, issues = IF latest = Missing THEN {} ELSE IssueFields(Packet(latest))
    PROVE  /\ Guidance \in {"live", "suspect"} =>
                  Connected /\ ((Guidance = "suspect") = ("layout" \in issues))
           /\ Guidance \in {"stopped", "waiting"} => ~Connected
           /\ Guidance = "unsupported" => latestPayload.size # FH6_PACKET_SIZE
  <1> DEFINE n == Len(received)
  <1>1. n \in Nat /\ counts.total = n /\ (n = 0 => latest = Missing)
    BY HistoryFacts DEF Inv, LiveInv
  <1>2. "layout" \in issues <=> latest # Missing /\ ~LayoutLikelyValid(Packet(latest))
    BY Verdict
  <1>3. n > 0 => /\ latestPayload = received[n] /\ (recognized => latest = latestPayload)
                 /\ (~recognized => latestPayload.size # FH6_PACKET_SIZE)
    BY DEF Inv, LiveInv
  <1>4. n > 0 /\ TrafficActive /\ recognized => Connected
    BY <1>3 DEF TrafficActive, Connected, Within
  <1>5. n > 0 /\ ~TrafficActive => ~Connected
    <2> SUFFICES ASSUME n > 0, Connected PROVE TrafficActive
      OBVIOUS
    <2>1. /\ received[n] # Missing /\ received[n].at \in Nat
          /\ now \in Nat /\ TelemetryTimeout \in Nat
      BY <1>1, HistoryFacts, DatagramFacts, StateAssumption DEF Inv, TypeInv
    <2>2. latest # Missing /\ now - latest.at <= TelemetryTimeout
      BY DEF Connected, Within
    <2>3. PICK k \in 1..n : latest = received[k]
      BY <2>2 DEF Inv, LiveInv, LastParsed
    <2>4. received[k].at <= received[n].at /\ received[k].at \in Nat
      BY <1>1, HistoryFacts DEF Inv, ClockInv
    <2>5. now - received[n].at <= TelemetryTimeout
      BY <2>1, <2>2, <2>3, <2>4
    <2> QED
      BY <1>3, <2>1, <2>5 DEF TrafficActive, Within
  <1>6. n = 0 => ~Connected
    BY <1>1 DEF Connected, Within
  <1>7. CASE listener.status = "error" \/ counts.total = 0
    BY <1>1, <1>6, <1>7 DEF Guidance
  <1>8. CASE listener.status # "error" /\ counts.total # 0
    <2>1. n > 0
      BY <1>1, <1>8
    <2>2. CASE TrafficActive /\ ~recognized
      BY <1>3, <1>8, <2>1, <2>2 DEF Guidance
    <2>3. CASE ~TrafficActive
      BY <1>5, <1>8, <2>1, <2>3 DEF Guidance
    <2>4. CASE TrafficActive /\ recognized
      <3>1. Connected
        BY <1>4, <2>1, <2>4
      <3>2. Guidance = IF latest # Missing /\ ~LayoutLikelyValid(Packet(latest))
                       THEN "suspect" ELSE "live"
        BY <1>8, <2>4 DEF Guidance
      <3> QED
        BY <1>2, <3>1, <3>2
    <2> QED
      BY <2>2, <2>3, <2>4
  <1> QED
    BY <1>7, <1>8

\* The debug snapshot puts things together that belong together.
LEMMA PageNow ==
    ASSUME Inv, Snapshot
    PROVE  PageInv'
  <1> DEFINE issues == IF latest = Missing THEN {} ELSE IssueFields(Packet(latest))
             debug == [fields |-> rows'.of, raw |-> latestPayload, guidance |-> Guidance,
                       issues |-> issues]
  <1>1. shown' = Shown(debug) /\ rows'.of = latest
    BY SnapshotInv DEF Snapshot
  <1>2. /\ shown'.telemetry = latest /\ shown'.connected = Connected
        /\ shown'.debug.fields = latest /\ shown'.debug.raw = latestPayload
        /\ shown'.debug.guidance = Guidance /\ shown'.debug.issues = issues
    BY <1>1 DEF Shown
  <1>3. issues \subseteq FieldNames \cup {"layout"}
    BY Verdict, NamesAssumption
  <1>4. GuidanceTruthful'
    <2> HIDE DEF issues
    <2>1. /\ Guidance \in {"live", "suspect"} =>
                 Connected /\ ((Guidance = "suspect") = ("layout" \in issues))
          /\ Guidance \in {"stopped", "waiting"} => ~Connected
          /\ Guidance = "unsupported" => latestPayload.size # FH6_PACKET_SIZE
      BY GuidanceNow DEF issues
    <2> HIDE DEF debug
    <2> QED
      BY <1>2, <2>1 DEF GuidanceTruthful
  <1>5. OneFieldIsForgiven'
    <2>1. "layout" \in issues => Cardinality(DOMAIN latest.fault) > 1
      <3> SUFFICES ASSUME "layout" \in issues, ~(Cardinality(DOMAIN latest.fault) > 1)
                   PROVE  FALSE
        OBVIOUS
      <3>1. latest # Missing /\ ~LayoutLikelyValid(Packet(latest))
        BY Verdict
      <3>2. latest \in Datagram
        BY <3>1, HistoryFacts DEF Inv, LiveInv, LastParsed
      <3>3. IsFiniteSet(DOMAIN latest.fault)
        BY <3>2, DatagramFacts
      <3>4. Cardinality(DOMAIN latest.fault) \in {0, 1}
        BY <3>3, FS_CardinalityType
      <3>5. PICK g : DOMAIN latest.fault \subseteq {g}
        BY <3>3, <3>4, FS_EmptySet, FS_Singleton
      <3> QED
        BY <3>1, <3>2, <3>5, OneFieldFails
    <2> HIDE DEF issues, debug
    <2> QED
      BY <1>2, <2>1 DEF OneFieldIsForgiven
  <1> HIDE DEF issues, debug
  <1> QED
    BY <1>2, <1>3, <1>4, <1>5 DEF PageInv

\* Every step keeps the three invariants.
LEMMA InvStep ==
    Inv /\ ShownInv /\ PageInv /\ [Next]_vars => (Inv /\ ShownInv /\ PageInv)'
  <1> SUFFICES ASSUME Inv, ShownInv, PageInv, [Next]_vars PROVE Inv' /\ ShownInv' /\ PageInv'
    OBVIOUS
  <1>1. Len(received) \in Nat
    BY HistoryFacts DEF Inv
  <1>2. UNCHANGED shown => PageInv'
    BY DEF PageInv, DebugShown, GuidanceTruthful, OneFieldIsForgiven
  <1>3. CASE Quiet
    <2>1. HistoryKept /\ UNCHANGED shown
      BY <1>1, <1>3 DEF Quiet, HistoryKept
    <2> QED
      BY <1>2, <1>3, <2>1, QuietInv, ShownKept DEF Inv
  <1>4. CASE \E datagram \in sender.datagrams : HandleDatagram(datagram)
    <2>1. PICK datagram \in sender.datagrams : HandleDatagram(datagram)
      BY <1>4
    <2>2. Inv' /\ UNCHANGED shown
      BY <2>1, ArrivalInv DEF HandleDatagram
    <2>3. HistoryKept
      BY <1>1, <2>1, Arrival DEF HistoryKept
    <2> QED
      BY <1>2, <2>2, <2>3, ShownKept DEF Inv
  <1>5. CASE RealtimeSnapshot
    <2>1. Inv'
      BY <1>5, SnapshotInv DEF RealtimeSnapshot
    <2>2. shown' = Shown(Missing) /\ UNCHANGED received
      BY <1>5 DEF RealtimeSnapshot
    <2>3. shown'.debug = Missing
      BY <2>2 DEF Shown
    <2>4. PageInv'
      BY <2>3 DEF PageInv, DebugShown, GuidanceTruthful, OneFieldIsForgiven
    <2> QED
      BY <2>1, <2>2, <2>4, ShownNow
  <1>6. CASE Snapshot
    <2>1. Inv'
      BY <1>6, SnapshotInv DEF Snapshot
    <2>2. ShownInv'
      BY <1>6, ShownNow DEF Snapshot
    <2> QED
      BY <1>6, <2>1, <2>2, PageNow
  <1> QED
    BY <1>3, <1>4, <1>5, <1>6, StepCases DEF Inv

\* Every reachable state has the invariants.
THEOREM StateAlwaysSound == Spec => [](Inv /\ ShownInv /\ PageInv)
  BY InvInit, InvStep, PTL DEF Spec

----------------------------------------------------------------------------
(* What a page may be believed.                                            *)

\* A set of naturals has at most one greatest element.
LEMMA GreatestIs ==
    ASSUME NEW S \in SUBSET Nat, NEW k \in S, \A i \in S : k >= i
    PROVE  Max(S) = k
  <1>1. Max(S) \in S /\ \A i \in S : Max(S) >= i
    BY DEF Max
  <1>2. Max(S) \in Nat /\ k \in Nat /\ Max(S) >= k /\ k >= Max(S)
    BY <1>1
  <1> QED
    BY ONLY <1>2

\* The packet shown is the last of the right size that had come, and the fields of the
\* debug page and its marks are of that packet.
THEOREM PageIsTogether == Spec => []ShownTogether
  <1>1. Inv /\ ShownInv /\ PageInv => ShownTogether
    <2> SUFFICES ASSUME Inv, ShownInv, PageInv, shown # Missing
                 PROVE  LET parsed == {n \in 1..shown.seen : received[n].size = FH6_PACKET_SIZE}
                        IN  shown.telemetry = IF parsed = {} THEN Missing
                                              ELSE received[Max(parsed)]
      BY DEF ShownTogether, PageInv
    <2> DEFINE parsed == {n \in 1..shown.seen : received[n].size = FH6_PACKET_SIZE}
    <2>1. LastParsed(shown.seen, shown.telemetry) /\ shown.seen \in Nat
      BY DEF ShownInv
    <2>2. CASE /\ shown.telemetry = Missing
               /\ \A i \in 1..shown.seen : received[i].size # FH6_PACKET_SIZE
      BY <2>2
    <2>3. ASSUME NEW k \in 1..shown.seen, shown.telemetry = received[k],
                 received[k].size = FH6_PACKET_SIZE,
                 \A i \in 1..shown.seen : i > k => received[i].size # FH6_PACKET_SIZE
          PROVE  parsed # {} /\ shown.telemetry = received[Max(parsed)]
      <3>1. k \in parsed /\ parsed \in SUBSET Nat
        BY <2>3
      <3>2. \A i \in parsed : k >= i
        BY <2>1, <2>3
      <3> HIDE DEF parsed
      <3>3. Max(parsed) = k
        BY <3>1, <3>2, GreatestIs
      <3> QED
        BY <2>3, <3>1, <3>3
    <2> QED
      BY <2>1, <2>2, <2>3 DEF LastParsed
  <1> QED
    BY <1>1, StateAlwaysSound, PTL

\* The advice to the driver agrees with the connection and the marks shown beside it.
THEOREM AdviceIsTruthful == Spec => []GuidanceTruthful
  <1>1. PageInv => GuidanceTruthful
    BY DEF PageInv
  <1> QED
    BY <1>1, StateAlwaysSound, PTL

\* No packet with one damaged field is called a wrong layout, whatever the field holds.
THEOREM DamageIsForgiven == Spec => []OneFieldIsForgiven
  <1>1. PageInv => OneFieldIsForgiven
    BY DEF PageInv
  <1> QED
    BY <1>1, StateAlwaysSound, PTL

\* The packet rate shown is the one of the datagrams that had come within the window.
THEOREM RateIsAlwaysTrue == Spec => []RateIsTrue
  <1>1. ShownInv => RateIsTrue
    BY DEF ShownInv, RateIsTrue, TrueRate
  <1> QED
    BY <1>1, StateAlwaysSound, PTL

----------------------------------------------------------------------------
(* The table of fields.                                                    *)

\* What the assertion at import asks of places and sizes: no gap, no overlap.
InARow(place, size, n, total) ==
    /\ place[1] = 0
    /\ \A i \in 2..n : place[i] = place[i - 1] + size[i - 1]
    /\ place[n] + size[n] = total

\* In a row, whoever comes later starts after whoever comes before has ended.
LEMMA LaterStartsAfter ==
    ASSUME NEW n \in Nat, NEW place \in [1..n -> Int], NEW size \in [1..n -> Nat],
           NEW total, InARow(place, size, n, total), NEW i \in 1..n, NEW j \in 1..n, i < j
    PROVE  place[i] + size[i] <= place[j]
  <1> DEFINE early == {k \in Nat : k \in 1..n /\ i < k /\ ~(place[i] + size[i] <= place[k])}
             k == Min(early)
  <1>0. place[i] + size[i] <= place[j] \/ j \in early
    OBVIOUS
  <1> SUFFICES ASSUME j \in early PROVE FALSE
    BY <1>0, Zenon
  <1>1. k \in early /\ \A y \in early : k <= y
    BY LeastNatural
  <1> HIDE DEF k
  <1>2. /\ k \in 2..n /\ i < k /\ k - 1 \in 1..n /\ k - 1 \in Nat /\ k - 1 >= i
        /\ ~(place[i] + size[i] <= place[k])
    BY <1>1
  <1>3. place[k] = place[k - 1] + size[k - 1] /\ place[k - 1] \in Int /\ size[k - 1] \in Nat
    BY <1>2 DEF InARow
  <1>4. place[i] \in Int /\ size[i] \in Nat
    OBVIOUS
  <1>5. CASE k - 1 = i
    BY <1>2, <1>3, <1>5
  <1>6. CASE k - 1 > i
    <2>1. k - 1 \notin early
      BY <1>1, <1>2
    <2>2. place[i] + size[i] <= place[k - 1]
      BY <1>2, <1>6, <2>1
    <2> QED
      BY <1>2, <1>3, <1>4, <2>2
  <1> QED
    BY <1>2, <1>5, <1>6

\* In a row, every byte belongs to one place and no other.
LEMMA EachByteOnce ==
    ASSUME NEW n \in Nat \ {0}, NEW place \in [1..n -> Int], NEW size \in [1..n -> Nat],
           NEW total \in Nat, InARow(place, size, n, total), NEW byte \in 0..total - 1
    PROVE  \E i \in 1..n :
               /\ byte \in place[i] .. place[i] + size[i] - 1
               /\ \A j \in 1..n : byte \in place[j] .. place[j] + size[j] - 1 => j = i
  <1> DEFINE ending == {k \in Nat : k \in 1..n /\ byte < place[k] + size[k]}
             i == Min(ending)
  <1>1. \A k \in 1..n : place[k] \in Int /\ size[k] \in Nat
    OBVIOUS
  <1>2. n \in ending
    BY <1>1 DEF InARow
  <1>3. i \in ending /\ \A y \in ending : i <= y
    BY <1>2, LeastNatural
  <1> HIDE DEF i
  <1>4. i \in 1..n /\ byte < place[i] + size[i]
    BY <1>3
  <1>5. place[i] <= byte
    <2>1. CASE i = 1
      BY <2>1 DEF InARow
    <2>2. CASE i # 1
      <3>1. i - 1 \in 1..n /\ i - 1 \in Nat /\ i \in 2..n
        BY <1>4, <2>2
      <3>2. ~(byte < place[i - 1] + size[i - 1])
        BY <1>3, <3>1
      <3>3. place[i] = place[i - 1] + size[i - 1]
        BY <3>1 DEF InARow
      <3> QED
        BY <1>1, <3>1, <3>2, <3>3
    <2> QED
      BY <2>1, <2>2
  <1>6. byte \in place[i] .. place[i] + size[i] - 1
    BY <1>1, <1>4, <1>5
  <1>7. ASSUME NEW j \in 1..n, byte \in place[j] .. place[j] + size[j] - 1 PROVE j = i
    <2>1. /\ place[j] <= byte /\ byte < place[j] + size[j]
          /\ place[j] \in Int /\ size[j] \in Nat /\ place[i] \in Int /\ size[i] \in Nat
      BY <1>1, <1>4, <1>7
    <2>2. CASE j < i
      <3>1. place[j] + size[j] <= place[i]
        BY <1>4, <2>2, LaterStartsAfter
      <3> QED
        BY <1>5, <2>1, <3>1
    <2>3. CASE i < j
      <3>1. place[i] + size[i] <= place[j]
        BY <1>4, <2>3, LaterStartsAfter
      <3> QED
        BY <1>4, <2>1, <3>1
    <2> QED
      BY <1>4, <2>2, <2>3
  <1> QED
    BY <1>4, <1>6, <1>7

\* The names are literals, or literals with an axis or a corner.
Literals ==
    {"IsRaceOn", "TimestampMS", "EngineMaxRpm", "EngineIdleRpm", "CurrentEngineRpm",
     "Acceleration", "Velocity", "AngularVelocity", "Yaw", "Pitch", "Roll",
     "NormalizedSuspensionTravel", "TireSlipRatio", "WheelRotationSpeed",
     "WheelOnRumbleStrip", "WheelInPuddle", "SurfaceRumble", "TireSlipAngle",
     "TireCombinedSlip", "SuspensionTravelMeters", "CarOrdinal", "CarClass",
     "CarPerformanceIndex", "DrivetrainType", "NumCylinders", "CarGroup",
     "SmashableVelDiff", "SmashableMass", "Position", "Speed", "Power", "Torque", "TireTemp",
     "Boost", "Fuel", "DistanceTraveled", "BestLap", "LastLap", "CurrentLap",
     "CurrentRaceTime", "LapNumber", "RacePosition", "Accel", "Brake", "Clutch",
     "HandBrake", "Gear", "Steer", "NormalizedDrivingLine", "NormalizedAIBrakeDifference",
     "ReservedTrailingByte"}
Types == {"S32", "U32", "F32", "U16", "U8", "S8", "Puddle"}
WithAxes(name) == {name \o Axes[i] : i \in 1..3}
WithCorners(name) == {name \o Corners[i] : i \in 1..4}
Names == Literals \cup UNION {WithAxes(name) \cup WithCorners(name) : name \in Literals}
Definitions == [name : Names, offset : Nat, type : Types]

\* A literal is a name, and so is what an axis or a corner makes of it.
LEMMA NameFacts ==
    ASSUME NEW name \in Literals
    PROVE  name \in Names /\ WithAxes(name) \subseteq Names /\ WithCorners(name) \subseteq Names
  BY DEF Names

\* Every type of field has a size, of at least a byte.
LEMMA SizeFacts == /\ DOMAIN SizeOf = Types
                   /\ \A type \in Types : SizeOf[type] \in Nat /\ SizeOf[type] >= 1
  BY DEF SizeOf, Types

\* A field with a name, an offset and a type of the table is a definition.
LEMMA FieldType ==
    ASSUME NEW name \in Names, NEW offset \in Nat, NEW type \in Types
    PROVE  Field(name, offset, type) \in Definitions
  BY DEF Field, Definitions

\* A run of fields is a piece of a table.
LEMMA RunType ==
    ASSUME NEW n \in Nat, NEW names \in Seq(Names), Len(names) = n,
           NEW offset \in Nat, NEW type \in Types
    PROVE  Run(names, offset, type) \in Seq(Definitions)
  <1>1. \A i \in 1..n : names[i] \in Names /\ offset + (i - 1) * SizeOf[type] \in Nat
    <2> SUFFICES ASSUME NEW i \in 1..n
                 PROVE  names[i] \in Names /\ offset + (i - 1) * SizeOf[type] \in Nat
      OBVIOUS
    <2>1. i - 1 \in Nat /\ SizeOf[type] \in Nat
      BY SizeFacts
    <2>2. (i - 1) * SizeOf[type] \in Nat
      <3> DEFINE a == i - 1
                 b == SizeOf[type]
      <3>1. a \in Nat /\ b \in Nat
        BY <2>1
      <3> HIDE DEF a, b
      <3>2. a * b \in Nat
        BY <3>1
      <3> QED
        BY <3>2 DEF a, b
    <2> QED
      BY <2>2
  <1>2. \A i \in 1..n : Field(names[i], offset + (i - 1) * SizeOf[type], type) \in Definitions
    BY <1>1, FieldType
  <1> QED
    BY <1>2 DEF Run

\* With names that are literals.
LEMMA LiteralFields ==
    \A offset \in Nat, type \in Types, name \in Literals :
        Field(name, offset, type) \in Definitions
  BY NameFacts, FieldType

\* And a run of them.
LEMMA LiteralRuns ==
    \A offset \in Nat, type \in Types, names \in Seq(Literals) :
        Run(names, offset, type) \in Seq(Definitions)
  <1> SUFFICES ASSUME NEW offset \in Nat, NEW type \in Types, NEW names \in Seq(Literals)
               PROVE  Run(names, offset, type) \in Seq(Definitions)
    OBVIOUS
  <1>1. Literals \subseteq Names
    BY NameFacts
  <1>2. names \in Seq(Names) /\ Len(names) \in Nat
    BY <1>1, SeqMonotonic
  <1> QED
    BY <1>2, RunType

\* A function on the first numbers is a sequence.
LEMMA FunctionIsSeq ==
    ASSUME NEW n \in Nat, NEW S, NEW f \in [1..n -> S]
    PROVE  f \in Seq(S) /\ Len(f) = n
  OBVIOUS

\* A vector is a piece of a table, its three names made with the axes.
LEMMA VectorType ==
    ASSUME NEW name \in Literals, NEW offset \in Nat
    PROVE  Vector(name, offset) \in Seq(Definitions)
  <1> DEFINE names == [i \in 1..3 |-> name \o Axes[i]]
  <1>1. \A i \in 1..3 : name \o Axes[i] \in Names
    BY NameFacts, Zenon DEF WithAxes
  <1>2. names \in [1..3 -> Names] /\ "F32" \in Types
    BY <1>1, Zenon DEF Types
  <1> HIDE DEF names
  <1>3. Run(names, offset, "F32") \in Seq(Definitions)
    BY <1>2, FunctionIsSeq, RunType
  <1> QED
    BY <1>3 DEF Vector, names

\* So are the four fields of the wheels, their names made with the corners.
LEMMA WheelsType ==
    ASSUME NEW name \in Literals, NEW offset \in Nat, NEW type \in Types
    PROVE  Wheels(name, offset, type) \in Seq(Definitions)
  <1> DEFINE names == [i \in 1..4 |-> name \o Corners[i]]
  <1>1. \A i \in 1..4 : name \o Corners[i] \in Names
    BY NameFacts, Zenon DEF WithCorners
  <1>2. names \in [1..4 -> Names]
    BY <1>1, Zenon
  <1> HIDE DEF names
  <1>3. names \in Seq(Names) /\ Len(names) = 4
    BY <1>2, FunctionIsSeq
  <1>4. Run(names, offset, type) \in Seq(Definitions)
    BY <1>3, RunType
  <1> QED
    BY <1>4 DEF Wheels, names

\* The pieces of the table make a table, and it is not empty.
LEMMA TableType == FIELD_DEFINITIONS \in Seq(Definitions) /\ Len(FIELD_DEFINITIONS) >= 1
  <1>1. /\ "S32" \in Types /\ "U32" \in Types /\ "F32" \in Types /\ "U16" \in Types
        /\ "U8" \in Types /\ "S8" \in Types /\ "Puddle" \in Types
    BY DEF Types
  <1>2. /\ 8 \in Nat /\ 56 \in Nat /\ 236 \in Nat /\ 256 \in Nat
        /\ 212 \in Nat /\ 284 \in Nat /\ 314 \in Nat /\ 320 \in Nat
    OBVIOUS
  <1>3. 20 \in Nat /\ 32 \in Nat /\ 44 \in Nat /\ 244 \in Nat
    OBVIOUS
  <1>4. /\ 68 \in Nat /\ 84 \in Nat /\ 100 \in Nat /\ 116 \in Nat /\ 132 \in Nat
        /\ 148 \in Nat /\ 164 \in Nat /\ 180 \in Nat /\ 196 \in Nat /\ 268 \in Nat
    OBVIOUS
  <1>5. /\ "IsRaceOn" \in Literals /\ "TimestampMS" \in Literals /\ "CarGroup" \in Literals
        /\ "LapNumber" \in Literals /\ "ReservedTrailingByte" \in Literals
    BY DEF Literals
  <1>6. /\ Field("IsRaceOn", 0, "S32") \in Definitions
        /\ Field("TimestampMS", 4, "U32") \in Definitions
        /\ Field("CarGroup", 232, "U32") \in Definitions
        /\ Field("LapNumber", 312, "U16") \in Definitions
        /\ Field("ReservedTrailingByte", 323, "U8") \in Definitions
    BY <1>1, <1>5, LiteralFields
  <1>7. \A a, b \in Definitions : <<a>> \in Seq(Definitions) /\ <<a, b>> \in Seq(Definitions)
    OBVIOUS
  <1>8. /\ <<Field("IsRaceOn", 0, "S32"), Field("TimestampMS", 4, "U32")>> \in Seq(Definitions)
        /\ <<Field("CarGroup", 232, "U32")>> \in Seq(Definitions)
        /\ <<Field("LapNumber", 312, "U16")>> \in Seq(Definitions)
        /\ <<Field("ReservedTrailingByte", 323, "U8")>> \in Seq(Definitions)
    BY <1>6, <1>7
  <1>9. /\ <<"EngineMaxRpm", "EngineIdleRpm", "CurrentEngineRpm">> \in Seq(Literals)
        /\ <<"Yaw", "Pitch", "Roll">> \in Seq(Literals)
        /\ <<"SmashableVelDiff", "SmashableMass">> \in Seq(Literals)
        /\ <<"Speed", "Power", "Torque">> \in Seq(Literals)
    BY DEF Literals
  <1>10. /\ <<"CarOrdinal", "CarClass", "CarPerformanceIndex", "DrivetrainType",
             "NumCylinders">> \in Seq(Literals)
         /\ <<"Steer", "NormalizedDrivingLine", "NormalizedAIBrakeDifference">> \in Seq(Literals)
    BY DEF Literals
  <1>11. /\ <<"Boost", "Fuel", "DistanceTraveled", "BestLap", "LastLap", "CurrentLap",
             "CurrentRaceTime">> \in Seq(Literals)
         /\ <<"RacePosition", "Accel", "Brake", "Clutch", "HandBrake", "Gear">> \in Seq(Literals)
    BY DEF Literals
  <1>12. /\ Run(<<"EngineMaxRpm", "EngineIdleRpm", "CurrentEngineRpm">>, 8, "F32") \in Seq(Definitions)
         /\ Run(<<"Yaw", "Pitch", "Roll">>, 56, "F32") \in Seq(Definitions)
         /\ Run(<<"SmashableVelDiff", "SmashableMass">>, 236, "F32") \in Seq(Definitions)
         /\ Run(<<"Speed", "Power", "Torque">>, 256, "F32") \in Seq(Definitions)
    BY ONLY <1>2, <1>1, <1>9, LiteralRuns, ZenonT(20)
  <1>13. /\ Run(<<"CarOrdinal", "CarClass", "CarPerformanceIndex", "DrivetrainType",
                  "NumCylinders">>, 212, "S32") \in Seq(Definitions)
         /\ Run(<<"Boost", "Fuel", "DistanceTraveled", "BestLap", "LastLap", "CurrentLap",
                  "CurrentRaceTime">>, 284, "F32") \in Seq(Definitions)
    BY ONLY <1>2, <1>1, <1>10, <1>11, LiteralRuns, ZenonT(20)
  <1>14. <<"RacePosition", "Accel", "Brake", "Clutch", "HandBrake", "Gear">> \in Seq(Literals)
    BY <1>11
  <1>15. Run(<<"RacePosition", "Accel", "Brake", "Clutch", "HandBrake", "Gear">>, 314, "U8")
             \in Seq(Definitions)
    BY ONLY <1>2, <1>1, <1>14, LiteralRuns, ZenonT(20)
  <1>16. Run(<<"Steer", "NormalizedDrivingLine", "NormalizedAIBrakeDifference">>, 320, "S8")
             \in Seq(Definitions)
    BY ONLY <1>2, <1>1, <1>10, LiteralRuns, ZenonT(20)
  <1>17. /\ "Acceleration" \in Literals /\ "Velocity" \in Literals
         /\ "AngularVelocity" \in Literals /\ "Position" \in Literals
    BY DEF Literals
  <1>18. /\ Vector("Acceleration", 20) \in Seq(Definitions)
         /\ Vector("Velocity", 32) \in Seq(Definitions)
         /\ Vector("AngularVelocity", 44) \in Seq(Definitions)
         /\ Vector("Position", 244) \in Seq(Definitions)
    BY ONLY <1>3, <1>17, VectorType, ZenonT(20)
  <1>19. /\ "NormalizedSuspensionTravel" \in Literals /\ "TireSlipRatio" \in Literals
         /\ "WheelRotationSpeed" \in Literals /\ "WheelOnRumbleStrip" \in Literals
         /\ "WheelInPuddle" \in Literals /\ "SurfaceRumble" \in Literals
         /\ "TireSlipAngle" \in Literals /\ "TireCombinedSlip" \in Literals
         /\ "SuspensionTravelMeters" \in Literals /\ "TireTemp" \in Literals
    BY DEF Literals
  <1>20. /\ Wheels("NormalizedSuspensionTravel", 68, "F32") \in Seq(Definitions)
         /\ Wheels("TireSlipRatio", 84, "F32") \in Seq(Definitions)
         /\ Wheels("WheelRotationSpeed", 100, "F32") \in Seq(Definitions)
    BY ONLY <1>4, <1>1, <1>19, WheelsType, ZenonT(20)
  <1>21. /\ Wheels("WheelOnRumbleStrip", 116, "S32") \in Seq(Definitions)
         /\ Wheels("WheelInPuddle", 132, "Puddle") \in Seq(Definitions)
    BY ONLY <1>4, <1>1, <1>19, WheelsType, ZenonT(20)
  <1>22. /\ Wheels("SurfaceRumble", 148, "F32") \in Seq(Definitions)
         /\ Wheels("TireSlipAngle", 164, "F32") \in Seq(Definitions)
    BY ONLY <1>4, <1>1, <1>19, WheelsType, ZenonT(20)
  <1>23. /\ Wheels("TireCombinedSlip", 180, "F32") \in Seq(Definitions)
         /\ Wheels("SuspensionTravelMeters", 196, "F32") \in Seq(Definitions)
         /\ Wheels("TireTemp", 268, "F32") \in Seq(Definitions)
    BY ONLY <1>4, <1>1, <1>19, WheelsType, ZenonT(20)
  <1>24. \A s, t \in Seq(Definitions) : s \o t \in Seq(Definitions)
    BY ConcatProperties
  <1> DEFINE
      body == <<Field("IsRaceOn", 0, "S32"), Field("TimestampMS", 4, "U32")>>
          \o Run(<<"EngineMaxRpm", "EngineIdleRpm", "CurrentEngineRpm">>, 8, "F32")
          \o Vector("Acceleration", 20) \o Vector("Velocity", 32) \o Vector("AngularVelocity", 44)
          \o Run(<<"Yaw", "Pitch", "Roll">>, 56, "F32")
      wheels == body
          \o Wheels("NormalizedSuspensionTravel", 68, "F32")
          \o Wheels("TireSlipRatio", 84, "F32")
          \o Wheels("WheelRotationSpeed", 100, "F32")
          \o Wheels("WheelOnRumbleStrip", 116, "S32")
          \o Wheels("WheelInPuddle", 132, "Puddle")
      tires == wheels
          \o Wheels("SurfaceRumble", 148, "F32")
          \o Wheels("TireSlipAngle", 164, "F32")
          \o Wheels("TireCombinedSlip", 180, "F32")
          \o Wheels("SuspensionTravelMeters", 196, "F32")
      car == tires
          \o Run(<<"CarOrdinal", "CarClass", "CarPerformanceIndex", "DrivetrainType",
                   "NumCylinders">>, 212, "S32")
          \o <<Field("CarGroup", 232, "U32")>>
          \o Run(<<"SmashableVelDiff", "SmashableMass">>, 236, "F32")
          \o Vector("Position", 244)
          \o Run(<<"Speed", "Power", "Torque">>, 256, "F32")
          \o Wheels("TireTemp", 268, "F32")
      race == car
          \o Run(<<"Boost", "Fuel", "DistanceTraveled", "BestLap", "LastLap", "CurrentLap",
                   "CurrentRaceTime">>, 284, "F32")
          \o <<Field("LapNumber", 312, "U16")>>
          \o Run(<<"RacePosition", "Accel", "Brake", "Clutch", "HandBrake", "Gear">>, 314, "U8")
          \o Run(<<"Steer", "NormalizedDrivingLine", "NormalizedAIBrakeDifference">>, 320, "S8")
  <1>25. body \in Seq(Definitions)
    BY <1>8, <1>12, <1>18, <1>24
  <1> HIDE DEF body
  <1>26. wheels \in Seq(Definitions)
    BY <1>20, <1>21, <1>24, <1>25
  <1> HIDE DEF wheels
  <1>27. tires \in Seq(Definitions)
    BY <1>22, <1>23, <1>24, <1>26
  <1> HIDE DEF tires
  <1>28. car \in Seq(Definitions)
    BY <1>8, <1>12, <1>13, <1>18, <1>23, <1>24, <1>27
  <1> HIDE DEF car
  <1>29. race \in Seq(Definitions)
    BY <1>8, <1>13, <1>15, <1>16, <1>24, <1>28
  <1> HIDE DEF race
  <1>30. FIELD_DEFINITIONS = race \o <<Field("ReservedTrailingByte", 323, "U8")>>
    BY Zenon DEF FIELD_DEFINITIONS, body, wheels, tires, car, race
  <1>31. Len(<<Field("ReservedTrailingByte", 323, "U8")>>) = 1
    OBVIOUS
  <1> DEFINE last == <<Field("ReservedTrailingByte", 323, "U8")>>
  <1>32. last \in Seq(Definitions) /\ Len(last) = 1
    BY <1>8, <1>31
  <1> HIDE DEF last
  <1>33. race \o last \in Seq(Definitions) /\ Len(race \o last) = Len(race) + 1 /\ Len(race) \in Nat
    BY <1>29, <1>32, ConcatProperties
  <1> QED
    BY <1>30, <1>33 DEF last

\* Whatever the table, if it passes the assertion at import the rows of the debug page
\* show each byte of the packet once: the half of RowsAreTrue that is about the bytes.
THEOREM EachByteInOneRow ==
    \A byte \in 0..FH6_PACKET_SIZE - 1 :
        Cardinality({row \in DiagnosticRows : byte \in row.bytes}) = 1
  <1> DEFINE table == FIELD_DEFINITIONS
             n == Len(table)
             place == [i \in 1..n |-> table[i].offset]
             size == [i \in 1..n |-> SizeOf[table[i].type]]
             Row(d) == [name |-> d.name, bytes |-> BytesOf(d), decoded |-> DecodedFrom(d.name)]
  <1> SUFFICES ASSUME NEW byte \in 0..FH6_PACKET_SIZE - 1
               PROVE  Cardinality({row \in DiagnosticRows : byte \in row.bytes}) = 1
    OBVIOUS
  <1>1. table \in Seq(Definitions) /\ n \in Nat \ {0}
    BY TableType
  <1>2. \A i \in 1..n : /\ table[i].offset \in Int
                       /\ SizeOf[table[i].type] \in Nat
    <2> HIDE DEF table
    <2>1. \A i \in 1..n : table[i] \in Definitions
      BY <1>1
    <2>2. \A d \in Definitions : d.offset \in Int /\ d.type \in Types
      BY DEF Definitions
    <2> QED
      BY <2>1, <2>2, SizeFacts
  <1>3. place \in [1..n -> Int] /\ size \in [1..n -> Nat]
    BY <1>2
  <1>4. /\ \A i \in 1..n : table[i].offset =
                IF i = 1 THEN 0 ELSE table[i - 1].offset + SizeOf[table[i - 1].type]
        /\ table[n].offset + SizeOf[table[n].type] = FH6_PACKET_SIZE
    BY LayoutAssumption DEF FieldLayoutAsserted
  <1>5. InARow(place, size, n, FH6_PACKET_SIZE)
    <2>1. 1 \in 1..n /\ n \in 1..n /\ \A i \in 2..n : i \in 1..n /\ i - 1 \in 1..n /\ i # 1
      BY <1>1
    <2> HIDE DEF table, n
    <2> QED
      BY <1>4, <2>1 DEF InARow
  <1>6. FH6_PACKET_SIZE \in Nat
    BY DEF FH6_PACKET_SIZE
  <1> HIDE DEF n, place, size
  <1>7. PICK i \in 1..n : /\ byte \in place[i] .. place[i] + size[i] - 1
                         /\ \A j \in 1..n : byte \in place[j] .. place[j] + size[j] - 1 => j = i
    BY <1>1, <1>3, <1>5, <1>6, EachByteOnce
  <1>8. \A j \in 1..n : byte \in BytesOf(table[j]) <=> j = i
    BY <1>7 DEF BytesOf, place, size
  <1>9. DiagnosticRows = {Row(table[j]) : j \in 1..n}
    <2>1. DiagnosticRows = {Row(d) : d \in ToSet(table)}
      BY DEF DiagnosticRows
    <2> HIDE DEF table, Row
    <2>2. DOMAIN table = 1..n
      BY <1>1 DEF n
    <2>3. ToSet(table) = {table[j] : j \in 1..n}
      BY <2>2 DEF ToSet
    <2> QED
      BY <2>1, <2>3
  <1>10. \A j \in 1..n : Row(table[j]).bytes = BytesOf(table[j])
    OBVIOUS
  <1> HIDE DEF table, Row
  <1>11. {row \in DiagnosticRows : byte \in row.bytes} = {Row(table[i])}
    BY <1>8, <1>9, <1>10
  <1> QED
    BY <1>11, FS_Singleton

----------------------------------------------------------------------------
(* The rows of the debug page.                                             *)

\* A row that no attribute stands for shows its own field: the loop over the wheels
\* takes the suffix off the name and puts it back.
LEMMA RawRow ==
    ASSUME NEW name, name \notin DOMAIN Normalized
    PROVE  DecodedFrom(name) = {name}
  <1>1. \A prefix \in DOMAIN WheelRow : WheelAttribute[WheelRow[prefix]] = prefix
    BY DEF WheelRow, WheelAttribute
  <1>2. \A suffix \in DOMAIN SuffixWheel : WheelCorner[SuffixWheel[suffix]] = suffix
    BY DEF SuffixWheel, WheelCorner
  <1> DEFINE sources == {s \in (DOMAIN WheelRow) \X (DOMAIN SuffixWheel) : name = s[1] \o s[2]}
             Source(s) == WheelAttribute[WheelRow[s[1]]] \o WheelCorner[SuffixWheel[s[2]]]
  <1>3. \A s \in sources : Source(s) = name
    BY <1>1, <1>2
  <1>4. DecodedFrom(name) = IF sources = {} THEN {name} ELSE {Source(s) : s \in sources}
    BY Zenon DEF DecodedFrom
  <1> HIDE DEF sources, Source
  <1> QED
    BY <1>3, <1>4

\* A row with attributes shows its own field, but for the engine speed, which is also
\* shown as a share of the highest one.
LEMMA NormalizedRow ==
    ASSUME NEW name \in DOMAIN Normalized
    PROVE  DecodedFrom(name) =
               {name} \cup (IF name = "CurrentEngineRpm" THEN {"EngineMaxRpm"} ELSE {})
  <1> DEFINE From(row, a) == Normalized[row] = {a} /\ Attribute[a] = {row}
             Single ==
                 {"IsRaceOn", "TimestampMS", "EngineMaxRpm", "EngineIdleRpm", "Yaw",
                  "Pitch", "Roll", "Speed", "Power", "Torque", "Boost", "Fuel",
                  "DistanceTraveled", "DrivetrainType", "Gear", "Accel", "Brake",
                  "Clutch", "HandBrake", "Steer", "NormalizedDrivingLine",
                  "NormalizedAIBrakeDifference", "AngularVelocityX", "AngularVelocityY",
                  "AngularVelocityZ"}
  <1>1. DOMAIN Normalized = Single \cup {"CurrentEngineRpm"} /\ "CurrentEngineRpm" \notin Single
    BY DEF Normalized
  <1>2. /\ From("IsRaceOn", "is_race_on")
        /\ From("TimestampMS", "timestamp_seconds")
        /\ From("EngineMaxRpm", "engine_max_rpm")
        /\ From("EngineIdleRpm", "engine_idle_rpm")
        /\ From("Yaw", "orientation_x")
        /\ From("Pitch", "orientation_y")
        /\ From("Roll", "orientation_z")
    BY DEF Normalized, Attribute
  <1>3. /\ From("Speed", "speed")
        /\ From("Power", "power")
        /\ From("Torque", "torque")
        /\ From("Boost", "boost")
        /\ From("Fuel", "fuel_percent")
        /\ From("DistanceTraveled", "distance_traveled")
        /\ From("DrivetrainType", "drivetrain")
    BY DEF Normalized, Attribute
  <1>4. /\ From("Gear", "gear")
        /\ From("Accel", "throttle")
        /\ From("Brake", "brake")
        /\ From("Clutch", "clutch")
        /\ From("HandBrake", "handbrake")
        /\ From("Steer", "steering")
        /\ From("NormalizedDrivingLine", "normalized_driving_line")
    BY DEF Normalized, Attribute
  <1>5. /\ From("NormalizedAIBrakeDifference", "normalized_ai_brake_difference")
        /\ From("AngularVelocityX", "angular_velocity_x")
        /\ From("AngularVelocityY", "angular_velocity_y")
        /\ From("AngularVelocityZ", "angular_velocity_z")
    BY DEF Normalized, Attribute
  <1>6. DecodedFrom(name) = UNION {Attribute[a] : a \in Normalized[name]}
    BY DEF DecodedFrom
  <1>7. CASE name = "CurrentEngineRpm"
    <2>1. /\ Normalized["CurrentEngineRpm"] = {"current_engine_rpm", "engine_rpm_percent"}
          /\ Attribute["current_engine_rpm"] = {"CurrentEngineRpm"}
          /\ Attribute["engine_rpm_percent"] = {"CurrentEngineRpm", "EngineMaxRpm"}
      BY DEF Normalized, Attribute
    <2> QED
      BY <1>6, <1>7, <2>1
  <1>8. CASE name # "CurrentEngineRpm"
    <2>1. name \in Single
      BY <1>1, <1>8
    <2> HIDE DEF From
    <2>2. PICK a : From(name, a)
      BY <1>2, <1>3, <1>4, <1>5, <2>1, Zenon
    <2> USE DEF From
    <2> QED
      BY <1>6, <1>8, <2>2
  <1> QED
    BY <1>7, <1>8

\* Each row shows its own bytes, no byte is in two rows or in none, and the value beside
\* them was decoded from the field of that row.
THEOREM RowsTrue == RowsAreTrue
  <1>1. \A row \in DiagnosticRows : row.decoded =
            {row.name} \cup (IF row.name = "CurrentEngineRpm" THEN {"EngineMaxRpm"} ELSE {})
    <2>1. SUFFICES ASSUME NEW d \in ToSet(FIELD_DEFINITIONS)
                   PROVE  DecodedFrom(d.name) =
                       {d.name} \cup (IF d.name = "CurrentEngineRpm" THEN {"EngineMaxRpm"} ELSE {})
      BY DEF DiagnosticRows
    <2>2. CASE d.name \in DOMAIN Normalized
      BY <2>2, NormalizedRow
    <2>3. CASE d.name \notin DOMAIN Normalized
      <3>1. DecodedFrom(d.name) = {d.name}
        BY <2>3, RawRow
      <3>2. d.name # "CurrentEngineRpm"
        BY <2>3 DEF Normalized
      <3> QED
        BY <3>1, <3>2
    <2> QED
      BY <2>2, <2>3
  <1> QED
    BY <1>1, EachByteInOneRow DEF RowsAreTrue

\* RowsShowTheirBytes, whatever packets were parsed and however often the page asked.
THEOREM RowsAlwaysTrue == Spec => []RowsShowTheirBytes
  <1>1. RowsShowTheirBytes
    BY RowsTrue DEF RowsShowTheirBytes
  <1> QED
    BY <1>1, PTL
=============================================================================
