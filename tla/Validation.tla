----------------------------- MODULE Validation -----------------------------
(***************************************************************************)
(* The sanity checks of src/app/telemetry/validation.py.                   *)
(*                                                                         *)
(* A packet is a function from the wire fields that are checked to values. *)
(* A number counts units of its field (rpm, m/s, degrees, seconds; Fuel    *)
(* and the suspension in hundredths), and a float may also be NaN or       *)
(* infinite, with the comparisons of IEEE 754.  The messages are left out. *)
(***************************************************************************)
EXTENDS Integers, FiniteSets, Sequences, TLC

CONSTANTS NaN, Inf, NegInf

ASSUME FloatAssumption ==
    /\ Cardinality({NaN, Inf, NegInf}) = 3
    /\ \A x \in {NaN, Inf, NegInf} : x \notin Int

\* math.isfinite
IsFinite(x) == x \notin {NaN, Inf, NegInf}

\* a <= b for floats.
LessOrEqual(a, b) ==
    /\ a # NaN /\ b # NaN
    /\ \/ a = b \/ a = NegInf \/ b = Inf
       \/ IsFinite(a) /\ IsFinite(b) /\ a <= b

InRange(x, lo, hi) == IsFinite(x) /\ LessOrEqual(lo, x) /\ LessOrEqual(x, hi)

AbsoluteValue(n) == IF n < 0 THEN -n ELSE n
AtLeast(n, least) == IF n < least THEN least ELSE n

\* Vector3.magnitude, in whole m/s.
Magnitude(x, y, z) ==
    IF NaN \in {x, y, z} THEN NaN
    ELSE IF {x, y, z} \cap {Inf, NegInf} # {} THEN Inf
    ELSE LET sum == x * x + y * y + z * z
         IN  CHOOSE m \in 0 .. AbsoluteValue(x) + AbsoluteValue(y) + AbsoluteValue(z) :
                m * m <= sum /\ sum < (m + 1) * (m + 1)

\* Within 5 % of the speed, or half a m/s.  An infinite speed tolerates any
\* velocity; max(0.5, nan) is 0.5, but nothing is close to a speed that is NaN.
MatchesSpeed(velocity, speed) ==
    /\ IsFinite(velocity)
    /\ \/ speed \in {Inf, NegInf}
       \/ /\ IsFinite(speed)
          /\ 20 * AbsoluteValue(velocity - speed) <= AtLeast(AbsoluteValue(speed), 10)

OfWheels(name) == {name \o corner : corner \in {"FrontLeft", "FrontRight", "RearLeft", "RearRight"}}
LapTimes == {"BestLap", "LastLap", "CurrentLap", "CurrentRaceTime"}

\* The range of each field whose check is an error, and a warning.
ErrorRanges ==
    [f \in {"EngineMaxRpm", "CurrentEngineRpm"} |-> <<0, 30000>>]
    @@ [f \in {"IsRaceOn"} |-> <<0, 1>>]
    @@ [f \in LapTimes |-> <<0, Inf>>]
    @@ [f \in OfWheels("TireTemp") |-> <<-40, 500>>]
    @@ [EngineIdleRpm |-> <<0, 5000>>, Speed |-> <<0, 200>>, Fuel |-> <<0, 105>>,
        CarClass |-> <<0, 7>>, DrivetrainType |-> <<0, 2>>, NumCylinders |-> <<0, 24>>,
        Gear |-> <<0, 11>>]
WarningRanges ==
    [f \in OfWheels("NormalizedSuspensionTravel") |-> <<-50, 150>>]
    @@ [f \in OfWheels("WheelOnRumbleStrip") |-> <<0, 1>>]

\* The fields that some check looks at.
CheckedFields ==
    DOMAIN ErrorRanges \cup DOMAIN WarningRanges
    \cup {"EngineMaxRpm", "EngineIdleRpm", "VelocityX", "VelocityY", "VelocityZ", "Speed",
          "Gear", "ReservedTrailingByte"}

OutOfRange(p, ranges) ==
    {f \in DOMAIN ranges : ~InRange(p[f], ranges[f][1], ranges[f][2])}

\* The failed checks that are errors.  EngineIdleRpm is checked twice.
ImportantFailures(p) ==
    LET ordered == p.EngineMaxRpm = 0 \/ LessOrEqual(p.EngineIdleRpm, p.EngineMaxRpm)
        matched == MatchesSpeed(Magnitude(p.VelocityX, p.VelocityY, p.VelocityZ), p.Speed)
    IN  {<<f, "range">> : f \in OutOfRange(p, ErrorRanges)}
        \cup (IF ordered THEN {} ELSE {<<"EngineIdleRpm", "order">>})
        \cup (IF matched THEN {} ELSE {<<"VelocityX", "match">>})

\* Mutant: two failures are enough.
LayoutLikelyValidStrict(p) == Cardinality(ImportantFailures(p)) < 2
LayoutLikelyValid(p) == Cardinality(ImportantFailures(p)) < 3

\* The fields of all issues, as the debug page marks them.
IssueFields(p) ==
    {failure[1] : failure \in ImportantFailures(p)}
    \cup OutOfRange(p, WarningRanges)
    \cup (IF p.Gear = 11 THEN {"Gear"} ELSE {})
    \cup (IF p.ReservedTrailingByte # 0 THEN {"ReservedTrailingByte"} ELSE {})
    \cup (IF LayoutLikelyValid(p) THEN {} ELSE {"layout"})
=============================================================================
