-------------------------- MODULE MCTelemetryState --------------------------
(* Small instances of TelemetryState for TLC: what may be sent.            *)
EXTENDS TelemetryState

\* A car that drives at 30 m/s.
MCPlausible ==
    [f \in LapTimes |-> 60] @@ [f \in OfWheels("TireTemp") |-> 180]
    @@ [f \in OfWheels("NormalizedSuspensionTravel") |-> 50]
    @@ [f \in OfWheels("WheelOnRumbleStrip") |-> 0]
    @@ [IsRaceOn |-> 1, EngineMaxRpm |-> 8000, EngineIdleRpm |-> 900, CurrentEngineRpm |-> 4000,
        VelocityX |-> 10, VelocityY |-> 20, VelocityZ |-> 20, Speed |-> 30, Fuel |-> 50,
        CarClass |-> 3, DrivetrainType |-> 1, NumCylinders |-> 8, Gear |-> 3,
        ReservedTrailingByte |-> 0]

Bytes == {"Gear", "ReservedTrailingByte"}
Integers32 == {"IsRaceOn", "CarClass", "DrivetrainType", "NumCylinders"} \cup OfWheels("WheelOnRumbleStrip")
Floats == DOMAIN MCPlausible \ (Bytes \cup Integers32)

\* What one damaged field may hold: the ends of its type and values beside its range.
Damage(f) ==
    IF f \in Bytes THEN {11, 12, 255}
    ELSE IF f \in Integers32 THEN {-1, 25, 2147483647}
    ELSE {NaN, Inf, NegInf, -51, 0, 30001}

Whole(fault) == [size |-> FH6_PACKET_SIZE, fault |-> fault]
Short == [size |-> 311, fault |-> <<>>]
TwoBad == Whole([Speed |-> NaN, Fuel |-> 200])
ThreeBad == Whole([CarClass |-> 99, BestLap |-> -1, Gear |-> 200])

\* A mixture of all sorts, and every way to damage one field.
MCSenders ==
    {[datagrams |-> {Whole(<<>>), Short, TwoBad}, most |-> 3],
     [datagrams |-> {ThreeBad}, most |-> 1]}
    \cup UNION {{[datagrams |-> {Whole(f :> v)}, most |-> 1] : v \in Damage(f)} :
                    f \in DOMAIN MCPlausible}
=============================================================================
