---------------------------- MODULE PacketLayout ----------------------------
(***************************************************************************)
(* The 324-byte FH6 packet: the field table and the parser                 *)
(* (src/app/telemetry/parser.py) and the debug rows made from them         *)
(* (src/app/telemetry/diagnostics.py).                                     *)
(*                                                                         *)
(* A value is named by the wire field it is decoded from; units, notes and *)
(* the arithmetic of the conversions are left out.  What is kept is the    *)
(* wiring: which bytes a field is, which field each attribute of a packet  *)
(* is parsed from, and which attributes each debug row shows.              *)
(***************************************************************************)
EXTENDS Integers, SequencesExt

Corners == <<"FrontLeft", "FrontRight", "RearLeft", "RearRight">>
Axes == <<"X", "Y", "Z">>

FH6_PACKET_SIZE == 324

SizeOf == [S32 |-> 4, U32 |-> 4, F32 |-> 4, U16 |-> 2, U8 |-> 1, S8 |-> 1, Puddle |-> 4]

----------------------------------------------------------------------------
(* FIELD_DEFINITIONS.                                                      *)

Field(name, offset, type) == [name |-> name, offset |-> offset, type |-> type]

\* A run of fields of one type, the first at the given offset.
Run(names, offset, type) ==
    [i \in 1..Len(names) |-> Field(names[i], offset + (i - 1) * SizeOf[type], type)]
Vector(name, offset) == Run([i \in 1..3 |-> name \o Axes[i]], offset, "F32")
Wheels(name, offset, type) == Run([i \in 1..4 |-> name \o Corners[i]], offset, type)

FIELD_DEFINITIONS ==
    <<Field("IsRaceOn", 0, "S32"), Field("TimestampMS", 4, "U32")>>
    \o Run(<<"EngineMaxRpm", "EngineIdleRpm", "CurrentEngineRpm">>, 8, "F32")
    \o Vector("Acceleration", 20) \o Vector("Velocity", 32) \o Vector("AngularVelocity", 44)
    \o Run(<<"Yaw", "Pitch", "Roll">>, 56, "F32")
    \o Wheels("NormalizedSuspensionTravel", 68, "F32")
    \o Wheels("TireSlipRatio", 84, "F32")
    \o Wheels("WheelRotationSpeed", 100, "F32")
    \o Wheels("WheelOnRumbleStrip", 116, "S32")
    \o Wheels("WheelInPuddle", 132, "Puddle")
    \o Wheels("SurfaceRumble", 148, "F32")
    \o Wheels("TireSlipAngle", 164, "F32")
    \o Wheels("TireCombinedSlip", 180, "F32")
    \o Wheels("SuspensionTravelMeters", 196, "F32")
    \o Run(<<"CarOrdinal", "CarClass", "CarPerformanceIndex", "DrivetrainType", "NumCylinders">>,
           212, "S32")
    \o <<Field("CarGroup", 232, "U32")>>
    \o Run(<<"SmashableVelDiff", "SmashableMass">>, 236, "F32")
    \o Vector("Position", 244)
    \o Run(<<"Speed", "Power", "Torque">>, 256, "F32")
    \o Wheels("TireTemp", 268, "F32")
    \o Run(<<"Boost", "Fuel", "DistanceTraveled", "BestLap", "LastLap", "CurrentLap",
             "CurrentRaceTime">>, 284, "F32")
    \o <<Field("LapNumber", 312, "U16")>>
    \o Run(<<"RacePosition", "Accel", "Brake", "Clutch", "HandBrake", "Gear">>, 314, "U8")
    \o Run(<<"Steer", "NormalizedDrivingLine", "NormalizedAIBrakeDifference">>, 320, "S8")
    \o <<Field("ReservedTrailingByte", 323, "U8")>>

\* _assert_field_layout: the module cannot be imported otherwise.
FieldLayoutAsserted ==
    LET n == Len(FIELD_DEFINITIONS)
        EndOf(d) == d.offset + SizeOf[d.type]
    IN  /\ \A i, j \in 1..n : FIELD_DEFINITIONS[i].name = FIELD_DEFINITIONS[j].name => i = j
        /\ \A i \in 1..n : FIELD_DEFINITIONS[i].offset =
               IF i = 1 THEN 0 ELSE EndOf(FIELD_DEFINITIONS[i - 1])
        /\ EndOf(FIELD_DEFINITIONS[n]) = FH6_PACKET_SIZE

ASSUME LayoutAssumption == FieldLayoutAsserted

FieldNames == {d.name : d \in ToSet(FIELD_DEFINITIONS)}

\* The bytes decode_fields reads for one definition.
BytesOf(d) == d.offset .. d.offset + SizeOf[d.type] - 1

----------------------------------------------------------------------------
(* parse_packet and diagnostic_rows.                                       *)

\* Mutant: a copied line keeps the corner of the wheel above it.
WheelCornerCopied == [front_left |-> "FrontLeft", front_right |-> "FrontRight",
                      rear_left |-> "RearLeft", rear_right |-> "RearLeft"]

\* WheelsTelemetry: the corner each wheel of a packet is parsed for.
WheelCorner == [front_left |-> "FrontLeft", front_right |-> "FrontRight",
                rear_left |-> "RearLeft", rear_right |-> "RearRight"]

\* wheel(corner): the fields behind the attributes a row shows.
WheelAttribute == [rotation_speed_rpm |-> "WheelRotationSpeed",
                   on_rumble_strip |-> "WheelOnRumbleStrip",
                   puddle |-> "WheelInPuddle", tire_temperature |-> "TireTemp"]

\* race, vehicle, inputs and motion: the fields behind the attributes a row shows.
Attribute ==
    [is_race_on |-> {"IsRaceOn"}, timestamp_seconds |-> {"TimestampMS"},
     engine_max_rpm |-> {"EngineMaxRpm"}, engine_idle_rpm |-> {"EngineIdleRpm"},
     current_engine_rpm |-> {"CurrentEngineRpm"},
     engine_rpm_percent |-> {"CurrentEngineRpm", "EngineMaxRpm"},
     drivetrain |-> {"DrivetrainType"}, speed |-> {"Speed"}, power |-> {"Power"},
     torque |-> {"Torque"}, boost |-> {"Boost"}, fuel_percent |-> {"Fuel"},
     distance_traveled |-> {"DistanceTraveled"},
     throttle |-> {"Accel"}, brake |-> {"Brake"}, clutch |-> {"Clutch"},
     handbrake |-> {"HandBrake"}, steering |-> {"Steer"}, gear |-> {"Gear"},
     normalized_driving_line |-> {"NormalizedDrivingLine"},
     normalized_ai_brake_difference |-> {"NormalizedAIBrakeDifference"},
     angular_velocity_x |-> {"AngularVelocityX"}, angular_velocity_y |-> {"AngularVelocityY"},
     angular_velocity_z |-> {"AngularVelocityZ"},
     orientation_x |-> {"Yaw"}, orientation_y |-> {"Pitch"}, orientation_z |-> {"Roll"}]

\* _normalized_values: the attributes written in a row instead of the raw value.
Normalized ==
    [IsRaceOn |-> {"is_race_on"}, TimestampMS |-> {"timestamp_seconds"},
     EngineMaxRpm |-> {"engine_max_rpm"}, EngineIdleRpm |-> {"engine_idle_rpm"},
     CurrentEngineRpm |-> {"current_engine_rpm", "engine_rpm_percent"},
     Yaw |-> {"orientation_x"}, Pitch |-> {"orientation_y"}, Roll |-> {"orientation_z"},
     Speed |-> {"speed"}, Power |-> {"power"}, Torque |-> {"torque"}, Boost |-> {"boost"},
     Fuel |-> {"fuel_percent"}, DistanceTraveled |-> {"distance_traveled"},
     DrivetrainType |-> {"drivetrain"}, Gear |-> {"gear"}, Accel |-> {"throttle"},
     Brake |-> {"brake"}, Clutch |-> {"clutch"}, HandBrake |-> {"handbrake"},
     Steer |-> {"steering"}, NormalizedDrivingLine |-> {"normalized_driving_line"},
     NormalizedAIBrakeDifference |-> {"normalized_ai_brake_difference"},
     AngularVelocityX |-> {"angular_velocity_x"}, AngularVelocityY |-> {"angular_velocity_y"},
     AngularVelocityZ |-> {"angular_velocity_z"}]

\* The loop over the wheels in _normalized_values: the wheel of each suffix.
SuffixWheel == [FrontLeft |-> "front_left", FrontRight |-> "front_right",
                RearLeft |-> "rear_left", RearRight |-> "rear_right"]
WheelRow == [prefix \in {"WheelRotationSpeed", "WheelOnRumbleStrip", "WheelInPuddle", "TireTemp"} |->
    CASE prefix = "WheelRotationSpeed" -> "rotation_speed_rpm"
      [] prefix = "WheelOnRumbleStrip" -> "on_rumble_strip"
      [] prefix = "WheelInPuddle"      -> "puddle"
      [] prefix = "TireTemp"           -> "tire_temperature"]

\* diagnostic_rows: the fields that the decoded value of each row comes from.
DecodedFrom(name) ==
    IF name \in DOMAIN Normalized
    THEN UNION {Attribute[a] : a \in Normalized[name]}
    ELSE LET sources == {s \in (DOMAIN WheelRow) \X (DOMAIN SuffixWheel) : name = s[1] \o s[2]}
         IN  IF sources = {} THEN {name}    \* the raw value, as it is
             ELSE {WheelAttribute[WheelRow[s[1]]] \o WheelCorner[SuffixWheel[s[2]]] : s \in sources}

\* One row per definition: its own bytes, and the fields its value is decoded from.
DiagnosticRows ==
    {[name |-> d.name, bytes |-> BytesOf(d), decoded |-> DecodedFrom(d.name)] :
        d \in ToSet(FIELD_DEFINITIONS)}
=============================================================================
