---------------------------- MODULE Hooke2Codec ----------------------------
(***************************************************************************)
(* The frames between the Hooke2 interface and its chassis: how the six    *)
(* command classes pack their fields into eight bytes and how the report   *)
(* handlers unpack theirs.  Each value is an integer in the unit of its    *)
(* signal (0.01 m/s, 0.1 %, one degree).  The code divides a double by the *)
(* precision and truncates; that is the integer itself, or one less where  *)
(* the quotient falls short of it, which the model leaves out.             *)
(* Identifiers are written in decimal (500 is 0x500).                      *)
(*                                                                         *)
(* The chassis is external: it reads and writes signals as the "config     *)
(* detail" comments of the classes describe them, by start bit and length  *)
(* in Motorola order.                                                      *)
(***************************************************************************)
EXTENDS Integers, Sequences, FiniteSetsExt, SequencesExt

Bytes == 0..255
Data == [0..7 -> Bytes]
EmptyData == [i \in 0..7 |-> 0]

-----------------------------------------------------------------------------
(* Byte.                                                                   *)

\* set_value(value, start_pos, length): the bits around it stay.
set_value(byte, value, start, length) ==
    LET top == 2^Min({start + length, 8})
    IN  (byte \div top) * top + ((value * 2^start) % top) + (byte % 2^start)

get_byte(byte, start, length) ==
    (byte \div 2^start) % 2^Min({length, 8 - start})

BoundedValue(lower, upper, val) ==
    IF val < lower THEN lower ELSE IF val > upper THEN upper ELSE val

-----------------------------------------------------------------------------
(* Commands.  A signal is the range its setter clamps to, its offset, and  *)
(* the pieces the setter writes, each a byte, a start bit, a length and    *)
(* how far the raw value has been shifted by then.                         *)

Piece(byte, start, length, shift) ==
    [byte |-> byte, start |-> start, length |-> length, shift |-> shift]
Signal(lower, upper, offset, pieces) ==
    [lower |-> lower, upper |-> upper, offset |-> offset, pieces |-> pieces]

Word   == {Piece(4, 0, 8, 0), Piece(3, 0, 8, 8)}
TenBit(high) == {Piece(high + 1, 6, 2, 0), Piece(high, 0, 8, 2)}
Flag(byte, start) == Signal(0, 1, 0, {Piece(byte, start, 1, 0)})
Field(byte, length) == Signal(0, 2^length - 1, 0, {Piece(byte, 0, length, 0)})
checksum == Signal(0, 255, 0, {Piece(7, 0, 8, 0)})

Throttlecommand100 ==
    [en |-> Flag(0, 0), vel |-> Signal(0, 1023, 0, TenBit(5)),
     acc |-> Signal(0, 1000, 0, TenBit(1)), pedal |-> Signal(0, 1000, 0, Word),
     checksum |-> checksum]
Brakecommand101 ==
    [aeb |-> Flag(0, 1), dec |-> Signal(100, 1000, 0, TenBit(1)),
     pedal |-> Signal(0, 1000, 0, Word), en |-> Flag(0, 0),
     checksum |-> checksum]
Steeringcommand102 ==
    [en |-> Flag(0, 0), angle |-> Signal(-440, 440, 500, Word),
     spd |-> Signal(0, 250, 0, {Piece(1, 0, 8, 0)}), checksum |-> checksum]
Gearcommand103 == [target |-> Field(1, 3), en |-> Flag(0, 0), checksum |-> checksum]
Parkcommand104 == [target |-> Flag(1, 0), en |-> Flag(0, 0), checksum |-> checksum]
Vehiclemodecommand105 ==
    [turn |-> Field(2, 2), vin |-> Flag(3, 0), drive |-> Field(1, 3),
     steer |-> Field(0, 3), checksum |-> checksum]

Commands ==
    100 :> Throttlecommand100 @@ 101 :> Brakecommand101
    @@ 102 :> Steeringcommand102 @@ 103 :> Gearcommand103
    @@ 104 :> Parkcommand104 @@ 105 :> Vehiclemodecommand105

\* The fields of a command; the checksum stays at its reset value, 0.
Fields(id) == DOMAIN Commands[id] \ {"checksum"}

\* The velocity is sent as a quarter of its value.
Scaled(field, value) == IF field = "vel" THEN value \div 4 ELSE value

Bounded(id, field, value) ==
    LET s == Commands[id][field]
    IN  BoundedValue(s.lower, s.upper, Scaled(field, value))

SetField(data, id, field, value) ==
    LET s == Commands[id][field]
        x == Bounded(id, field, value) + s.offset
    IN  FoldSet(LAMBDA p, d : [d EXCEPT ![p.byte] =
                    set_value(@, x \div 2^p.shift, p.start, p.length)],
                data, s.pieces)

\* The frame of a command whose fields are values; the setters touch
\* different bits, so their order does not matter.
UpdateData(id, values) ==
    FoldSet(LAMBDA field, d : SetField(d, id, field, values[field]),
            EmptyData, Fields(id))

\* What the fields hold after Reset().
Reset(id) == [field \in Fields(id) |-> 0]

-----------------------------------------------------------------------------
(* The chassis' side: signals by start bit and length, most significant    *)
(* bit first, running on into the next byte.                               *)

\* The place of a bit in that order, 0 to 63.
Place(bit) == 8 * (bit \div 8) + 7 - (bit % 8)

DbcRead(data, bit, length) ==
    LET At(n) == (data[n \div 8] \div 2^(7 - (n % 8))) % 2
        first[k \in 0..length] ==
            IF k = 0 THEN 0 ELSE 2 * first[k - 1] + At(Place(bit) + k - 1)
    IN  first[length]

\* signals is a set of <<start bit, length, raw value>>.
DbcWrite(signals) ==
    LET Over(n) == {s \in signals : Place(s[1]) \in n + 1 - s[2]..n}
        At(n) == IF Over(n) = {} THEN 0
                 ELSE LET s == CHOOSE s \in Over(n) : TRUE
                      IN  (s[3] \div 2^(Place(s[1]) + s[2] - 1 - n)) % 2
    IN  [i \in 0..7 |-> LET b[k \in 0..8] == IF k = 0 THEN 0
                                             ELSE 2 * b[k - 1] + At(8 * i + k - 1)
                        IN  b[8]]

Dbc(bit, length, offset) == [bit |-> bit, length |-> length, offset |-> offset]
DbcThrottle100 == [en |-> Dbc(0, 1, 0), vel |-> Dbc(47, 10, 0),
                   acc |-> Dbc(15, 10, 0), pedal |-> Dbc(31, 16, 0)]
DbcBrake101 == [aeb |-> Dbc(1, 1, 0), dec |-> Dbc(15, 10, 0),
                pedal |-> Dbc(31, 16, 0), en |-> Dbc(0, 1, 0)]
DbcSteering102 == [en |-> Dbc(0, 1, 0), angle |-> Dbc(31, 16, -500),
                   spd |-> Dbc(15, 8, 0)]
DbcGear103 == [target |-> Dbc(10, 3, 0), en |-> Dbc(0, 1, 0)]
DbcPark104 == [target |-> Dbc(8, 1, 0), en |-> Dbc(0, 1, 0)]
DbcVehicleMode105 == [turn |-> Dbc(17, 2, 0), vin |-> Dbc(24, 1, 0),
                      drive |-> Dbc(10, 3, 0), steer |-> Dbc(2, 3, 0)]

DbcCommands ==
    100 :> DbcThrottle100 @@ 101 :> DbcBrake101 @@ 102 :> DbcSteering102
    @@ 103 :> DbcGear103 @@ 104 :> DbcPark104 @@ 105 :> DbcVehicleMode105

ChassisReads(id, data) ==
    [field \in Fields(id) |->
       LET d == DbcCommands[id][field]
       IN  DbcRead(data, d.bit, d.length) + d.offset]

-----------------------------------------------------------------------------
(* Reports.                                                                *)

BigEndian(msg, i) == get_byte(msg[i], 0, 8) * 256 + get_byte(msg[i + 1], 0, 8)

\* x <<= 32 - bits; x >>= 32 - bits on an int32_t.
SignExtend(x, bits) == IF x >= 2^(bits - 1) THEN x - 2^bits ELSE x

Enabled(msg) == get_byte(msg[0], 0, 2) = 1
Faulty(msg, i) == get_byte(msg[i], 0, 8) = 1

onThrottleReport500(msg) ==
    [pedal |-> BigEndian(msg, 3), enabled |-> Enabled(msg),
     hardware |-> Faulty(msg, 1), communication |-> Faulty(msg, 2)]
onBrakeReport501(msg) ==
    [pedal |-> BigEndian(msg, 3), enabled |-> Enabled(msg),
     hardware |-> Faulty(msg, 1), communication |-> Faulty(msg, 2)]
\* Mutant: the bytes of the angle are swapped.
onSteeringReportSwapped(msg) ==
    [angle |-> msg[4] * 256 + msg[3] - 500,
     spd |-> get_byte(msg[7], 0, 8), enabled |-> Enabled(msg),
     hardware |-> Faulty(msg, 1), communication |-> Faulty(msg, 2)]
onSteeringReport502(msg) ==
    [angle |-> BigEndian(msg, 3) - 500,
     spd |-> get_byte(msg[7], 0, 8), enabled |-> Enabled(msg),
     hardware |-> Faulty(msg, 1), communication |-> Faulty(msg, 2)]

\* gear_actual to shift_rpt.output, and on to Autoware's gear report.
shift_rpt(gear_actual) ==
    CASE gear_actual = 1 -> "park" [] gear_actual = 2 -> "reverse"
      [] gear_actual = 3 -> "neutral" [] gear_actual = 4 -> "forward"
      [] OTHER -> "none"
toAutowareShiftReport(output) ==
    CASE output = "park" -> "PARK" [] output = "reverse" -> "REVERSE"
      [] output = "forward" -> "DRIVE" [] output = "neutral" -> "NEUTRAL"
      [] OTHER -> "NONE"
onGearReport503(msg) ==
    [gear |-> toAutowareShiftReport(shift_rpt(get_byte(msg[0], 0, 3))),
     fault |-> Faulty(msg, 1)]

onParkReport504(msg) ==
    [parking |-> get_byte(msg[0], 0, 1), fault |-> get_byte(msg[1], 0, 8)]

\* turn_light_actual to turn_rpt.output, and on to Autoware's two reports.
turn_rpt(turn) ==
    CASE turn = 1 -> "left" [] turn = 2 -> "right" [] turn = 3 -> "hazards"
      [] OTHER -> "none"
toAutowareTurnIndicatorsReport(output) ==
    IF output \in {"left", "right"} THEN output ELSE "disable"
toAutowareHazardLightsReport(output) == output = "hazards"

onVcuReport505(msg) ==
    LET turn == turn_rpt(get_byte(msg[7], 0, 2))
    IN  [acc |-> SignExtend(get_byte(msg[0], 0, 8) * 16 + get_byte(msg[1], 4, 4), 12),
         speed |-> SignExtend(BigEndian(msg, 2), 16),
         mode |-> get_byte(msg[4], 3, 2), drive |-> get_byte(msg[4], 5, 3),
         steer |-> get_byte(msg[1], 0, 3), brake_light |-> get_byte(msg[1], 3, 1),
         front |-> get_byte(msg[4], 1, 1), back |-> get_byte(msg[4], 2, 1),
         aeb |-> get_byte(msg[4], 0, 1), errcode |-> get_byte(msg[5], 0, 8),
         turn |-> toAutowareTurnIndicatorsReport(turn),
         hazards |-> toAutowareHazardLightsReport(turn)]

\* Four 16-bit values: wheel speeds, ultrasonic distances.
onWheelSpeedReport506(msg) ==
    [front_left |-> BigEndian(msg, 0), front_right |-> BigEndian(msg, 2),
     rear_left |-> BigEndian(msg, 4), rear_right |-> BigEndian(msg, 6)]
onUltrSensor507(msg) == <<BigEndian(msg, 0), BigEndian(msg, 2),
                          BigEndian(msg, 4), BigEndian(msg, 6)>>
onUltrSensor508(msg) == onUltrSensor507(msg)
onUltrSensor509(msg) == onUltrSensor507(msg)
onUltrSensor510(msg) == onUltrSensor507(msg)
onUltrSensor511(msg) == onUltrSensor507(msg)

\* Volts by 0.01, amperes by 0.1 from -3200, state of charge in percent.
onBmsReport512(msg) ==
    [voltage |-> BigEndian(msg, 0), current |-> BigEndian(msg, 2) - 32000,
     soc |-> get_byte(msg[4], 0, 8)]

onVinReport514(msg) == [i \in 0..7 |-> get_byte(msg[i], 0, 8)]
onVinReport515(msg) == [i \in 0..7 |-> get_byte(msg[i], 0, 8)]
onVinReport516(msg) == [i \in 0..0 |-> get_byte(msg[i], 0, 8)]

ReportIds == (500..512) \cup (514..516)
isTargetId(id) == id \in ReportIds \cup (100..105)

\* What the handler makes of a report.
canTxCallback(id, msg) ==
    CASE id = 500 -> onThrottleReport500(msg)
      [] id = 501 -> onBrakeReport501(msg)
      [] id = 502 -> onSteeringReport502(msg)
      [] id = 503 -> onGearReport503(msg)
      [] id = 504 -> onParkReport504(msg)
      [] id = 505 -> onVcuReport505(msg)
      [] id = 506 -> onWheelSpeedReport506(msg)
      [] id = 507 -> onUltrSensor507(msg)
      [] id = 508 -> onUltrSensor508(msg)
      [] id = 509 -> onUltrSensor509(msg)
      [] id = 510 -> onUltrSensor510(msg)
      [] id = 511 -> onUltrSensor511(msg)
      [] id = 512 -> onBmsReport512(msg)
      [] id = 514 -> onVinReport514(msg)
      [] id = 515 -> onVinReport515(msg)
      [] id = 516 -> onVinReport516(msg)
=============================================================================
