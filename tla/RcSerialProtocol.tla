-------------------------- MODULE RcSerialProtocol --------------------------
(***************************************************************************)
(* The serial line between the RC vehicle interface and its chassis: the   *)
(* command frame, the telemetry frame and the decoder that finds telemetry *)
(* frames in whatever chunks, noise and fragments the line delivers.       *)
(*                                                                         *)
(* Bytes are integers, frames are sequences of bytes; speeds and angles    *)
(* are integers, in 0.1 mm/s and 0.1 mrad before they are quantized.       *)
(***************************************************************************)
EXTENDS Integers, Sequences, FiniteSets, SequencesExt

CONSTANTS
    Streams,       \* byte sequences the line may carry
    Chunks,        \* numbers of bytes a read may return
    Losses,        \* numbers of bytes a reconnection may miss
    Cuts           \* bound: how often the connection is lost

Byte == 0..255

\* read_serial() reads into 512 bytes and ends at a result of 0.
ASSUME WireAssumption ==
    /\ Streams \subseteq Seq(Byte)
    /\ Chunks \subseteq 1..512
    /\ Losses \subseteq Nat
    /\ Cuts \in Nat

kRcFrameHead == 123
kRcFrameTail == 125
kRcAckermannCommandId == 1
kRcTelemetryProtocolId == 161
kRcFeedbackFrameSize == 24

-----------------------------------------------------------------------------
(* Fields.                                                                 *)

\* lround of tenths, halves away from zero; it throws out of the wire range.
fits_wire(tenths) == -327680 <= tenths /\ tenths <= 327670
quantize_milli(tenths) ==
    IF tenths < 0 THEN -((5 - tenths) \div 10) ELSE (tenths + 5) \div 10

encode_i16_be(value) == <<(value % 65536) \div 256, value % 256>>
decode_u16_be(high, low) == high * 256 + low
decode_i16_be(high, low) ==
    LET raw == decode_u16_be(high, low) IN IF raw >= 32768 THEN raw - 65536 ELSE raw
decode_i32_be(data) ==
    decode_i16_be(data[1], data[2]) * 65536 + decode_u16_be(data[3], data[4])

\* As two halves, since TLC's integers have 32 bits.
decode_u32_be(data) ==
    <<decode_u16_be(data[1], data[2]), decode_u16_be(data[3], data[4])>>

\* Exclusive or of two bytes, digit by digit.
Xor(a, b) ==
    LET Digit(p) == IF (a \div p) % 2 = (b \div p) % 2 THEN 0 ELSE p
    IN  Digit(1) + Digit(2) + Digit(4) + Digit(8)
        + Digit(16) + Digit(32) + Digit(64) + Digit(128)

calculate_bcc(data) == FoldLeft(Xor, 0, data)

-----------------------------------------------------------------------------
(* Commands.                                                               *)

Stopped(command) == ~command.enable \/ command.software_stop

\* What encode_command_frame() throws at: a clear-fault frame that asks for
\* anything else, or values beyond the wire.
Encodable(command) ==
    /\ command.clear_fault => /\ ~command.enable /\ ~command.software_stop
                              /\ command.speed = 0 /\ command.steering = 0
    /\ ~Stopped(command) => fits_wire(command.speed) /\ fits_wire(command.steering)

encode_command_frame(command) ==
    LET stopped == Stopped(command)
        speed == IF stopped THEN 0 ELSE quantize_milli(command.speed)
        steering == IF stopped THEN 0 ELSE quantize_milli(command.steering)
        flags == (IF command.enable THEN 1 ELSE 0)
                 + (IF command.clear_fault THEN 4 ELSE 0)
                 + (IF command.software_stop THEN 128 ELSE 0)
        v == encode_i16_be(speed)
        a == encode_i16_be(steering)
        body == <<kRcFrameHead, kRcAckermannCommandId, flags,
                  v[1], v[2], a[1], a[2], 0, 0>>
    IN  body \o <<calculate_bcc(body), kRcFrameTail>>

-----------------------------------------------------------------------------
(* Telemetry.                                                              *)

WellFramed(frame) ==
    /\ frame[1] = kRcFrameHead /\ frame[24] = kRcFrameTail
    /\ frame[23] = calculate_bcc(SubSeq(frame, 1, 22))

feedback(frame) ==
    [status_flags |-> frame[2], sequence |-> frame[3],
     hall |-> decode_i32_be(SubSeq(frame, 4, 7)),
     speed |-> decode_i16_be(frame[8], frame[9]),
     steering |-> decode_i16_be(frame[10], frame[11]),
     yaw_rate |-> decode_i16_be(frame[12], frame[13]),
     battery |-> decode_u16_be(frame[14], frame[15]),
     dt |-> decode_u16_be(frame[16], frame[17]),
     status_bits |-> decode_u32_be(SubSeq(frame, 18, 21))]

\* As a sequence of at most one element.
decode_feedback_frame(frame) ==
    IF WellFramed(frame) /\ frame[22] = kRcTelemetryProtocolId
    THEN <<feedback(frame)>> ELSE <<>>

-----------------------------------------------------------------------------
(* FeedbackStreamDecoder.  append() runs to its end before anything else   *)
(* happens: while it does, pc is "decode" and only its turns are enabled.  *)

VARIABLES
    stream,        \* what the line carries
    position,      \* how far it has been read or missed
    since,         \* the first byte of the present connection
    buffer,        \* buffer_
    stats,         \* stats_
    decoded,       \* every telemetry value handed to the node
    pc,            \* "decode" in append()'s loop
    \* History, which no guard but the bound on ended reads.
    ended,         \* <<from, to>> of the connections that were lost
    received,      \* how many bytes reads returned
    taken,         \* where in stream each decoded frame begins
    foreign        \* where frames of another protocol begin

history == <<ended, received, taken, foreign>>
vars == <<stream, position, since, buffer, stats, decoded, pc, history>>

NoStats == [valid_frames |-> 0, bcc_errors |-> 0, tail_errors |-> 0,
            protocol_errors |-> 0, discarded_bytes |-> 0]

Init ==
    /\ stream \in Streams
    /\ position = 0 /\ since = 1
    /\ buffer = <<>> /\ stats = NoStats /\ decoded = <<>> /\ pc = "idle"
    /\ ended = {} /\ received = 0 /\ taken = <<>> /\ foreign = {}

\* read_serial(): a read returns n bytes, which append() puts in the buffer.
read_serial(n) ==
    /\ pc = "idle"
    /\ position + n <= Len(stream)
    /\ buffer' = buffer \o SubSeq(stream, position + 1, position + n)
    /\ position' = position + n
    /\ received' = received + n
    /\ pc' = "decode"
    /\ UNCHANGED <<stream, since, stats, decoded, ended, taken, foreign>>

-----------------------------------------------------------------------------
(* The turns of append()'s loop.                                           *)

\* Where in stream the buffer begins.
start == position - Len(buffer) + 1

Erase(n) == buffer' = SubSeq(buffer, n + 1, Len(buffer))
Discard(n) ==
    /\ Erase(n)
    /\ stats' = [stats EXCEPT !.discarded_bytes = @ + n]

NoHeaderIn(n) == \A i \in 1..n : buffer[i] # kRcFrameHead
line == <<stream, position, since>>

discard_all ==
    /\ pc = "decode"
    /\ NoHeaderIn(Len(buffer))
    /\ Discard(Len(buffer))
    /\ pc' = "idle"
    /\ UNCHANGED <<line, decoded, history>>

\* Noise before the first header.
skip_to_header ==
    /\ pc = "decode"
    /\ \E n \in 1..Len(buffer) - 1 :
         /\ NoHeaderIn(n) /\ buffer[n + 1] = kRcFrameHead
         /\ Discard(n)
    /\ UNCHANGED <<line, decoded, pc, history>>

HeaderFirst == buffer # <<>> /\ buffer[1] = kRcFrameHead

wait_for_more ==
    /\ pc = "decode"
    /\ HeaderFirst /\ Len(buffer) < kRcFeedbackFrameSize
    /\ pc' = "idle"
    /\ UNCHANGED <<line, buffer, stats, decoded, history>>

FrameReady == pc = "decode" /\ HeaderFirst /\ Len(buffer) >= kRcFeedbackFrameSize
frame == SubSeq(buffer, 1, kRcFeedbackFrameSize)

\* Mutant: a wrong tail drops a frame's length.
tail_error_by_frame ==
    /\ FrameReady /\ frame[24] # kRcFrameTail
    /\ Erase(kRcFeedbackFrameSize)
    /\ stats' = [stats EXCEPT !.discarded_bytes = @ + kRcFeedbackFrameSize, !.tail_errors = @ + 1]
    /\ UNCHANGED <<line, decoded, pc, history>>
tail_error ==
    /\ FrameReady /\ frame[24] # kRcFrameTail
    /\ Erase(1)
    /\ stats' = [stats EXCEPT !.discarded_bytes = @ + 1, !.tail_errors = @ + 1]
    /\ UNCHANGED <<line, decoded, pc, history>>

bcc_error ==
    /\ FrameReady /\ frame[24] = kRcFrameTail
    /\ frame[23] # calculate_bcc(SubSeq(frame, 1, 22))
    /\ Erase(1)
    /\ stats' = [stats EXCEPT !.discarded_bytes = @ + 1, !.bcc_errors = @ + 1]
    /\ UNCHANGED <<line, decoded, pc, history>>

protocol_error ==
    /\ FrameReady /\ WellFramed(frame) /\ frame[22] # kRcTelemetryProtocolId
    /\ Erase(kRcFeedbackFrameSize)
    /\ stats' = [stats EXCEPT !.discarded_bytes = @ + kRcFeedbackFrameSize, !.protocol_errors = @ + 1]
    /\ foreign' = foreign \cup {start}
    /\ UNCHANGED <<line, decoded, pc, ended, received, taken>>

valid_frame ==
    /\ FrameReady /\ WellFramed(frame) /\ frame[22] = kRcTelemetryProtocolId
    /\ decoded' = decoded \o decode_feedback_frame(frame)
    /\ stats' = [stats EXCEPT !.valid_frames = @ + Len(decode_feedback_frame(frame))]
    /\ Erase(kRcFeedbackFrameSize)
    /\ taken' = Append(taken, start)
    /\ UNCHANGED <<line, pc, ended, received, foreign>>

append ==
    \/ discard_all \/ skip_to_header \/ wait_for_more
    \/ tail_error \/ bcc_error \/ protocol_error \/ valid_frame

-----------------------------------------------------------------------------
(* Connections.                                                            *)

\* Mutant: the discarded bytes are not counted.
discard_uncounted ==
    buffer' = <<>> /\ UNCHANGED stats
discard_buffer ==
    /\ stats' = [stats EXCEPT !.discarded_bytes = @ + Len(buffer)]
    /\ buffer' = <<>>

\* close_serial() and open_serial(): what is buffered is discarded, and what
\* the chassis sends in between is lost.
reconnect(n) ==
    /\ pc = "idle"
    /\ Cardinality(ended) < Cuts
    /\ position + n <= Len(stream)
    /\ discard_buffer
    /\ ended' = ended \cup {<<since, position>>}
    /\ position' = position + n
    /\ since' = position + n + 1
    /\ UNCHANGED <<stream, decoded, pc, received, taken, foreign>>

Next == \/ \E n \in Chunks : read_serial(n)
        \/ append
        \/ \E n \in Losses : reconnect(n)

Spec == Init /\ [][Next]_vars

-----------------------------------------------------------------------------
(* The chassis' side, external: how the firmware builds a telemetry frame. *)

High(value) == (value % 65536) \div 256
Low(value) == value % 256
Upper(value) == value \div 65536
TelemetryFrame(t) ==
    LET body == <<kRcFrameHead, t.status_flags, t.sequence,
                  High(Upper(t.hall)), Low(Upper(t.hall)),
                  High(t.hall), Low(t.hall),
                  High(t.speed), Low(t.speed), High(t.steering), Low(t.steering),
                  High(t.yaw_rate), Low(t.yaw_rate),
                  High(t.battery), Low(t.battery), High(t.dt), Low(t.dt),
                  High(t.status_bits[1]), Low(t.status_bits[1]),
                  High(t.status_bits[2]), Low(t.status_bits[2]),
                  kRcTelemetryProtocolId>>
    IN  body \o <<calculate_bcc(body), kRcFrameTail>>

-----------------------------------------------------------------------------
(* What the line says, connection by connection.                           *)

Bytes(p) == SubSeq(stream, p, p + 23)

\* The 24 bytes from p on were read by one connection.
Whole(p) == \/ since <= p /\ p + 23 <= position
            \/ \E c \in ended : c[1] <= p /\ p + 23 <= c[2]

Frames == foreign \cup {taken[i] : i \in 1..Len(taken)}

\* However the bytes are cut into reads, and whatever noise, fragments and
\* damaged frames stand between them, append() hands on the telemetry the
\* chassis sent on each connection, each value once, in order and exact; the
\* end of one connection never joins the beginning of the next.  Frames are
\* found from the left: when append() has returned, the only well-formed ones
\* not found begin inside one that was.
FramesRecovered ==
    /\ Len(decoded) = Len(taken)
    /\ \A i \in 1..Len(taken) :
         /\ Whole(taken[i])
         /\ TelemetryFrame(decoded[i]) = Bytes(taken[i])
         /\ \A j \in 1..i - 1 : taken[j] + 24 <= taken[i]
    /\ \A p \in foreign :
         Whole(p) /\ WellFramed(Bytes(p)) /\ Bytes(p)[22] # kRcTelemetryProtocolId
    /\ \A p, q \in Frames : p < q => p + 24 <= q
    /\ pc = "idle" =>
         \A p \in 1..Len(stream) - 23 :
           Whole(p) /\ WellFramed(Bytes(p)) => \E q \in Frames : q <= p /\ p < q + 24

\* Every byte read is part of a decoded frame, counted as discarded or still
\* in the buffer, which append() leaves with less than a frame and with a
\* header first; the error counts never claim more than was discarded.
BytesAccounted ==
    /\ received = stats.discarded_bytes + 24 * stats.valid_frames + Len(buffer)
    /\ stats.valid_frames = Len(decoded)
    /\ stats.bcc_errors + stats.tail_errors + 24 * stats.protocol_errors
         <= stats.discarded_bytes
    /\ pc = "idle" => /\ Len(buffer) < kRcFeedbackFrameSize
                      /\ buffer # <<>> => buffer[1] = kRcFrameHead
=============================================================================
