------------------------- MODULE MCRcSerialProtocol -------------------------
EXTENDS RcSerialProtocol

Value(speed, steering, sequence) ==
    [status_flags |-> 64, sequence |-> sequence, hall |-> -3, speed |-> speed,
     steering |-> steering, yaw_rate |-> -100, battery |-> 12150, dt |-> 50,
     status_bits |-> <<1, 324>>]

\* Telemetry that repeats what the chassis read in a command.
Command(enable, stop, speed, steering) ==
    [enable |-> enable, software_stop |-> stop, clear_fault |-> FALSE,
     speed |-> speed, steering |-> steering]
Echo(command, sequence) ==
    LET f == encode_command_frame(command)
    IN  IF Encodable(command) /\ f[10] = calculate_bcc(SubSeq(f, 1, 9)) /\ f[11] = 125
        THEN TelemetryFrame(Value(decode_i16_be(f[4], f[5]),
                                  decode_i16_be(f[6], f[7]), sequence))
        ELSE <<>>

\* Frames whose payload holds a header (123 is one; 31613 is 123, 125), one
\* cut short, one damaged, one of another protocol; stray bytes.
Good == Echo(Command(TRUE, FALSE, -4995, 2624), 90)
Stop == Echo(Command(TRUE, TRUE, 31000, 2624), 123)
Tricky == TelemetryFrame(Value(31613, -349, 1))
Foreign == LET body == [SubSeq(Good, 1, 22) EXCEPT ![22] = 160]
           IN  body \o <<calculate_bcc(body), 125>>
Pieces == {<<125, 123, 7>>, Good, Tricky, Foreign, SubSeq(Good, 1, 11),
           [Good EXCEPT ![9] = 0]}

MCStreams == {<<123>> \o a \o b \o Stop : a, b \in Pieces}
=============================================================================
