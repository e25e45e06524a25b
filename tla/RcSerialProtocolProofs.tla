----------------------- MODULE RcSerialProtocolProofs -----------------------
(***************************************************************************)
(* Proofs for RcSerialProtocol, for every stream of bytes, every way of    *)
(* cutting it into reads and every loss of the connection: the decoder     *)
(* recovers the frames and accounts for every byte, its loop ends, and     *)
(* what is written into a frame is what is read back from it.              *)
(***************************************************************************)
EXTENDS RcSerialProtocol, SequenceTheorems, WellFoundedInduction, TLAPS

-----------------------------------------------------------------------------
(* Fields.                                                                 *)

\* Quotient and remainder are the ones that spell the number.
LEMMA Division ==
    /\ \A x \in Int, k \in Int, r \in Int :
         x = 256 * k + r /\ 0 <= r /\ r < 256 => x \div 256 = k /\ x % 256 = r
    /\ \A x \in Int, k \in Int, r \in Int :
         x = 65536 * k + r /\ 0 <= r /\ r < 65536 => x \div 65536 = k /\ x % 65536 = r
OBVIOUS

\* x is made of the bytes a and b, up to multiples of 65536.
Spells(x, k, a, b) == x = 65536 * k + 256 * a + b

\* A number has one pair of bytes.
LEMMA Spelled ==
    ASSUME NEW x \in Int, NEW k \in Int, NEW a \in Byte, NEW b \in Byte,
           Spells(x, k, a, b)
    PROVE  High(x) = a /\ Low(x) = b
<1>1. a \in Int /\ b \in Int /\ 0 <= a /\ a < 256 /\ 0 <= b /\ b < 256
      BY DEF Byte
<1>2. x = 65536 * k + (256 * a + b) /\ x = 256 * (256 * k + a) + b
      BY <1>1 DEF Spells
<1>3. 256 * a + b \in Int /\ 256 * k + a \in Int /\ 0 <= 256 * a + b /\ 256 * a + b < 65536
      BY <1>1
<1>4. x % 65536 = 256 * a + b
      BY <1>2, <1>3, Division
<1>5. (256 * a + b) \div 256 = a
      BY <1>1, <1>3, Division
<1>6. x % 256 = b
      BY <1>1, <1>2, <1>3, Division
<1> QED
      BY <1>4, <1>5, <1>6 DEF High, Low

\* Two bytes are the number they spell, unsigned and in two's complement.
LEMMA BytesRead ==
    ASSUME NEW a \in Byte, NEW b \in Byte
    PROVE  /\ decode_u16_be(a, b) \in Int
           /\ 0 <= decode_u16_be(a, b) /\ decode_u16_be(a, b) < 65536
           /\ High(decode_u16_be(a, b)) = a /\ Low(decode_u16_be(a, b)) = b
           /\ decode_i16_be(a, b) \in Int
           /\ -32768 <= decode_i16_be(a, b) /\ decode_i16_be(a, b) < 32768
           /\ High(decode_i16_be(a, b)) = a /\ Low(decode_i16_be(a, b)) = b
<1>1. a \in Int /\ b \in Int /\ 0 <= a /\ a < 256 /\ 0 <= b /\ b < 256
      BY DEF Byte
<1> DEFINE u == decode_u16_be(a, b)   i == decode_i16_be(a, b)
<1>2. u \in Int /\ Spells(u, 0, a, b) /\ 0 <= u /\ u < 65536
      BY <1>1 DEF decode_u16_be, Spells
<1>3. /\ i \in Int /\ -32768 <= i /\ i < 32768
      /\ Spells(i, 0, a, b) \/ Spells(i, -1, a, b)
      BY <1>1 DEF decode_u16_be, decode_i16_be, Spells
<1>4. 0 \in Int /\ -1 \in Int
      OBVIOUS
<1> HIDE DEF u, i
<1>5. High(u) = a /\ Low(u) = b
      BY <1>2, <1>4, Spelled
<1>6. High(i) = a /\ Low(i) = b
      BY <1>3, <1>4, Spelled
<1> QED
      BY <1>2, <1>3, <1>5, <1>6 DEF u, i

\* Every number has two bytes.
LEMMA BytesWritten ==
    ASSUME NEW v \in Int
    PROVE  /\ High(v) \in Byte /\ Low(v) \in Byte
           /\ \E k \in Int : Spells(v, k, High(v), Low(v))
<1> DEFINE m == v % 65536
<1>1. /\ m \in Int /\ 0 <= m /\ m < 65536 /\ v \div 65536 \in Int
      /\ v = 65536 * (v \div 65536) + m
      OBVIOUS
<1>2. /\ m \div 256 \in Int /\ m % 256 \in Int /\ 0 <= m % 256 /\ m % 256 < 256
      /\ m = 256 * (m \div 256) + (m % 256)
      <2> HIDE DEF m
      <2> QED
            BY <1>1
<1> DEFINE q == v \div 65536   h == m \div 256   l == m % 256
<1>3. /\ q \in Int /\ h \in Int /\ l \in Int /\ 0 <= l /\ l < 256
      /\ v = 65536 * q + m /\ m = 256 * h + l /\ m \in Int /\ 0 <= m /\ m < 65536
      BY <1>1, <1>2
<1> HIDE DEF m, q, h, l
<1>4. v = 256 * (256 * q + h) + l /\ 256 * q + h \in Int
      BY <1>3
<1>5. v % 256 = l
      BY <1>3, <1>4, Division
<1>6. 0 <= h /\ h < 256
      BY <1>3
<1>7. High(v) = h /\ Low(v) = l
      BY <1>5 DEF High, Low, h, m
<1>8. h \in Byte /\ l \in Byte
      BY <1>3, <1>6 DEF Byte
<1>9. Spells(v, q, h, l)
      BY <1>3 DEF Spells
<1> QED
      BY <1>3, <1>7, <1>8, <1>9

\* A number that fits in 16 bits is read back from its bytes.
LEMMA NumberRead ==
    ASSUME NEW v \in Int
    PROVE  /\ 0 <= v /\ v < 65536 => decode_u16_be(High(v), Low(v)) = v
           /\ -32768 <= v /\ v < 32768 => decode_i16_be(High(v), Low(v)) = v
<1> DEFINE h == High(v)  l == Low(v)
<1>1. h \in Int /\ l \in Int /\ 0 <= h /\ h < 256 /\ 0 <= l /\ l < 256
      <2>1. h \in Byte /\ l \in Byte
            BY BytesWritten
      <2> HIDE DEF h, l
      <2> QED
            BY <2>1 DEF Byte
<1>2. PICK k \in Int : Spells(v, k, h, l)
      BY BytesWritten
<1> HIDE DEF h, l
<1>3. 0 <= v /\ v < 65536 => decode_u16_be(h, l) = v
      BY <1>1, <1>2 DEF decode_u16_be, Spells
<1>4. -32768 <= v /\ v < 32768 => decode_i16_be(h, l) = v
      BY <1>1, <1>2 DEF decode_u16_be, decode_i16_be, Spells
<1> QED
      BY <1>3, <1>4 DEF h, l

-----------------------------------------------------------------------------
(* Telemetry frames.                                                       *)

\* Elements of a part of a sequence.
LEMMA PartOf ==
    ASSUME NEW S, NEW s \in Seq(S), NEW m \in 1..Len(s) + 1, NEW n \in m - 1..Len(s)
    PROVE  /\ SubSeq(s, m, n) \in Seq(S)
           /\ Len(SubSeq(s, m, n)) = n - m + 1
           /\ \A i \in 1..n - m + 1 : SubSeq(s, m, n)[i] = s[m + i - 1]
<1>1. Len(s) \in Nat
      BY LenProperties
<1>2. m \in Int /\ n \in Int /\ 1 <= m /\ n <= Len(s) /\ m - 1 <= n
      BY <1>1
<1>3. \A i \in m..n : s[i] \in S
      <2> SUFFICES ASSUME NEW i \in m..n PROVE s[i] \in S
            OBVIOUS
      <2>1. i \in 1..Len(s)
            BY <1>1, <1>2
      <2> QED
            BY <2>1, ElementOfSeq
<1> QED
      BY <1>2, <1>3, SubSeqProperties

\* The Hall count: its upper half is signed, its lower two bytes are bytes.
FourBytes(a, b, c, d) == decode_i16_be(a, b) * 65536 + decode_u16_be(c, d)

\* The four bytes of the count decode_i32_be() reads are the ones it came from.
LEMMA HallRead ==
    ASSUME NEW a \in Byte, NEW b \in Byte, NEW c \in Byte, NEW d \in Byte
    PROVE  /\ FourBytes(a, b, c, d) \in Int
           /\ High(Upper(FourBytes(a, b, c, d))) = a
           /\ Low(Upper(FourBytes(a, b, c, d))) = b
           /\ High(FourBytes(a, b, c, d)) = c /\ Low(FourBytes(a, b, c, d)) = d
<1> DEFINE h == FourBytes(a, b, c, d)
<1> DEFINE i == decode_i16_be(a, b)   u == decode_u16_be(c, d)
<1>1. /\ i \in Int /\ High(i) = a /\ Low(i) = b
      /\ u \in Int /\ 0 <= u /\ u < 65536
      BY BytesRead
<1>2. u = 256 * c + d /\ c \in Int /\ d \in Int
      BY DEF decode_u16_be, Byte
<1>3. h = i * 65536 + u
      BY DEF FourBytes
<1> HIDE DEF i, u, h
<1>4. h \in Int /\ h = 65536 * i + u /\ Spells(h, i, c, d)
      BY <1>1, <1>2, <1>3 DEF Spells
<1>5. Upper(h) = i
      BY <1>1, <1>4, Division DEF Upper
<1>6. High(h) = c /\ Low(h) = d
      BY <1>1, <1>4, Spelled
<1> QED
      BY <1>1, <1>4, <1>5, <1>6 DEF h

\* The fields t, written as the firmware writes them, are the bytes of f.
SameFields(t, f) ==
    /\ t.status_flags = f[2] /\ t.sequence = f[3]
    /\ High(Upper(t.hall)) = f[4] /\ Low(Upper(t.hall)) = f[5]
    /\ High(t.hall) = f[6] /\ Low(t.hall) = f[7]
    /\ High(t.speed) = f[8] /\ Low(t.speed) = f[9]
    /\ High(t.steering) = f[10] /\ Low(t.steering) = f[11]
    /\ High(t.yaw_rate) = f[12] /\ Low(t.yaw_rate) = f[13]
    /\ High(t.battery) = f[14] /\ Low(t.battery) = f[15]
    /\ High(t.dt) = f[16] /\ Low(t.dt) = f[17]
    /\ High(t.status_bits[1]) = f[18] /\ Low(t.status_bits[1]) = f[19]
    /\ High(t.status_bits[2]) = f[20] /\ Low(t.status_bits[2]) = f[21]

\* What is decoded from a frame has the frame's own bytes.
LEMMA FieldsOfFrame ==
    ASSUME NEW f \in Seq(Byte), Len(f) = 24
    PROVE  SameFields(feedback(f), f)
<1>0. PICK t : t = feedback(f)
      OBVIOUS
<1>1. \A i \in 1..24 : f[i] \in Byte
      BY ElementOfSeq
<1>2. \A i \in 1..4 : SubSeq(f, 4, 7)[i] = f[3 + i] /\ SubSeq(f, 18, 21)[i] = f[17 + i]
      BY PartOf
<1>3. t.hall = FourBytes(f[4], f[5], f[6], f[7])
      BY <1>0, <1>2 DEF feedback, decode_i32_be, FourBytes
<1>4. /\ t.status_bits[1] = decode_u16_be(f[18], f[19])
      /\ t.status_bits[2] = decode_u16_be(f[20], f[21])
      BY <1>0, <1>2 DEF feedback, decode_u32_be
<1>5. /\ t.status_flags = f[2] /\ t.sequence = f[3]
      /\ t.speed = decode_i16_be(f[8], f[9]) /\ t.steering = decode_i16_be(f[10], f[11])
      /\ t.yaw_rate = decode_i16_be(f[12], f[13])
      /\ t.battery = decode_u16_be(f[14], f[15]) /\ t.dt = decode_u16_be(f[16], f[17])
      BY <1>0 DEF feedback
<1>6. /\ High(Upper(t.hall)) = f[4] /\ Low(Upper(t.hall)) = f[5]
      /\ High(t.hall) = f[6] /\ Low(t.hall) = f[7]
      <2>1. f[4] \in Byte /\ f[5] \in Byte /\ f[6] \in Byte /\ f[7] \in Byte
            BY <1>1
      <2> QED
            BY <2>1, <1>3, HallRead
<1>7. SameFields(t, f)
      BY <1>1, <1>4, <1>5, <1>6, BytesRead DEF SameFields
<1> QED
      BY <1>0, <1>7

\* The first 22 bytes of a frame, one by one.
Body(f) == <<f[1], f[2], f[3], f[4], f[5], f[6], f[7], f[8], f[9], f[10], f[11],
             f[12], f[13], f[14], f[15], f[16], f[17], f[18], f[19], f[20], f[21], f[22]>>

\* They are its first part; the check byte and the tail complete the frame.
LEMMA BodyOfFrame ==
    ASSUME NEW f \in Seq(Byte), Len(f) = 24
    PROVE  /\ Body(f) = SubSeq(f, 1, 22)
           /\ Body(f) \o <<f[23], f[24]>> = f
<1>1. \A i \in 1..24 : f[i] \in Byte
      BY ElementOfSeq
<1>2. Body(f) \in Seq(Byte) /\ Len(Body(f)) = 22
      BY <1>1 DEF Body
<1>3. ASSUME NEW i \in 1..22 PROVE Body(f)[i] = f[i]
  <2>1. /\ Body(f)[1] = f[1] /\ Body(f)[2] = f[2] /\ Body(f)[3] = f[3] /\ Body(f)[4] = f[4]
        /\ Body(f)[5] = f[5] /\ Body(f)[6] = f[6] /\ Body(f)[7] = f[7] /\ Body(f)[8] = f[8]
        /\ Body(f)[9] = f[9] /\ Body(f)[10] = f[10] /\ Body(f)[11] = f[11] /\ Body(f)[12] = f[12]
        /\ Body(f)[13] = f[13] /\ Body(f)[14] = f[14] /\ Body(f)[15] = f[15] /\ Body(f)[16] = f[16]
        /\ Body(f)[17] = f[17] /\ Body(f)[18] = f[18] /\ Body(f)[19] = f[19] /\ Body(f)[20] = f[20]
        /\ Body(f)[21] = f[21] /\ Body(f)[22] = f[22]
        BY DEF Body
  <2>2. \/ i = 1 \/ i = 2 \/ i = 3 \/ i = 4 \/ i = 5 \/ i = 6 \/ i = 7 \/ i = 8
        \/ i = 9 \/ i = 10 \/ i = 11 \/ i = 12 \/ i = 13 \/ i = 14 \/ i = 15 \/ i = 16
        \/ i = 17 \/ i = 18 \/ i = 19 \/ i = 20 \/ i = 21 \/ i = 22
        OBVIOUS
  <2> HIDE DEF Body
  <2> QED
        BY <2>1, <2>2, Zenon
<1>4. /\ SubSeq(f, 1, 22) \in Seq(Byte) /\ Len(SubSeq(f, 1, 22)) = 22
      /\ \A i \in 1..22 : SubSeq(f, 1, 22)[i] = f[i]
      <2>1. \A i \in 1..22 : f[i] \in Byte
            BY <1>1, SMTT(30)
      <2>2. PICK m, n, s : m = 1 /\ n = 22 /\ s = SubSeq(f, m, n)
            OBVIOUS
      <2>3. m \in Int /\ n \in Int /\ \A i \in m..n : f[i] \in Byte
            BY <2>1, <2>2
      <2>4. /\ s \in Seq(Byte) /\ Len(s) = IF m <= n THEN n - m + 1 ELSE 0
            /\ \A i \in 1..n - m + 1 : s[i] = f[m + i - 1]
            BY <2>2, <2>3, SubSeqProperties
      <2> QED
            BY <2>2, <2>4
<1>5. Body(f) = SubSeq(f, 1, 22)
      BY <1>2, <1>3, <1>4, SeqEqual
<1>6. /\ <<f[23], f[24]>> \in Seq(Byte) /\ Len(<<f[23], f[24]>>) = 2
      /\ <<f[23], f[24]>>[1] = f[23] /\ <<f[23], f[24]>>[2] = f[24]
      BY <1>1
<1>7. PICK b, e : b = Body(f) /\ e = <<f[23], f[24]>>
      OBVIOUS
<1>8. PICK g : g = b \o e
      OBVIOUS
<1>9. /\ g \in Seq(Byte) /\ Len(g) = Len(b) + Len(e)
      /\ \A i \in 1..Len(b) + Len(e) : g[i] = IF i <= Len(b) THEN b[i] ELSE e[i - Len(b)]
      BY <1>2, <1>6, <1>7, <1>8, ConcatProperties, ZenonT(40)
<1>10. Len(b) = 22 /\ Len(e) = 2 /\ e[1] = f[23] /\ e[2] = f[24]
      BY <1>2, <1>6, <1>7
<1>11. \A i \in 1..22 : b[i] = f[i]
      BY <1>3, <1>7, Zenon
<1>12. \A i \in 1..24 : g[i] = f[i]
      <2> SUFFICES ASSUME NEW i \in 1..24 PROVE g[i] = f[i]
            OBVIOUS
      <2>1. g[i] = IF i <= 22 THEN b[i] ELSE e[i - 22]
            <3>1. i \in 1..Len(b) + Len(e)
                  BY <1>10
            <3>2. g[i] = IF i <= Len(b) THEN b[i] ELSE e[i - Len(b)]
                  BY <1>9, <3>1, Zenon
            <3> QED
                  BY <1>10, <3>2, Zenon
      <2>2. CASE i \in 1..22
            <3>1. g[i] = b[i]
                  BY <2>1, <2>2
            <3> QED
                  BY <1>11, <2>2, <3>1, Zenon
      <2>3. CASE i = 23
            BY <1>10, <2>1, <2>3
      <2>4. CASE i = 24
            BY <1>10, <2>1, <2>4
      <2> QED
            BY <2>2, <2>3, <2>4
<1>13. g = f
      <2>1. Len(g) = Len(f) /\ \A i \in 1..Len(g) : g[i] = f[i]
            BY <1>9, <1>10, <1>12
      <2> QED
            BY <1>9, <2>1, SeqEqual, Zenon
<1> QED
      BY <1>5, <1>7, <1>8, <1>13

\* decode_feedback_frame() loses nothing: a telemetry frame is the one the
\* firmware builds from the values decoded from it.
THEOREM FrameOfFeedback ==
    ASSUME NEW f \in Seq(Byte), Len(f) = 24,
           WellFramed(f), f[22] = kRcTelemetryProtocolId
    PROVE  TelemetryFrame(feedback(f)) = f
<1> PICK t : t = feedback(f)
      OBVIOUS
<1> DEFINE body == <<kRcFrameHead, t.status_flags, t.sequence,
                     High(Upper(t.hall)), Low(Upper(t.hall)), High(t.hall), Low(t.hall),
                     High(t.speed), Low(t.speed), High(t.steering), Low(t.steering),
                     High(t.yaw_rate), Low(t.yaw_rate),
                     High(t.battery), Low(t.battery), High(t.dt), Low(t.dt),
                     High(t.status_bits[1]), Low(t.status_bits[1]),
                     High(t.status_bits[2]), Low(t.status_bits[2]),
                     kRcTelemetryProtocolId>>
<1>1. TelemetryFrame(t) = body \o <<calculate_bcc(body), kRcFrameTail>>
      BY DEF TelemetryFrame
<1>2. f[1] = kRcFrameHead
      BY DEF WellFramed
<1>3. body = Body(f)
      <2>1. SameFields(t, f)
            BY FieldsOfFrame
      <2> QED
            BY <1>2, <2>1 DEF Body, SameFields
<1>4. f[24] = kRcFrameTail /\ f[23] = calculate_bcc(SubSeq(f, 1, 22))
      BY DEF WellFramed
<1> HIDE DEF body
<1> QED
      BY <1>1, <1>3, <1>4, BodyOfFrame

\* A frame g put together from its first n bytes b and two more.
MadeOf(g, n, b, x, y) ==
    /\ Len(g) = n + 2 /\ SubSeq(g, 1, n) = b
    /\ \A i \in 1..n : g[i] = b[i]
    /\ g[n + 1] = x /\ g[n + 2] = y

\* Concatenation makes such a frame.
LEMMA Glued ==
    ASSUME NEW S, NEW n \in Nat, NEW b \in Seq(S), Len(b) = n, NEW x \in S, NEW y \in S
    PROVE  b \o <<x, y>> \in Seq(S) /\ MadeOf(b \o <<x, y>>, n, b, x, y)
<1>0. PICK g : g = b \o <<x, y>>
      OBVIOUS
<1>1. PICK e : e = <<x, y>>
      OBVIOUS
<1>2. e \in Seq(S) /\ Len(e) = 2 /\ e[1] = x /\ e[2] = y
      BY <1>1
<1>3. /\ g \in Seq(S) /\ Len(g) = Len(b) + Len(e)
      /\ \A i \in 1..Len(b) + Len(e) : g[i] = IF i <= Len(b) THEN b[i] ELSE e[i - Len(b)]
      BY <1>0, <1>1, <1>2, ConcatProperties, Zenon
<1>4. /\ Len(g) = n + 2 /\ \A i \in 1..n : g[i] = b[i]
      /\ g[n + 1] = x /\ g[n + 2] = y
      BY <1>2, <1>3
<1>5. /\ SubSeq(g, 1, n) \in Seq(S) /\ Len(SubSeq(g, 1, n)) = n
      /\ \A i \in 1..n : SubSeq(g, 1, n)[i] = g[i]
      <2>1. \A i \in 1..n : g[i] \in S
            BY <1>3, <1>4, ElementOfSeq
      <2> QED
            BY <2>1, SubSeqProperties
<1>6. SubSeq(g, 1, n) = b
      <2>1. PICK s : s = SubSeq(g, 1, n)
            OBVIOUS
      <2>2. s \in Seq(S) /\ Len(s) = Len(b) /\ \A i \in 1..Len(s) : s[i] = b[i]
            BY <2>1, <1>4, <1>5
      <2> QED
            BY <2>1, <2>2, SeqEqual, Zenon
<1>7. g \in Seq(S) /\ MadeOf(g, n, b, x, y)
      BY <1>3, <1>4, <1>6 DEF MadeOf
<1> QED
      BY <1>0, <1>7

\* What the chassis can report: fields of one, two and four bytes.
Signed == {v \in Int : -32768 <= v /\ v < 32768}
Unsigned == {v \in Int : 0 <= v /\ v < 65536}
Feedback == [status_flags : Byte, sequence : Byte,
             hall : {h \in Int : Upper(h) \in Signed},
             speed : Signed, steering : Signed, yaw_rate : Signed,
             battery : Unsigned, dt : Unsigned, status_bits : Unsigned \X Unsigned]

\* The ranges, as inequalities.
LEMMA Ranges ==
    /\ \A v : v \in Signed <=> v \in Int /\ -32768 <= v /\ v < 32768
    /\ \A v \in Unsigned : v \in Int /\ 0 <= v /\ v < 65536
BY DEF Signed, Unsigned

\* The Hall count is read back from its four bytes.
LEMMA HallWritten ==
    ASSUME NEW h \in Int, Upper(h) \in Signed
    PROVE  FourBytes(High(Upper(h)), Low(Upper(h)), High(h), Low(h)) = h
<1>1. PICK k \in Int : Spells(h, k, High(h), Low(h))
      BY BytesWritten
<1>2. PICK a, b : a = High(h) /\ b = Low(h)
      OBVIOUS
<1>3. a \in Int /\ b \in Int /\ 0 <= a /\ a < 256 /\ 0 <= b /\ b < 256
      <2>1. a \in Byte /\ b \in Byte
            BY <1>2, BytesWritten
      <2> QED
            BY <2>1 DEF Byte
<1>4. PICK u : u = 256 * a + b
      OBVIOUS
<1>5. u \in Int /\ 0 <= u /\ u < 65536 /\ h = 65536 * k + u
      BY <1>1, <1>2, <1>3, <1>4 DEF Spells
<1>6. Upper(h) = k
      BY <1>5, Division DEF Upper
<1>7. decode_u16_be(a, b) = u
      BY <1>3, <1>4 DEF decode_u16_be
<1>8. decode_i16_be(High(k), Low(k)) = k
      <2>1. -32768 <= k /\ k < 32768
            <3>1. k \in Signed
                  BY <1>6
            <3> QED
                  BY <3>1, Ranges
      <2> QED
            BY <2>1, NumberRead
<1>9. FourBytes(High(k), Low(k), a, b) = k * 65536 + u
      BY <1>7, <1>8 DEF FourBytes
<1>10. k * 65536 + u = h
      BY <1>5
<1> QED
      BY <1>2, <1>6, <1>9, <1>10

\* A frame whose bytes are those of the fields t is decoded to t.
LEMMA FeedbackOfFields ==
    ASSUME NEW t \in Feedback, NEW S, NEW f \in Seq(S), Len(f) = 24, SameFields(t, f)
    PROVE  feedback(f) = t
<1>1. \A i \in 1..4 : SubSeq(f, 4, 7)[i] = f[3 + i] /\ SubSeq(f, 18, 21)[i] = f[17 + i]
      BY PartOf
<1>2. /\ t.speed \in Signed /\ t.steering \in Signed /\ t.yaw_rate \in Signed
      /\ t.battery \in Unsigned /\ t.dt \in Unsigned
      /\ t.status_bits[1] \in Unsigned /\ t.status_bits[2] \in Unsigned
      /\ t.status_bits = <<t.status_bits[1], t.status_bits[2]>>
      /\ t.hall \in Int /\ Upper(t.hall) \in Signed
      BY DEF Feedback
<1>3. \A v \in Signed : decode_i16_be(High(v), Low(v)) = v
      BY Ranges, NumberRead
<1>4. \A v \in Unsigned : decode_u16_be(High(v), Low(v)) = v
      BY Ranges, NumberRead
<1>5. /\ decode_i16_be(f[8], f[9]) = t.speed /\ decode_i16_be(f[10], f[11]) = t.steering
      /\ decode_i16_be(f[12], f[13]) = t.yaw_rate
      BY <1>2, <1>3 DEF SameFields
<1>6. /\ decode_u16_be(f[14], f[15]) = t.battery /\ decode_u16_be(f[16], f[17]) = t.dt
      /\ decode_u16_be(f[18], f[19]) = t.status_bits[1]
      /\ decode_u16_be(f[20], f[21]) = t.status_bits[2]
      BY <1>2, <1>4 DEF SameFields
<1>7. decode_u32_be(SubSeq(f, 18, 21)) = t.status_bits
      BY <1>1, <1>2, <1>6 DEF decode_u32_be
<1>8. decode_i32_be(SubSeq(f, 4, 7)) = FourBytes(f[4], f[5], f[6], f[7])
      BY <1>1 DEF decode_i32_be, FourBytes
<1>9. FourBytes(f[4], f[5], f[6], f[7]) = t.hall
      <2>1. PICK h : h = t.hall
            OBVIOUS
      <2>2. FourBytes(High(Upper(h)), Low(Upper(h)), High(h), Low(h)) = h
            BY <1>2, <2>1, HallWritten
      <2> QED
            BY <2>1, <2>2 DEF SameFields
<1>10. f[2] = t.status_flags /\ f[3] = t.sequence
      BY DEF SameFields
<1>11. t = [status_flags |-> t.status_flags, sequence |-> t.sequence, hall |-> t.hall,
            speed |-> t.speed, steering |-> t.steering, yaw_rate |-> t.yaw_rate,
            battery |-> t.battery, dt |-> t.dt, status_bits |-> t.status_bits]
      BY DEF Feedback
<1> QED
      BY <1>5, <1>6, <1>7, <1>8, <1>9, <1>10, <1>11 DEF feedback

\* Whatever the chassis reports is what decode_feedback_frame() hands on.
THEOREM FeedbackOfFrame ==
    ASSUME NEW t \in Feedback
    PROVE  decode_feedback_frame(TelemetryFrame(t)) = <<t>>
<1> DEFINE body == <<kRcFrameHead, t.status_flags, t.sequence,
                     High(Upper(t.hall)), Low(Upper(t.hall)), High(t.hall), Low(t.hall),
                     High(t.speed), Low(t.speed), High(t.steering), Low(t.steering),
                     High(t.yaw_rate), Low(t.yaw_rate),
                     High(t.battery), Low(t.battery), High(t.dt), Low(t.dt),
                     High(t.status_bits[1]), Low(t.status_bits[1]),
                     High(t.status_bits[2]), Low(t.status_bits[2]),
                     kRcTelemetryProtocolId>>
<1>1. TelemetryFrame(t) = body \o <<calculate_bcc(body), kRcFrameTail>>
      BY DEF TelemetryFrame
<1> DEFINE S == {body[i] : i \in 1..22} \cup {calculate_bcc(body), kRcFrameTail}
<1>2. PICK b : b = body
      OBVIOUS
<1>3. Len(b) = 22 /\ b \in Seq(S)
      <2>1. Len(b) = 22 /\ b \in [1..22 -> {body[i] : i \in 1..22}]
            BY <1>2
      <2>2. b \in [1..22 -> S]
            BY <2>1
      <2> HIDE DEF S, body
      <2>3. PICK n \in Nat : n = 22
            OBVIOUS
      <2>4. b \in [1..n -> S]
            BY <2>2, <2>3
      <2>5. b \in Seq(S)
            BY <2>4, SeqDef, Zenon
      <2> QED
            BY <2>1, <2>5
<1>4. /\ b[1] = kRcFrameHead /\ b[2] = t.status_flags /\ b[3] = t.sequence
      /\ b[4] = High(Upper(t.hall)) /\ b[5] = Low(Upper(t.hall))
      /\ b[6] = High(t.hall) /\ b[7] = Low(t.hall)
      /\ b[8] = High(t.speed) /\ b[9] = Low(t.speed)
      /\ b[10] = High(t.steering) /\ b[11] = Low(t.steering)
      /\ b[12] = High(t.yaw_rate) /\ b[13] = Low(t.yaw_rate)
      /\ b[14] = High(t.battery) /\ b[15] = Low(t.battery)
      /\ b[16] = High(t.dt) /\ b[17] = Low(t.dt)
      /\ b[18] = High(t.status_bits[1]) /\ b[19] = Low(t.status_bits[1])
      /\ b[20] = High(t.status_bits[2]) /\ b[21] = Low(t.status_bits[2])
      /\ b[22] = kRcTelemetryProtocolId
      BY <1>2
<1>5. PICK f : f = TelemetryFrame(t)
      OBVIOUS
<1>6. f = b \o <<calculate_bcc(b), kRcFrameTail>>
      BY <1>1, <1>2, <1>5
<1>7. calculate_bcc(b) \in S /\ kRcFrameTail \in S
      BY <1>2
<1> HIDE DEF S, body
<1>8. /\ f \in Seq(S) /\ Len(f) = 24 /\ SubSeq(f, 1, 22) = b
      /\ \A i \in 1..22 : f[i] = b[i]
      /\ f[23] = calculate_bcc(b) /\ f[24] = kRcFrameTail
      <2>1. PICK x, y : x = calculate_bcc(b) /\ y = kRcFrameTail
            OBVIOUS
      <2>2. x \in S /\ y \in S /\ f = b \o <<x, y>>
            BY <1>6, <1>7, <2>1
      <2>3. f \in Seq(S) /\ MadeOf(f, 22, b, x, y)
            BY <1>3, <2>2, Glued
      <2> QED
            BY <2>1, <2>3 DEF MadeOf
<1>9. SameFields(t, f)
      BY <1>4, <1>8, SMTT(30) DEF SameFields
<1>10. f[1] = kRcFrameHead /\ f[22] = kRcTelemetryProtocolId
      BY <1>4, <1>8
<1>11. WellFramed(f)
      BY <1>8, <1>10 DEF WellFramed
<1>12. feedback(f) = t
      BY <1>8, <1>9, FeedbackOfFields
<1> QED
      BY <1>5, <1>10, <1>11, <1>12 DEF decode_feedback_frame

-----------------------------------------------------------------------------
(* Command frames.                                                         *)

\* quantize_milli() rounds to the nearest unit, and what it accepts fits in
\* 16 bits.
LEMMA Quantized ==
    ASSUME NEW v \in Int, fits_wire(v)
    PROVE  /\ quantize_milli(v) \in Signed
           /\ 10 * quantize_milli(v) - v <= 5 /\ v - 10 * quantize_milli(v) <= 5
<1>1. \A x \in Int : /\ x \div 10 \in Int
                     /\ 10 * (x \div 10) <= x /\ x <= 10 * (x \div 10) + 9
      OBVIOUS
<1>2. -327680 <= v /\ v <= 327670
      BY DEF fits_wire
<1>3. CASE v < 0
      <2>1. PICK d : d = (5 - v) \div 10
            OBVIOUS
      <2>2. d \in Int /\ 10 * d <= 5 - v /\ 5 - v <= 10 * d + 9
            <3>1. 5 - v \in Int
                  OBVIOUS
            <3> QED
                  BY <1>1, <2>1, <3>1
      <2>3. quantize_milli(v) = -d
            BY <1>3, <2>1 DEF quantize_milli
      <2>4. -d \in Int /\ -32768 <= -d /\ -d <= 32767
            BY <1>2, <1>3, <2>2
      <2>5. 10 * (-d) - v <= 5 /\ v - 10 * (-d) <= 5
            BY <2>2
      <2>6. -d \in Signed
            BY <2>4 DEF Signed
      <2> QED
            BY <2>3, <2>5, <2>6
<1>4. CASE ~(v < 0)
      <2>1. PICK d : d = (v + 5) \div 10
            OBVIOUS
      <2>2. d \in Int /\ 10 * d <= v + 5 /\ v + 5 <= 10 * d + 9
            <3>1. v + 5 \in Int
                  OBVIOUS
            <3> QED
                  BY <1>1, <2>1, <3>1
      <2>3. quantize_milli(v) = d
            BY <1>4, <2>1 DEF quantize_milli
      <2>4. d \in Signed
            BY <1>2, <1>4, <2>2 DEF Signed
      <2>5. 10 * d - v <= 5 /\ v - 10 * d <= 5
            BY <2>2
      <2> QED
            BY <2>3, <2>4, <2>5
<1> QED
      BY <1>3, <1>4

\* What the chassis reads in a command frame: eleven bytes, framed and
\* checked, a motion within half a unit of the one asked for and none at all
\* when the command is disabled or stopped.
ChassisCommand == [enable : BOOLEAN, software_stop : BOOLEAN, clear_fault : BOOLEAN,
                   speed : Int, steering : Int]
Near(raw, asked) == 10 * raw - asked <= 5 /\ asked - 10 * raw <= 5
Carries(f, command) ==
    LET speed == decode_i16_be(f[4], f[5])
        steering == decode_i16_be(f[6], f[7])
    IN  /\ Len(f) = 11 /\ f[1] = kRcFrameHead /\ f[2] = kRcAckermannCommandId
        /\ f[10] = calculate_bcc(SubSeq(f, 1, 9)) /\ f[11] = kRcFrameTail
        /\ Stopped(command) => speed = 0 /\ steering = 0
        /\ ~Stopped(command) => Near(speed, command.speed) /\ Near(steering, command.steering)

\* encode_i16_be() writes the bytes that decode_i16_be() reads.
LEMMA WireNumber ==
    ASSUME NEW v \in Signed
    PROVE  /\ encode_i16_be(v)[1] \in Byte /\ encode_i16_be(v)[2] \in Byte
           /\ decode_i16_be(encode_i16_be(v)[1], encode_i16_be(v)[2]) = v
<1>1. v \in Int /\ -32768 <= v /\ v < 32768
      BY Ranges
<1>2. encode_i16_be(v)[1] = High(v) /\ encode_i16_be(v)[2] = Low(v)
      BY DEF encode_i16_be, High, Low
<1>3. High(v) \in Byte /\ Low(v) \in Byte /\ decode_i16_be(High(v), Low(v)) = v
      BY <1>1, BytesWritten, NumberRead
<1> QED
      BY <1>2, <1>3

\* Everything encode_command_frame() accepts reaches the chassis as asked:
\* no overflow of the 16-bit fields, no motion in a stopped command.
THEOREM CommandOnWire ==
    ASSUME NEW command \in ChassisCommand, Encodable(command)
    PROVE  Carries(encode_command_frame(command), command)
<1> DEFINE stopped == Stopped(command)
           speed == IF stopped THEN 0 ELSE quantize_milli(command.speed)
           steering == IF stopped THEN 0 ELSE quantize_milli(command.steering)
           flags == (IF command.enable THEN 1 ELSE 0)
                    + (IF command.clear_fault THEN 4 ELSE 0)
                    + (IF command.software_stop THEN 128 ELSE 0)
           v == encode_i16_be(speed)
           a == encode_i16_be(steering)
           body == <<kRcFrameHead, kRcAckermannCommandId, flags,
                     v[1], v[2], a[1], a[2], 0, 0>>
<1>1. encode_command_frame(command) = body \o <<calculate_bcc(body), kRcFrameTail>>
      BY DEF encode_command_frame
<1>2. /\ speed \in Signed /\ steering \in Signed
      /\ stopped => speed = 0 /\ steering = 0
      /\ ~stopped => Near(speed, command.speed) /\ Near(steering, command.steering)
      <2>1. command.speed \in Int /\ command.steering \in Int
            BY DEF ChassisCommand
      <2>2. CASE stopped
            BY <2>2 DEF Signed
      <2>3. CASE ~stopped
            <3>1. fits_wire(command.speed) /\ fits_wire(command.steering)
                  BY <2>3 DEF Encodable
            <3>2. /\ quantize_milli(command.speed) \in Signed
                  /\ Near(quantize_milli(command.speed), command.speed)
                  BY <2>1, <3>1, Quantized DEF Near
            <3>3. /\ quantize_milli(command.steering) \in Signed
                  /\ Near(quantize_milli(command.steering), command.steering)
                  BY <2>1, <3>1, Quantized DEF Near
            <3> QED
                  BY <2>3, <3>2, <3>3
      <2> QED
            BY <2>2, <2>3
<1> HIDE DEF flags, speed, steering
<1>3. decode_i16_be(v[1], v[2]) = speed /\ decode_i16_be(a[1], a[2]) = steering
      BY <1>2, WireNumber
<1> HIDE DEF v, a
<1> DEFINE S == {body[i] : i \in 1..9} \cup {calculate_bcc(body), kRcFrameTail}
<1>4. PICK b : b = body
      OBVIOUS
<1>5. Len(b) = 9 /\ b \in Seq(S)
      <2>1. Len(b) = 9 /\ b \in [1..9 -> {body[i] : i \in 1..9}]
            BY <1>4
      <2>2. b \in [1..9 -> S]
            BY <2>1
      <2> HIDE DEF S, body
      <2>3. PICK n \in Nat : n = 9
            OBVIOUS
      <2>4. b \in [1..n -> S]
            BY <2>2, <2>3
      <2>5. b \in Seq(S)
            BY <2>4, SeqDef, Zenon
      <2> QED
            BY <2>1, <2>5
<1>6. /\ b[1] = kRcFrameHead /\ b[2] = kRcAckermannCommandId
      /\ b[4] = v[1] /\ b[5] = v[2] /\ b[6] = a[1] /\ b[7] = a[2]
      BY <1>4
<1>7. PICK x, y : x = calculate_bcc(b) /\ y = kRcFrameTail
      OBVIOUS
<1>8. PICK f : f = encode_command_frame(command)
      OBVIOUS
<1>9. x \in S /\ y \in S /\ f = b \o <<x, y>>
      BY <1>1, <1>4, <1>7, <1>8
<1> HIDE DEF S, body
<1>10. MadeOf(f, 9, b, x, y)
      BY <1>5, <1>9, Glued
<1>11. /\ Len(f) = 11 /\ f[1] = kRcFrameHead /\ f[2] = kRcAckermannCommandId
       /\ f[10] = calculate_bcc(SubSeq(f, 1, 9)) /\ f[11] = kRcFrameTail
       /\ f[4] = v[1] /\ f[5] = v[2] /\ f[6] = a[1] /\ f[7] = a[2]
      <2>1. /\ Len(f) = 11 /\ SubSeq(f, 1, 9) = b /\ f[10] = x /\ f[11] = y
            /\ \A i \in 1..9 : f[i] = b[i]
            BY <1>10 DEF MadeOf
      <2>2. /\ f[1] = b[1] /\ f[2] = b[2]
            /\ f[4] = b[4] /\ f[5] = b[5] /\ f[6] = b[6] /\ f[7] = b[7]
            BY <2>1
      <2> QED
            BY <1>6, <1>7, <2>1, <2>2, Zenon
<1>12. Carries(f, command)
      BY <1>2, <1>3, <1>11 DEF Carries
<1> QED
      BY <1>8, <1>12

-----------------------------------------------------------------------------
(* The decoder's inductive invariant.                                      *)

Stats == [valid_frames : Nat, bcc_errors : Nat, tail_errors : Nat,
          protocol_errors : Nat, discarded_bytes : Nat]

TypeOK ==
    /\ stream \in Seq(Byte) /\ buffer \in Seq(Byte)
    /\ position \in Nat /\ since \in Nat /\ received \in Nat
    /\ stats \in Stats
    /\ decoded \in Seq(Feedback) /\ taken \in Seq(Nat)
    /\ ended \subseteq Nat \X Nat /\ foreign \subseteq Nat
    /\ pc \in {"idle", "decode"}

\* The buffer is the end of what the present connection has read.
Window ==
    /\ 1 <= since /\ since <= start /\ position <= Len(stream)
    /\ buffer = SubSeq(stream, start, position)
    /\ \A c \in ended : 1 <= c[1] /\ c[2] < since

\* What was found: whole frames before the buffer, apart from one another,
\* the telemetry among them decoded exactly and in order.
FramedAt(p) == p + 23 <= Len(stream) /\ WellFramed(Bytes(p))
Placed == \A q \in Frames : Whole(q) /\ FramedAt(q) /\ q + 24 <= start
Apart == \A p, q \in Frames : p < q => p + 24 <= q
Exact == /\ Len(decoded) = Len(taken)
         /\ \A i \in 1..Len(taken) : TelemetryFrame(decoded[i]) = Bytes(taken[i])
Ordered == \A i \in 1..Len(taken) : \A j \in 1..i - 1 : taken[j] + 24 <= taken[i]
OtherProtocol == \A p \in foreign : Bytes(p)[22] # kRcTelemetryProtocolId
Found == Placed /\ Apart /\ Exact /\ Ordered /\ OtherProtocol

\* What was passed over: a frame before the buffer, or in an earlier
\* connection, that is not among those found begins inside one that is.
Covered(p) == \E q \in Frames : q <= p /\ p < q + 24
Passed(p) == \/ since <= p /\ p < start
             \/ \E c \in ended : c[1] <= p /\ p + 23 <= c[2]
Scanned == \A p \in Nat \ {0} : Passed(p) /\ FramedAt(p) => Covered(p)

DecoderInv == TypeOK /\ Window /\ Found /\ Scanned /\ BytesAccounted

\* Where the buffer stands in the stream.
LEMMA BufferPlace ==
    ASSUME TypeOK, Window
    PROVE  /\ Len(buffer) \in Nat /\ Len(stream) \in Nat
           /\ start \in Nat /\ 1 <= start /\ since <= start
           /\ start + Len(buffer) = position + 1 /\ position <= Len(stream)
<1>1. Len(buffer) \in Nat /\ Len(stream) \in Nat
      BY LenProperties DEF TypeOK
<1>2. position \in Nat /\ since \in Nat /\ 1 <= since /\ since <= start /\ position <= Len(stream)
      BY DEF TypeOK, Window
<1> QED
      BY <1>1, <1>2 DEF start

\* Its bytes are the stream's.
LEMMA BufferBytes ==
    ASSUME TypeOK, Window, NEW k \in 1..Len(buffer)
    PROVE  buffer[k] = stream[start + k - 1]
<1>1. /\ Len(buffer) \in Nat /\ Len(stream) \in Nat
      /\ start \in Nat /\ 1 <= start
      /\ start + Len(buffer) = position + 1 /\ position <= Len(stream) /\ position \in Nat
      BY BufferPlace DEF TypeOK
<1>2. PICK m, n, s : m = start /\ n = position /\ s = stream
      OBVIOUS
<1>3. buffer = SubSeq(s, m, n) /\ s \in Seq(Byte)
      BY <1>2 DEF Window, TypeOK
<1>4. m \in 1..Len(s) + 1 /\ n \in m - 1..Len(s) /\ k \in 1..n - m + 1
      BY <1>1, <1>2
<1>5. SubSeq(s, m, n)[k] = s[m + k - 1]
      BY <1>3, <1>4, PartOf
<1> QED
      BY <1>2, <1>3, <1>5

\* A frame's length of bytes from p on.
LEMMA BytesAt ==
    ASSUME TypeOK, NEW p \in Nat, 1 <= p, p + 23 <= Len(stream)
    PROVE  /\ Bytes(p) \in Seq(Byte) /\ Len(Bytes(p)) = 24
           /\ \A i \in 1..24 : Bytes(p)[i] = stream[p + i - 1]
<1>1. Len(stream) \in Nat /\ stream \in Seq(Byte)
      BY LenProperties DEF TypeOK
<1>2. PICK n \in Nat : n = p + 23
      OBVIOUS
<1>3. p \in 1..Len(stream) + 1 /\ n \in p - 1..Len(stream) /\ n - p + 1 = 24
      BY <1>1, <1>2
<1>4. PICK s : s = SubSeq(stream, p, n)
      OBVIOUS
<1>5. /\ s \in Seq(Byte) /\ Len(s) = n - p + 1
      /\ \A i \in 1..n - p + 1 : s[i] = stream[p + i - 1]
      BY <1>1, <1>3, <1>4, PartOf, SMTT(30)
<1>6. Bytes(p) = s
      BY <1>2, <1>4 DEF Bytes
<1> QED
      BY <1>3, <1>5, <1>6

\* When the buffer holds a frame's length, that is the stream's at start.
LEMMA FrameIsBytes ==
    ASSUME TypeOK, Window, Len(buffer) >= 24
    PROVE  frame = Bytes(start) /\ start + 23 <= position /\ start + 23 <= Len(stream)
<1>1. /\ Len(buffer) \in Nat /\ Len(stream) \in Nat
      /\ start \in Nat /\ 1 <= start
      /\ start + Len(buffer) = position + 1 /\ position <= Len(stream) /\ position \in Nat
      BY BufferPlace DEF TypeOK
<1>2. start + 23 <= position /\ start + 23 <= Len(stream)
      BY <1>1
<1>3. Bytes(start) \in Seq(Byte) /\ Len(Bytes(start)) = 24
      BY <1>1, <1>2, BytesAt
<1>4. \A i \in 1..24 : Bytes(start)[i] = stream[start + i - 1]
      BY <1>1, <1>2, BytesAt
<1>5. /\ frame \in Seq(Byte) /\ Len(frame) = 24
      /\ \A i \in 1..24 : frame[i] = buffer[i]
      <2>1. PICK n, b : n = 24 /\ b = buffer
            OBVIOUS
      <2>2. b \in Seq(Byte) /\ 1 \in 1..Len(b) + 1 /\ n \in 1 - 1..Len(b) /\ n - 1 + 1 = n
            BY <1>1, <2>1 DEF TypeOK
      <2>3. PICK s : s = SubSeq(b, 1, n)
            OBVIOUS
      <2>4. s \in Seq(Byte) /\ Len(s) = n - 1 + 1 /\ \A i \in 1..n - 1 + 1 : s[i] = b[1 + i - 1]
            BY <2>2, <2>3, PartOf
      <2>5. \A i \in 1..n : s[i] = b[i]
            BY <2>2, <2>4
      <2>6. frame = s
            BY <2>1, <2>3 DEF frame, kRcFeedbackFrameSize
      <2> QED
            BY <2>1, <2>2, <2>4, <2>5, <2>6
<1>6. \A i \in 1..24 : buffer[i] = stream[start + i - 1]
      <2> SUFFICES ASSUME NEW i \in 1..24 PROVE buffer[i] = stream[start + i - 1]
            OBVIOUS
      <2>1. i \in 1..Len(buffer)
            BY <1>1
      <2> QED
            BY <2>1, BufferBytes
<1>7. frame = Bytes(start)
      <2>1. PICK f, g : f = frame /\ g = Bytes(start)
            OBVIOUS
      <2>2. /\ f \in Seq(Byte) /\ g \in Seq(Byte) /\ Len(f) = Len(g)
            /\ \A i \in 1..Len(f) : f[i] = g[i]
            BY <1>3, <1>4, <1>5, <1>6, <2>1
      <2> QED
            BY <2>1, <2>2, SeqEqual, Zenon
<1> QED
      BY <1>2, <1>7

\* No frame begins at a byte of the buffer that is not a header.
LEMMA NoFrameHere ==
    ASSUME TypeOK, Window, NEW k \in 1..Len(buffer), buffer[k] # kRcFrameHead
    PROVE  ~FramedAt(start + k - 1)
<1>1. Len(buffer) \in Nat /\ start \in Nat /\ 1 <= start
      BY BufferPlace
<1>2. PICK p \in Nat : p = start + k - 1
      BY <1>1
<1>3. 1 <= p /\ stream[p] # kRcFrameHead
      BY <1>1, <1>2, BufferBytes
<1>4. CASE p + 23 <= Len(stream)
      <2>1. \A i \in 1..24 : Bytes(p)[i] = stream[p + i - 1]
            BY <1>3, <1>4, BytesAt
      <2>2. Bytes(p)[1] = stream[p]
            <3>1. PICK i \in 1..24 : i = 1
                  OBVIOUS
            <3>2. Bytes(p)[i] = stream[p + i - 1] /\ p + i - 1 = p
                  BY <2>1, <3>1
            <3> QED
                  BY <3>1, <3>2
      <2>3. ~WellFramed(Bytes(p))
            BY <1>3, <2>2 DEF WellFramed
      <2> QED
            BY <1>2, <2>3 DEF FramedAt
<1>5. CASE ~(p + 23 <= Len(stream))
      BY <1>2, <1>5 DEF FramedAt
<1> QED
      BY <1>4, <1>5

\* Dropping n bytes moves the buffer on by n.
LEMMA Moved ==
    ASSUME TypeOK, Window, NEW n \in Nat, n <= Len(buffer), Erase(n),
           UNCHANGED <<stream, position>>
    PROVE  /\ buffer' \in Seq(Byte) /\ Len(buffer') = Len(buffer) - n
           /\ start' = start + n /\ buffer' = SubSeq(stream', start', position')
<1>1. /\ Len(buffer) \in Nat /\ Len(stream) \in Nat
      /\ start \in Nat /\ 1 <= start /\ start + n \in Nat
      /\ start + Len(buffer) = position + 1 /\ position <= Len(stream) /\ position \in Nat
      BY BufferPlace DEF TypeOK
<1>2. PICK b, m, l : b = buffer /\ m = n + 1 /\ l = Len(buffer)
      OBVIOUS
<1>3. b \in Seq(Byte) /\ m \in 1..Len(b) + 1 /\ l \in m - 1..Len(b) /\ l - m + 1 = Len(buffer) - n
      BY <1>1, <1>2 DEF TypeOK
<1>4. PICK t : t = SubSeq(b, m, l)
      OBVIOUS
<1>5. t = buffer'
      BY <1>2, <1>4 DEF Erase
<1>6. t \in Seq(Byte) /\ Len(t) = l - m + 1 /\ \A i \in 1..l - m + 1 : t[i] = b[m + i - 1]
      BY <1>3, <1>4, PartOf
<1>7. Len(buffer') = Len(buffer) - n /\ start' = start + n
      <2>1. Len(buffer') = Len(buffer) - n
            BY <1>3, <1>5, <1>6
      <2>2. position' = position
            OBVIOUS
      <2> QED
            BY <1>1, <2>1, <2>2 DEF start
<1>8. PICK s, p, q : s = stream /\ p = start + n /\ q = position
      OBVIOUS
<1>9. /\ s \in Seq(Byte) /\ p \in 1..Len(s) + 1 /\ q \in p - 1..Len(s)
      /\ q - p + 1 = Len(buffer) - n
      BY <1>1, <1>8 DEF TypeOK
<1>10. PICK u : u = SubSeq(s, p, q)
      OBVIOUS
<1>11. u \in Seq(Byte) /\ Len(u) = q - p + 1 /\ \A i \in 1..q - p + 1 : u[i] = s[p + i - 1]
      BY <1>9, <1>10, PartOf
<1>12. Len(t) = Len(u) /\ Len(t) = Len(buffer) - n
      BY <1>3, <1>6, <1>9, <1>11
<1>13. \A i \in 1..Len(t) : t[i] = u[i]
      <2> SUFFICES ASSUME NEW i \in 1..Len(t) PROVE t[i] = u[i]
            OBVIOUS
      <2>1. n + i \in 1..Len(buffer) /\ i \in 1..l - m + 1 /\ i \in 1..q - p + 1 /\ i \in Nat
            <3>1. PICK d : d = Len(buffer) - n
                  OBVIOUS
            <3>2. Len(t) = d /\ l - m + 1 = d /\ q - p + 1 = d /\ d \in Int
                  BY <1>1, <1>3, <1>9, <1>12, <3>1
            <3>3. i \in 1..d
                  BY <3>2
            <3>4. n + i \in 1..Len(buffer) /\ i \in Nat
                  BY <1>1, <3>1, <3>2, <3>3
            <3> QED
                  BY <3>2, <3>3, <3>4
      <2>2. t[i] = buffer[n + i]
            <3>1. t[i] = b[m + i - 1] /\ m + i - 1 = n + i
                  BY <1>2, <1>6, <2>1
            <3> QED
                  BY <1>2, <3>1
      <2>3. buffer[n + i] = stream[start + (n + i) - 1]
            BY <2>1, BufferBytes
      <2>4. u[i] = s[p + i - 1] /\ p + i - 1 = start + (n + i) - 1
            BY <1>1, <1>8, <1>11, <2>1
      <2> QED
            BY <1>8, <2>2, <2>3, <2>4
<1>14. t = u
      BY <1>6, <1>11, <1>12, <1>13, SeqEqual, Zenon
<1>15. buffer' = SubSeq(stream', start', position')
      BY <1>5, <1>7, <1>8, <1>10, <1>14
<1> QED
      BY <1>5, <1>6, <1>7, <1>15

\* The frames stay where they are when the line's past does not change.
LEMMA SameStream ==
    ASSUME UNCHANGED stream
    PROVE  /\ \A p : Bytes(p)' = Bytes(p)
           /\ \A p : FramedAt(p)' <=> FramedAt(p)
<1>1. \A p : Bytes(p)' = Bytes(p)
      BY DEF Bytes
<1> QED
      BY <1>1 DEF FramedAt

\* A loop turn reads nothing: what was whole still is.
LEMMA SameWhole ==
    ASSUME UNCHANGED <<line, ended>>
    PROVE  \A p : Whole(p)' <=> Whole(p)
BY DEF Whole, line

\* Frames are places in the stream.
LEMMA FramesNat ==
    ASSUME TypeOK
    PROVE  Frames \subseteq Nat
<1>1. \A i \in 1..Len(taken) : taken[i] \in Nat
      BY ElementOfSeq DEF TypeOK
<1> QED
      BY <1>1 DEF TypeOK, Frames

\* The window after a loop turn.
LEMMA WindowMoves ==
    ASSUME TypeOK, Window, NEW n \in Nat, n <= Len(buffer), Erase(n),
           UNCHANGED <<line, ended>>
    PROVE  Window' /\ start' = start + n /\ start' \in Nat
<1>1. UNCHANGED <<stream, position, since>>
      BY DEF line
<1>2. start' = start + n /\ buffer' = SubSeq(stream', start', position')
      BY <1>1, Moved
<1>3. start \in Nat /\ since <= start
      BY BufferPlace
<1>4. since' <= start' /\ start' \in Nat
      BY <1>1, <1>2, <1>3 DEF TypeOK
<1>5. Window'
      BY <1>1, <1>2, <1>4 DEF Window
<1> QED
      BY <1>2, <1>4, <1>5

\* Dropping bytes at which no frame begins leaves nothing out.
LEMMA PassOver ==
    ASSUME TypeOK, Window, Found, Scanned, NEW n \in Nat, n <= Len(buffer), Erase(n),
           UNCHANGED <<line, decoded, history>>,
           \A k \in 1..n : ~FramedAt(start + k - 1)
    PROVE  Window' /\ Found' /\ Scanned'
<1>1. UNCHANGED <<stream, position, since, decoded, ended, taken, foreign>>
      BY DEF line, history
<1>2. Window' /\ start' = start + n /\ start' \in Nat
      BY <1>1, WindowMoves
<1>3. start \in Nat
      BY BufferPlace
<1>4. Frames' = Frames /\ Frames \subseteq Nat
      BY <1>1, FramesNat DEF Frames
<1>5. \A p : Whole(p)' <=> Whole(p)
      BY <1>1, SameWhole
<1>6. (\A p : Bytes(p)' = Bytes(p)) /\ (\A p : FramedAt(p)' <=> FramedAt(p))
      BY <1>1, SameStream
<1>7. Found'
      <2>1. \A q \in Frames : Whole(q) /\ FramedAt(q) /\ q + 24 <= start
            BY DEF Found, Placed
      <2>2. \A q \in Frames : q + 24 <= start'
            BY <1>2, <1>3, <1>4, <2>1
      <2>3. Placed'
            BY <1>4, <1>5, <1>6, <2>1, <2>2 DEF Placed
      <2>4. Apart'
            BY <1>4 DEF Found, Apart
      <2>5. Exact' /\ Ordered' /\ OtherProtocol'
            BY <1>1 DEF Found, Exact, Ordered, OtherProtocol, Bytes
      <2> QED
            BY <2>3, <2>4, <2>5 DEF Found
<1>8. Scanned'
      <2> SUFFICES ASSUME NEW p \in Nat \ {0}, Passed(p)', FramedAt(p)'
                   PROVE  Covered(p)'
            BY DEF Scanned
      <2>1. FramedAt(p)
            BY <1>6
      <2>2. Passed(p) \/ (start <= p /\ p < start + n)
            BY <1>1, <1>2, <1>3 DEF Passed
      <2>3. CASE Passed(p)
            BY <2>1, <2>3, <1>4 DEF Scanned, Covered
      <2>4. CASE start <= p /\ p < start + n
            <3>1. p - start + 1 \in 1..n /\ p = start + (p - start + 1) - 1
                  BY <2>4, <1>3
            <3> QED
                  BY <2>1, <3>1
      <2> QED
            BY <2>2, <2>3, <2>4
<1> QED
      BY <1>2, <1>7, <1>8

\* Taking the frame at the start of the buffer leaves nothing out either: it
\* is whole, and what begins inside it is covered by it.
LEMMA TakeFrame ==
    ASSUME TypeOK, Window, Found, Scanned, Len(buffer) >= 24, WellFramed(frame),
           Erase(24), UNCHANGED <<line, ended>>, Frames' = Frames \cup {start}
    PROVE  Window' /\ Placed' /\ Apart' /\ Scanned'
<1>1. UNCHANGED <<stream, position, since>>
      BY DEF line
<1>2. Len(buffer) \in Nat /\ start \in Nat /\ 1 <= start /\ since <= start
      BY BufferPlace
<1>3. Window' /\ start' = start + 24 /\ start' \in Nat
      BY <1>2, WindowMoves
<1>4. frame = Bytes(start) /\ start + 23 <= position /\ start + 23 <= Len(stream)
      BY FrameIsBytes
<1>5. Whole(start) /\ FramedAt(start)
      BY <1>2, <1>4 DEF Whole, FramedAt
<1>6. \A p : Whole(p)' <=> Whole(p)
      BY SameWhole
<1>7. \A p : FramedAt(p)' <=> FramedAt(p)
      BY <1>1, SameStream
<1>8. Frames \subseteq Nat
      BY FramesNat
<1>9. \A q \in Frames : Whole(q) /\ FramedAt(q) /\ q + 24 <= start
      BY DEF Found, Placed
<1>10. \A q \in Frames \cup {start} : q + 24 <= start + 24
      BY <1>2, <1>8, <1>9
<1>11. Placed'
      BY <1>3, <1>5, <1>6, <1>7, <1>9, <1>10 DEF Placed
<1>12. Apart'
      <2>1. \A p, q \in Frames : p < q => p + 24 <= q
            BY DEF Found, Apart
      <2>2. \A p, q \in Frames \cup {start} : p < q => p + 24 <= q
            BY <1>2, <1>8, <1>9, <2>1
      <2> QED
            BY <2>2 DEF Apart
<1>13. Scanned'
      <2> SUFFICES ASSUME NEW p \in Nat \ {0}, Passed(p)', FramedAt(p)'
                   PROVE  Covered(p)'
            BY DEF Scanned
      <2>1. FramedAt(p)
            BY <1>7
      <2>2. Passed(p) \/ (start <= p /\ p < start + 24)
            BY <1>1, <1>2, <1>3 DEF Passed
      <2>3. CASE Passed(p)
            BY <2>1, <2>3 DEF Scanned, Covered
      <2>4. CASE start <= p /\ p < start + 24
            BY <2>4 DEF Covered
      <2> QED
            BY <2>2, <2>3, <2>4
<1> QED
      BY <1>3, <1>11, <1>12, <1>13

\* What is decoded from a frame is a report the chassis can make.
LEMMA FeedbackType ==
    ASSUME NEW f \in Seq(Byte), Len(f) = 24
    PROVE  feedback(f) \in Feedback
<1>1. \A i \in 1..24 : f[i] \in Byte
      BY ElementOfSeq
<1>2. \A i \in 1..4 : SubSeq(f, 4, 7)[i] = f[3 + i] /\ SubSeq(f, 18, 21)[i] = f[17 + i]
      BY PartOf
<1>3. \A a, b \in Byte : decode_i16_be(a, b) \in Signed /\ decode_u16_be(a, b) \in Unsigned
      BY BytesRead DEF Signed, Unsigned
<1>4. decode_i32_be(SubSeq(f, 4, 7)) = FourBytes(f[4], f[5], f[6], f[7])
      BY <1>2 DEF decode_i32_be, FourBytes
<1>5. \A a, b, c, d \in Byte :
        FourBytes(a, b, c, d) \in Int /\ Upper(FourBytes(a, b, c, d)) \in Signed
      <2> SUFFICES ASSUME NEW a \in Byte, NEW b \in Byte, NEW c \in Byte, NEW d \in Byte
                   PROVE  /\ FourBytes(a, b, c, d) \in Int
                          /\ Upper(FourBytes(a, b, c, d)) \in Signed
            OBVIOUS
      <2>1. PICK i, u : i = decode_i16_be(a, b) /\ u = decode_u16_be(c, d)
            OBVIOUS
      <2>2. i \in Int /\ i \in Signed /\ u \in Int /\ 0 <= u /\ u < 65536
            BY <1>3, <2>1, BytesRead
      <2>3. PICK h : h = FourBytes(a, b, c, d)
            OBVIOUS
      <2>4. h = i * 65536 + u
            BY <2>1, <2>3 DEF FourBytes
      <2>5. h \in Int /\ h = 65536 * i + u
            BY <2>2, <2>4
      <2>6. Upper(h) = i
            BY <2>2, <2>5, Division DEF Upper
      <2> QED
            BY <2>2, <2>3, <2>5, <2>6
<1>6. decode_u32_be(SubSeq(f, 18, 21)) \in Unsigned \X Unsigned
      <2>1. /\ SubSeq(f, 18, 21)[1] \in Byte /\ SubSeq(f, 18, 21)[2] \in Byte
            /\ SubSeq(f, 18, 21)[3] \in Byte /\ SubSeq(f, 18, 21)[4] \in Byte
            BY <1>1, <1>2
      <2> QED
            BY <1>3, <2>1 DEF decode_u32_be
<1>7. /\ FourBytes(f[4], f[5], f[6], f[7]) \in Int
      /\ Upper(FourBytes(f[4], f[5], f[6], f[7])) \in Signed
      <2>1. f[4] \in Byte /\ f[5] \in Byte /\ f[6] \in Byte /\ f[7] \in Byte
            BY <1>1
      <2> QED
            BY <1>5, <2>1
<1>8. /\ decode_i16_be(f[8], f[9]) \in Signed /\ decode_i16_be(f[10], f[11]) \in Signed
      /\ decode_i16_be(f[12], f[13]) \in Signed
      /\ decode_u16_be(f[14], f[15]) \in Unsigned /\ decode_u16_be(f[16], f[17]) \in Unsigned
      /\ f[2] \in Byte /\ f[3] \in Byte
      BY <1>1, <1>3
<1> QED
      BY <1>4, <1>6, <1>7, <1>8 DEF feedback, Feedback

-----------------------------------------------------------------------------
(* Each step.  The counters first: what a turn does to BytesAccounted.     *)

\* The counters are numbers.
LEMMA StatsType ==
    ASSUME TypeOK
    PROVE  /\ stats.valid_frames \in Nat /\ stats.bcc_errors \in Nat
           /\ stats.tail_errors \in Nat /\ stats.protocol_errors \in Nat
           /\ stats.discarded_bytes \in Nat /\ received \in Nat
BY DEF TypeOK, Stats

\* The counters after a change of one or two of them, one by one.
Counts(s, valid, bcc, tail, protocol, discarded) ==
    /\ s.valid_frames = valid /\ s.bcc_errors = bcc /\ s.tail_errors = tail
    /\ s.protocol_errors = protocol /\ s.discarded_bytes = discarded

\* What each update of stats_ in append() leaves in the counters.
LEMMA Counting ==
    ASSUME NEW s \in Stats, NEW n \in Nat, NEW v \in Nat, NEW b \in Nat, NEW t \in Nat,
           NEW p \in Nat, NEW d \in Nat, Counts(s, v, b, t, p, d)
    PROVE  /\ [s EXCEPT !.discarded_bytes = @ + n] \in Stats
           /\ Counts([s EXCEPT !.discarded_bytes = @ + n], v, b, t, p, d + n)
           /\ [s EXCEPT !.valid_frames = @ + n] \in Stats
           /\ Counts([s EXCEPT !.valid_frames = @ + n], v + n, b, t, p, d)
           /\ [s EXCEPT !.discarded_bytes = @ + n, !.bcc_errors = @ + 1] \in Stats
           /\ Counts([s EXCEPT !.discarded_bytes = @ + n, !.bcc_errors = @ + 1],
                     v, b + 1, t, p, d + n)
           /\ [s EXCEPT !.discarded_bytes = @ + n, !.tail_errors = @ + 1] \in Stats
           /\ Counts([s EXCEPT !.discarded_bytes = @ + n, !.tail_errors = @ + 1],
                     v, b, t + 1, p, d + n)
           /\ [s EXCEPT !.discarded_bytes = @ + n, !.protocol_errors = @ + 1] \in Stats
           /\ Counts([s EXCEPT !.discarded_bytes = @ + n, !.protocol_errors = @ + 1],
                     v, b, t, p + 1, d + n)
<1>1. s = [valid_frames |-> v, bcc_errors |-> b, tail_errors |-> t,
            protocol_errors |-> p, discarded_bytes |-> d]
      BY DEF Stats, Counts
<1>2. /\ [s EXCEPT !.discarded_bytes = @ + n] \in Stats
      /\ Counts([s EXCEPT !.discarded_bytes = @ + n], v, b, t, p, d + n)
      <2>1. [s EXCEPT !.discarded_bytes = @ + n]
              = [valid_frames |-> v, bcc_errors |-> b, tail_errors |-> t,
                  protocol_errors |-> p, discarded_bytes |-> d + n]
            BY <1>1
      <2>2. [valid_frames |-> v, bcc_errors |-> b, tail_errors |-> t,
                  protocol_errors |-> p, discarded_bytes |-> d + n] \in Stats
            BY DEF Stats
      <2>3. Counts([valid_frames |-> v, bcc_errors |-> b, tail_errors |-> t,
                  protocol_errors |-> p, discarded_bytes |-> d + n], v, b, t, p, d + n)
            BY DEF Counts
      <2> QED
            BY <2>1, <2>2, <2>3, Zenon
<1>3. /\ [s EXCEPT !.valid_frames = @ + n] \in Stats
      /\ Counts([s EXCEPT !.valid_frames = @ + n], v + n, b, t, p, d)
      <2>1. [s EXCEPT !.valid_frames = @ + n]
              = [valid_frames |-> v + n, bcc_errors |-> b, tail_errors |-> t,
                  protocol_errors |-> p, discarded_bytes |-> d]
            BY <1>1
      <2>2. [valid_frames |-> v + n, bcc_errors |-> b, tail_errors |-> t,
                  protocol_errors |-> p, discarded_bytes |-> d] \in Stats
            BY DEF Stats
      <2>3. Counts([valid_frames |-> v + n, bcc_errors |-> b, tail_errors |-> t,
                  protocol_errors |-> p, discarded_bytes |-> d], v + n, b, t, p, d)
            BY DEF Counts
      <2> QED
            BY <2>1, <2>2, <2>3, Zenon
<1>4. /\ [s EXCEPT !.discarded_bytes = @ + n, !.bcc_errors = @ + 1] \in Stats
      /\ Counts([s EXCEPT !.discarded_bytes = @ + n, !.bcc_errors = @ + 1], v, b + 1, t, p, d + n)
      <2>1. [s EXCEPT !.discarded_bytes = @ + n, !.bcc_errors = @ + 1]
              = [[s EXCEPT !.discarded_bytes = @ + n] EXCEPT !.bcc_errors = @ + 1]
            BY Zenon
      <2>2. \A r \in Stats : [r EXCEPT !.bcc_errors = @ + 1] \in Stats
            BY DEF Stats
      <2>3. Counts([s EXCEPT !.discarded_bytes = @ + n, !.bcc_errors = @ + 1], v, b + 1, t, p, d + n)
            BY DEF Stats, Counts
      <2> QED
            BY <1>2, <2>1, <2>2, <2>3, Zenon
<1>5. /\ [s EXCEPT !.discarded_bytes = @ + n, !.tail_errors = @ + 1] \in Stats
      /\ Counts([s EXCEPT !.discarded_bytes = @ + n, !.tail_errors = @ + 1], v, b, t + 1, p, d + n)
      <2>1. [s EXCEPT !.discarded_bytes = @ + n, !.tail_errors = @ + 1]
              = [[s EXCEPT !.discarded_bytes = @ + n] EXCEPT !.tail_errors = @ + 1]
            BY Zenon
      <2>2. \A r \in Stats : [r EXCEPT !.tail_errors = @ + 1] \in Stats
            BY DEF Stats
      <2>3. Counts([s EXCEPT !.discarded_bytes = @ + n, !.tail_errors = @ + 1], v, b, t + 1, p, d + n)
            BY DEF Stats, Counts
      <2> QED
            BY <1>2, <2>1, <2>2, <2>3, Zenon
<1>6. /\ [s EXCEPT !.discarded_bytes = @ + n, !.protocol_errors = @ + 1] \in Stats
      /\ Counts([s EXCEPT !.discarded_bytes = @ + n, !.protocol_errors = @ + 1], v, b, t, p + 1, d + n)
      <2>1. [s EXCEPT !.discarded_bytes = @ + n, !.protocol_errors = @ + 1]
              = [[s EXCEPT !.discarded_bytes = @ + n] EXCEPT !.protocol_errors = @ + 1]
            BY Zenon
      <2>2. \A r \in Stats : [r EXCEPT !.protocol_errors = @ + 1] \in Stats
            BY DEF Stats
      <2>3. Counts([s EXCEPT !.discarded_bytes = @ + n, !.protocol_errors = @ + 1], v, b, t, p + 1, d + n)
            BY DEF Stats, Counts
      <2> QED
            BY <1>2, <2>1, <2>2, <2>3, Zenon
<1> QED
      BY <1>2, <1>3, <1>4, <1>5, <1>6, Zenon

\* BytesAccounted outside the buffer's own part, with the counters by name.
Balance(v, b, t, p, d, r, length, count) ==
    /\ r = d + 24 * v + length /\ v = count /\ b + t + 24 * p <= d

\* That is all of it but the state append() leaves the buffer in.
LEMMA Balanced ==
    ASSUME NEW v \in Nat, NEW b \in Nat, NEW t \in Nat, NEW p \in Nat, NEW d \in Nat,
           Counts(stats, v, b, t, p, d)
    PROVE  BytesAccounted <=> /\ Balance(v, b, t, p, d, received, Len(buffer), Len(decoded))
                              /\ pc = "idle" => /\ Len(buffer) < 24
                                                /\ buffer # <<>> => buffer[1] = kRcFrameHead
BY DEF BytesAccounted, Counts, Balance, kRcFeedbackFrameSize

\* The counters have names.
LEMMA Counted ==
    ASSUME TypeOK
    PROVE  /\ stats \in Stats /\ received \in Nat
           /\ \E v, b, t, p, d \in Nat : Counts(stats, v, b, t, p, d)
BY DEF TypeOK, Stats, Counts

\* Bytes that leave the buffer are discarded or belong to a frame.
LEMMA Moving ==
    ASSUME NEW v \in Nat, NEW b \in Nat, NEW t \in Nat, NEW p \in Nat, NEW d \in Nat,
           NEW r \in Nat, NEW length \in Nat, NEW count \in Nat,
           Balance(v, b, t, p, d, r, length, count), NEW n \in Nat
    PROVE  /\ Balance(v, b, t, p, d + n, r, length - n, count)
           /\ Balance(v, b, t, p, d, r + n, length + n, count)
BY DEF Balance

\* And so in each turn with a frame.
LEMMA Turning ==
    ASSUME NEW v \in Nat, NEW b \in Nat, NEW t \in Nat, NEW p \in Nat, NEW d \in Nat,
           NEW r \in Nat, NEW length \in Nat, NEW count \in Nat,
           Balance(v, b, t, p, d, r, length, count)
    PROVE  /\ Balance(v + 1, b, t, p, d, r, length - 24, count + 1)
           /\ Balance(v, b + 1, t, p, d + 1, r, length - 1, count)
           /\ Balance(v, b, t + 1, p, d + 1, r, length - 1, count)
           /\ Balance(v, b, t, p + 1, d + 24, r, length - 24, count)
BY DEF Balance

\* The same after a step.
LEMMA BalancedNext ==
    ASSUME NEW v \in Nat, NEW b \in Nat, NEW t \in Nat, NEW p \in Nat, NEW d \in Nat,
           Counts(stats', v, b, t, p, d),
           Balance(v, b, t, p, d, received', Len(buffer'), Len(decoded')),
           pc' = "idle" => /\ Len(buffer') < 24
                           /\ buffer' # <<>> => buffer'[1] = kRcFrameHead
    PROVE  BytesAccounted'
BY DEF BytesAccounted, Counts, Balance, kRcFeedbackFrameSize

\* Discarding n bytes at which no frame begins.
LEMMA DiscardStep ==
    ASSUME DecoderInv, NEW n \in Nat, n <= Len(buffer), Discard(n),
           UNCHANGED <<line, decoded, history>>,
           \A k \in 1..n : ~FramedAt(start + k - 1),
           pc' \in {"idle", "decode"}, pc' = "idle" => Len(buffer) = n
    PROVE  DecoderInv'
<1>1. TypeOK /\ Window /\ Found /\ Scanned /\ BytesAccounted
      BY DEF DecoderInv
<1>2. UNCHANGED <<stream, position, since, ended, received, taken, foreign>>
      BY DEF line, history
<1>3. Erase(n) /\ stats' = [stats EXCEPT !.discarded_bytes = @ + n]
      BY DEF Discard
<1>4. Window' /\ Found' /\ Scanned'
      BY <1>1, <1>3, PassOver
<1>5. buffer' \in Seq(Byte) /\ Len(buffer') = Len(buffer) - n /\ Len(buffer) \in Nat
      BY <1>1, <1>2, <1>3, Moved, BufferPlace
<1>6. stats \in Stats /\ received \in Nat
      BY <1>1, Counted
<1>7. PICK v, b, t, p, d \in Nat : Counts(stats, v, b, t, p, d)
      BY <1>1, Counted
<1>8. stats' \in Stats /\ Counts(stats', v, b, t, p, d + n)
      BY <1>3, <1>6, <1>7, Counting
<1>9. Len(decoded) \in Nat
      BY <1>1, LenProperties DEF TypeOK
<1>10. Balance(v, b, t, p, d + n, received', Len(buffer'), Len(decoded'))
      <2>1. Balance(v, b, t, p, d, received, Len(buffer), Len(decoded))
            BY <1>1, <1>7, Balanced
      <2>2. Balance(v, b, t, p, d + n, received, Len(buffer) - n, Len(decoded))
            BY <1>5, <1>6, <1>9, <2>1, Moving
      <2> QED
            BY <1>2, <1>5, <2>2
<1>11. pc' = "idle" => Len(buffer') = 0 /\ buffer' = <<>>
      BY <1>5, EmptySeq
<1>12. BytesAccounted'
      BY <1>8, <1>10, <1>11, BalancedNext
<1>13. TypeOK'
      BY <1>1, <1>2, <1>5, <1>8 DEF TypeOK
<1> QED
      BY <1>4, <1>12, <1>13 DEF DecoderInv

\* No header at all, or noise before the first one.
LEMMA NoiseStep ==
    ASSUME DecoderInv, discard_all \/ skip_to_header
    PROVE  DecoderInv'
<1>1. TypeOK /\ Window
      BY DEF DecoderInv
<1>2. Len(buffer) \in Nat
      BY <1>1, BufferPlace
<1>3. ASSUME NEW n \in Nat, n <= Len(buffer), NoHeaderIn(n)
      PROVE  \A k \in 1..n : ~FramedAt(start + k - 1)
      <2> SUFFICES ASSUME NEW k \in 1..n PROVE ~FramedAt(start + k - 1)
            OBVIOUS
      <2>1. k \in 1..Len(buffer) /\ buffer[k] # kRcFrameHead
            BY <1>2, <1>3 DEF NoHeaderIn
      <2> QED
            BY <1>1, <2>1, NoFrameHere
<1>4. CASE discard_all
      <2>1. /\ NoHeaderIn(Len(buffer)) /\ Discard(Len(buffer))
            /\ pc' = "idle" /\ UNCHANGED <<line, decoded, history>>
            BY <1>4 DEF discard_all
      <2>2. \A k \in 1..Len(buffer) : ~FramedAt(start + k - 1)
            BY <1>2, <1>3, <2>1
      <2>3. PICK n \in Nat : n = Len(buffer)
            BY <1>2
      <2>4. Discard(n)
            BY <2>1, <2>3 DEF Discard, Erase
      <2>5. \A k \in 1..n : ~FramedAt(start + k - 1)
            BY <2>2, <2>3
      <2>6. n <= Len(buffer) /\ Len(buffer) = n
            BY <1>2, <2>3
      <2> QED
            BY <2>1, <2>4, <2>5, <2>6, DiscardStep
<1>5. CASE skip_to_header
      <2>1. PICK n \in 1..Len(buffer) - 1 : NoHeaderIn(n) /\ Discard(n)
            BY <1>5 DEF skip_to_header
      <2>2. UNCHANGED <<line, decoded, history>> /\ pc = "decode" /\ pc' = "decode"
            BY <1>5 DEF skip_to_header
      <2>3. n \in Nat /\ n <= Len(buffer)
            BY <1>2
      <2>4. \A k \in 1..n : ~FramedAt(start + k - 1)
            BY <1>3, <2>1, <2>3
      <2> QED
            BY <2>1, <2>2, <2>3, <2>4, DiscardStep
<1> QED
      BY <1>4, <1>5

\* Less than a frame behind a header: append() returns.
LEMMA WaitStep ==
    ASSUME DecoderInv, wait_for_more
    PROVE  DecoderInv'
<1>1. TypeOK /\ Window /\ Found /\ Scanned /\ BytesAccounted
      BY DEF DecoderInv
<1>2. /\ UNCHANGED <<stream, position, since, buffer, stats, decoded>>
      /\ UNCHANGED <<ended, received, taken, foreign>>
      /\ pc' = "idle" /\ Len(buffer) < 24 /\ buffer[1] = kRcFrameHead
      BY DEF wait_for_more, line, history, HeaderFirst, kRcFeedbackFrameSize
<1>3. TypeOK' /\ Window'
      BY <1>1, <1>2 DEF TypeOK, Window, start
<1>4. start' = start /\ Frames' = Frames
      BY <1>2 DEF start, Frames
<1>5. \A p : Whole(p)' <=> Whole(p)
      BY <1>2 DEF Whole
<1>6. (\A p : Bytes(p)' = Bytes(p)) /\ (\A p : FramedAt(p)' <=> FramedAt(p))
      BY <1>2, SameStream
<1>7. Placed' /\ Apart'
      BY <1>1, <1>4, <1>5, <1>6 DEF Found, Placed, Apart
<1>8. Exact' /\ Ordered' /\ OtherProtocol'
      BY <1>1, <1>2 DEF Found, Exact, Ordered, OtherProtocol, Bytes
<1>9. Scanned'
      <2>1. \A p : (Passed(p)' <=> Passed(p)) /\ (Covered(p)' <=> Covered(p))
            BY <1>2, <1>4 DEF Passed, Covered
      <2> QED
            BY <1>1, <1>6, <2>1 DEF Scanned
<1>10. BytesAccounted'
      BY <1>1, <1>2 DEF BytesAccounted, kRcFeedbackFrameSize
<1> QED
      BY <1>3, <1>7, <1>8, <1>9, <1>10 DEF DecoderInv, Found

\* A frame with a wrong tail or check byte: its header was none.
LEMMA DamagedStep ==
    ASSUME DecoderInv, tail_error \/ bcc_error
    PROVE  DecoderInv'
<1>1. TypeOK /\ Window /\ Found /\ Scanned /\ BytesAccounted
      BY DEF DecoderInv
<1>2. /\ FrameReady /\ Erase(1) /\ UNCHANGED <<line, decoded, pc, history>>
      /\ ~WellFramed(frame)
      BY DEF tail_error, bcc_error, WellFramed
<1>3. /\ UNCHANGED <<stream, position, since, decoded, pc>>
      /\ UNCHANGED <<ended, received, taken, foreign>>
      /\ pc = "decode" /\ Len(buffer) >= 24
      BY <1>2 DEF line, history, FrameReady, kRcFeedbackFrameSize
<1>4. Len(buffer) \in Nat /\ start \in Nat /\ 1 <= Len(buffer)
      BY <1>1, <1>3, BufferPlace
<1>5. ~FramedAt(start)
      BY <1>1, <1>2, <1>3, FrameIsBytes DEF FramedAt
<1>6. \A k \in 1..1 : ~FramedAt(start + k - 1)
      <2>1. \A k \in 1..1 : start + k - 1 = start
            BY <1>4
      <2> QED
            BY <1>5, <2>1
<1>7. Window' /\ Found' /\ Scanned'
      <2>1. PICK n \in Nat : n = 1
            OBVIOUS
      <2>2. /\ n <= Len(buffer) /\ Erase(n) /\ UNCHANGED <<line, decoded, history>>
            /\ \A k \in 1..n : ~FramedAt(start + k - 1)
            BY <1>2, <1>4, <1>6, <2>1 DEF Erase
      <2> QED
            BY <1>1, <2>2, PassOver
<1>8. buffer' \in Seq(Byte) /\ Len(buffer') = Len(buffer) - 1
      BY <1>1, <1>2, <1>3, <1>4, Moved
<1>9. stats \in Stats /\ received \in Nat
      BY <1>1, Counted
<1>10. PICK v, b, t, p, d \in Nat : Counts(stats, v, b, t, p, d)
      BY <1>1, Counted
<1>11. Len(decoded) \in Nat
      BY <1>1, LenProperties DEF TypeOK
<1>12. Balance(v, b, t, p, d, received, Len(buffer), Len(decoded))
      BY <1>1, <1>10, Balanced
<1>13. CASE tail_error
      <2>1. stats' = [stats EXCEPT !.discarded_bytes = @ + 1, !.tail_errors = @ + 1]
            BY <1>13 DEF tail_error
      <2>2. stats' \in Stats /\ Counts(stats', v, b, t + 1, p, d + 1)
            BY <1>9, <1>10, <2>1, Counting
      <2>3. Balance(v, b, t + 1, p, d + 1, received', Len(buffer'), Len(decoded'))
            <3>1. Balance(v, b, t + 1, p, d + 1, received, Len(buffer) - 1, Len(decoded))
                  BY <1>4, <1>9, <1>11, <1>12, Turning
            <3> QED
                  BY <1>3, <1>8, <3>1
      <2>4. BytesAccounted'
            BY <1>3, <2>2, <2>3, BalancedNext
      <2> QED
            BY <1>1, <1>3, <1>7, <1>8, <2>2, <2>4 DEF TypeOK, DecoderInv
<1>14. CASE bcc_error
      <2>1. stats' = [stats EXCEPT !.discarded_bytes = @ + 1, !.bcc_errors = @ + 1]
            BY <1>14 DEF bcc_error
      <2>2. stats' \in Stats /\ Counts(stats', v, b + 1, t, p, d + 1)
            BY <1>9, <1>10, <2>1, Counting
      <2>3. Balance(v, b + 1, t, p, d + 1, received', Len(buffer'), Len(decoded'))
            <3>1. Balance(v, b + 1, t, p, d + 1, received, Len(buffer) - 1, Len(decoded))
                  BY <1>4, <1>9, <1>11, <1>12, Turning
            <3> QED
                  BY <1>3, <1>8, <3>1
      <2>4. BytesAccounted'
            BY <1>3, <2>2, <2>3, BalancedNext
      <2> QED
            BY <1>1, <1>3, <1>7, <1>8, <2>2, <2>4 DEF TypeOK, DecoderInv
<1> QED
      BY <1>13, <1>14

\* A frame of another protocol is passed over whole.
LEMMA ForeignStep ==
    ASSUME DecoderInv, protocol_error
    PROVE  DecoderInv'
<1>1. TypeOK /\ Window /\ Found /\ Scanned /\ BytesAccounted
      BY DEF DecoderInv
<1>2. /\ UNCHANGED <<stream, position, since, decoded, pc, ended, received, taken>>
      /\ UNCHANGED <<line, ended>>
      /\ pc = "decode" /\ Len(buffer) >= 24 /\ WellFramed(frame) /\ Erase(24)
      /\ frame[22] # kRcTelemetryProtocolId /\ foreign' = foreign \cup {start}
      /\ stats' = [stats EXCEPT !.discarded_bytes = @ + 24, !.protocol_errors = @ + 1]
      BY DEF protocol_error, line, FrameReady, kRcFeedbackFrameSize
<1>3. Len(buffer) \in Nat /\ start \in Nat
      BY <1>1, BufferPlace
<1>4. Frames' = Frames \cup {start}
      BY <1>2 DEF Frames
<1>5. Window' /\ Placed' /\ Apart' /\ Scanned'
      BY <1>1, <1>2, <1>4, TakeFrame
<1>6. Exact' /\ Ordered'
      BY <1>1, <1>2 DEF Found, Exact, Ordered, Bytes
<1>7. OtherProtocol'
      <2>1. \A p : Bytes(p)' = Bytes(p)
            BY <1>2, SameStream
      <2>2. frame = Bytes(start)
            BY <1>1, <1>2, FrameIsBytes
      <2>3. \A p \in foreign \cup {start} : Bytes(p)[22] # kRcTelemetryProtocolId
            BY <1>1, <1>2, <2>2 DEF Found, OtherProtocol
      <2> QED
            BY <1>2, <2>1, <2>3 DEF OtherProtocol
<1>8. buffer' \in Seq(Byte) /\ Len(buffer') = Len(buffer) - 24
      BY <1>1, <1>2, <1>3, Moved
<1>9. stats \in Stats /\ received \in Nat
      BY <1>1, Counted
<1>10. PICK v, b, t, p, d \in Nat : Counts(stats, v, b, t, p, d)
      BY <1>1, Counted
<1>11. Len(decoded) \in Nat
      BY <1>1, LenProperties DEF TypeOK
<1>12. Balance(v, b, t, p, d, received, Len(buffer), Len(decoded))
      BY <1>1, <1>10, Balanced
<1>13. stats' \in Stats /\ Counts(stats', v, b, t, p + 1, d + 24)
      BY <1>2, <1>9, <1>10, Counting
<1>14. Balance(v, b, t, p + 1, d + 24, received', Len(buffer'), Len(decoded'))
      <2>1. Balance(v, b, t, p + 1, d + 24, received, Len(buffer) - 24, Len(decoded))
            BY <1>3, <1>9, <1>11, <1>12, Turning
      <2> QED
            BY <1>2, <1>8, <2>1
<1>15. BytesAccounted'
      <2>1. pc' # "idle" /\ p + 1 \in Nat /\ d + 24 \in Nat
            BY <1>2
      <2> QED
            BY <1>13, <1>14, <2>1, BalancedNext
<1>16. TypeOK'
      BY <1>1, <1>2, <1>3, <1>8, <1>13 DEF TypeOK
<1> QED
      BY <1>5, <1>6, <1>7, <1>15, <1>16 DEF DecoderInv, Found

\* A telemetry frame is decoded.
LEMMA DecodedStep ==
    ASSUME DecoderInv, valid_frame
    PROVE  DecoderInv'
<1>1. TypeOK /\ Window /\ Found /\ Scanned /\ BytesAccounted
      BY DEF DecoderInv
<1>2. /\ UNCHANGED <<stream, position, since, pc, ended, received, foreign>>
      /\ UNCHANGED <<line, ended>>
      /\ pc = "decode" /\ Len(buffer) >= 24 /\ WellFramed(frame) /\ Erase(24)
      /\ frame[22] = kRcTelemetryProtocolId /\ taken' = Append(taken, start)
      BY DEF valid_frame, line, FrameReady, kRcFeedbackFrameSize
<1>3. PICK x : x = feedback(frame)
      OBVIOUS
<1>4. decode_feedback_frame(frame) = <<x>>
      BY <1>2, <1>3 DEF decode_feedback_frame
<1>5. decoded' = decoded \o <<x>> /\ stats' = [stats EXCEPT !.valid_frames = @ + 1]
      <2>1. PICK y : y = decode_feedback_frame(frame)
            OBVIOUS
      <2>2. decoded' = decoded \o y /\ stats' = [stats EXCEPT !.valid_frames = @ + Len(y)]
            BY <2>1 DEF valid_frame
      <2>3. y = <<x>> /\ Len(y) = 1
            BY <1>4, <2>1
      <2> QED
            BY <2>2, <2>3
<1>6. Len(buffer) \in Nat /\ start \in Nat /\ 1 <= start
      BY <1>1, BufferPlace
<1>7. /\ frame = Bytes(start) /\ frame \in Seq(Byte) /\ Len(frame) = 24
      <2>1. frame = Bytes(start) /\ start + 23 <= Len(stream)
            BY <1>1, <1>2, FrameIsBytes
      <2> QED
            BY <1>1, <1>6, <2>1, BytesAt
<1>8. x \in Feedback /\ TelemetryFrame(x) = Bytes(start)
      <2>1. PICK f : f = frame
            OBVIOUS
      <2>2. /\ f \in Seq(Byte) /\ Len(f) = 24 /\ WellFramed(f)
            /\ f[22] = kRcTelemetryProtocolId /\ x = feedback(f)
            BY <1>2, <1>3, <1>7, <2>1
      <2>3. feedback(f) \in Feedback /\ TelemetryFrame(feedback(f)) = f
            BY <2>2, FeedbackType, FrameOfFeedback
      <2> QED
            BY <1>7, <2>1, <2>2, <2>3
<1>9. /\ decoded \in Seq(Feedback) /\ taken \in Seq(Nat)
      /\ Len(decoded) \in Nat /\ Len(taken) = Len(decoded)
      /\ \A i \in 1..Len(taken) : taken[i] \in Nat
      BY <1>1, LenProperties, ElementOfSeq DEF TypeOK, Found, Exact
<1>10. /\ decoded' \in Seq(Feedback) /\ Len(decoded') = Len(decoded) + 1
       /\ \A i \in 1..Len(decoded) : decoded'[i] = decoded[i]
       /\ decoded'[Len(decoded) + 1] = x
      <2>1. decoded' = Append(decoded, x)
            BY <1>5, <1>8, <1>9, AppendIsConcat
      <2> QED
            BY <1>8, <1>9, <2>1, AppendProperties
<1>11. /\ taken' \in Seq(Nat) /\ Len(taken') = Len(taken) + 1
       /\ \A i \in 1..Len(taken) : taken'[i] = taken[i]
       /\ taken'[Len(taken) + 1] = start
      BY <1>2, <1>6, <1>9, AppendProperties
<1>12. Frames' = Frames \cup {start}
      <2>1. \A i \in 1..Len(taken') : taken'[i] \in {taken[j] : j \in 1..Len(taken)} \cup {start}
            BY <1>9, <1>11, SMTT(30)
      <2>2. \A j \in 1..Len(taken) : j \in 1..Len(taken') /\ taken[j] = taken'[j]
            BY <1>9, <1>11
      <2>3. Len(taken) + 1 \in 1..Len(taken')
            BY <1>9, <1>11
      <2>4. {taken'[i] : i \in 1..Len(taken')} = {taken[j] : j \in 1..Len(taken)} \cup {start}
            BY <1>11, <2>1, <2>2, <2>3
      <2> QED
            BY <1>2, <2>4 DEF Frames
<1>13. Window' /\ Placed' /\ Apart' /\ Scanned'
      BY <1>1, <1>2, <1>12, TakeFrame
<1>14. OtherProtocol'
      BY <1>1, <1>2 DEF Found, OtherProtocol, Bytes
<1>15. Exact'
      <2>1. \A i \in 1..Len(taken) : TelemetryFrame(decoded[i]) = SubSeq(stream, taken[i], taken[i] + 23)
            BY <1>1 DEF Found, Exact, Bytes
      <2>2. TelemetryFrame(x) = SubSeq(stream, start, start + 23)
            BY <1>8 DEF Bytes
      <2>3. ASSUME NEW i \in 1..Len(taken')
            PROVE  TelemetryFrame(decoded'[i]) = SubSeq(stream', taken'[i], taken'[i] + 23)
            <3>1. CASE i \in 1..Len(taken)
                  BY <1>2, <1>9, <1>10, <1>11, <2>1, <3>1
            <3>2. CASE i = Len(taken) + 1
                  BY <1>2, <1>9, <1>10, <1>11, <2>2, <3>2
            <3>3. i \in 1..Len(taken) \/ i = Len(taken) + 1
                  BY <1>9, <1>11
            <3> QED
                  BY <3>1, <3>2, <3>3
      <2> QED
            BY <1>9, <1>10, <1>11, <2>3 DEF Exact, Bytes
<1>16. Ordered'
      <2>1. \A i \in 1..Len(taken) : taken[i] + 24 <= start
            BY <1>1 DEF Found, Placed, Frames
      <2>2. \A i \in 1..Len(taken) : \A j \in 1..i - 1 : taken[j] + 24 <= taken[i]
            BY <1>1 DEF Found, Ordered
      <2>3. ASSUME NEW i \in 1..Len(taken'), NEW j \in 1..i - 1
            PROVE  taken'[j] + 24 <= taken'[i]
            <3>1. i \in 1..Len(taken) \/ i = Len(taken) + 1
                  BY <1>9, <1>11
            <3>2. j \in 1..Len(taken)
                  BY <1>9, <1>11
            <3>3. CASE i \in 1..Len(taken)
                  BY <1>11, <2>2, <3>2, <3>3
            <3>4. CASE i = Len(taken) + 1
                  BY <1>11, <2>1, <3>2, <3>4
            <3> QED
                  BY <3>1, <3>3, <3>4
      <2> QED
            BY <2>3 DEF Ordered
<1>17. buffer' \in Seq(Byte) /\ Len(buffer') = Len(buffer) - 24
      BY <1>1, <1>2, <1>6, Moved
<1>18. stats \in Stats /\ received \in Nat
      BY <1>1, Counted
<1>19. PICK v, b, t, p, d \in Nat : Counts(stats, v, b, t, p, d)
      BY <1>1, Counted
<1>20. Balance(v, b, t, p, d, received, Len(buffer), Len(decoded))
      BY <1>1, <1>19, Balanced
<1>21. stats' \in Stats /\ Counts(stats', v + 1, b, t, p, d)
      BY <1>5, <1>18, <1>19, Counting
<1>22. Balance(v + 1, b, t, p, d, received', Len(buffer'), Len(decoded'))
      <2>1. Balance(v + 1, b, t, p, d, received, Len(buffer) - 24, Len(decoded) + 1)
            BY <1>6, <1>9, <1>18, <1>20, Turning
      <2> QED
            BY <1>2, <1>10, <1>17, <2>1
<1>23. BytesAccounted'
      BY <1>2, <1>21, <1>22, BalancedNext, SMTT(30)
<1>24. TypeOK'
      BY <1>1, <1>2, <1>10, <1>11, <1>17, <1>21 DEF TypeOK
<1> QED
      BY <1>13, <1>14, <1>15, <1>16, <1>23, <1>24 DEF DecoderInv, Found

\* A read continues the buffer where the stream goes on.
LEMMA ReadStep ==
    ASSUME DecoderInv, NEW n \in Chunks, read_serial(n)
    PROVE  DecoderInv'
<1>1. TypeOK /\ Window /\ Found /\ Scanned /\ BytesAccounted
      BY DEF DecoderInv
<1>2. n \in Nat
      BY WireAssumption
<1>3. /\ UNCHANGED <<stream, since, stats, decoded, ended, taken, foreign>>
      /\ position + n <= Len(stream)
      /\ buffer' = buffer \o SubSeq(stream, position + 1, position + n)
      /\ position' = position + n /\ received' = received + n
      /\ pc = "idle" /\ pc' = "decode"
      BY DEF read_serial
<1>4. /\ Len(buffer) \in Nat /\ Len(stream) \in Nat
      /\ start \in Nat /\ 1 <= start /\ since <= start
      /\ start + Len(buffer) = position + 1 /\ position <= Len(stream)
      BY <1>1, BufferPlace
<1>5. /\ position \in Nat /\ since \in Nat /\ stream \in Seq(Byte) /\ buffer \in Seq(Byte)
      /\ buffer = SubSeq(stream, start, position)
      BY <1>1 DEF TypeOK, Window
<1>6. /\ SubSeq(stream, position + 1, position + n) \in Seq(Byte)
      /\ Len(SubSeq(stream, position + 1, position + n)) = n
      <2>1. PICK s, k, m : s = stream /\ k = position + 1 /\ m = position + n
            OBVIOUS
      <2>2. s \in Seq(Byte) /\ k \in 1..Len(s) + 1 /\ m \in k - 1..Len(s) /\ m - k + 1 = n
            BY <1>2, <1>3, <1>4, <1>5, <2>1
      <2>3. SubSeq(s, k, m) \in Seq(Byte) /\ Len(SubSeq(s, k, m)) = m - k + 1
            BY <2>2, PartOf
      <2> QED
            BY <2>1, <2>2, <2>3
<1>7. buffer' \in Seq(Byte) /\ Len(buffer') = Len(buffer) + n
      BY <1>3, <1>5, <1>6, ConcatProperties, SMTT(30)
<1>8. start' = start
      <2>1. position' = position + n /\ Len(buffer') = Len(buffer) + n
            BY <1>3, <1>7
      <2> QED
            BY <1>2, <1>4, <1>5, <2>1 DEF start
<1>9. buffer' = SubSeq(stream', start', position')
      <2>1. PICK s, m, k, l : s = stream /\ m = start /\ k = position /\ l = position + n
            OBVIOUS
      <2>2. s \in Seq(Byte) /\ m \in 1..Len(s) + 1 /\ k \in m - 1..Len(s) /\ l \in k..Len(s)
            BY <1>2, <1>3, <1>4, <1>5, <2>1
      <2>3. SubSeq(s, m, k) \o SubSeq(s, k + 1, l) = SubSeq(s, m, l)
            BY <2>2, ConcatAdjacentSubSeq
      <2> QED
            BY <1>3, <1>5, <1>8, <2>1, <2>3
<1>10. Window'
      BY <1>1, <1>3, <1>4, <1>8, <1>9 DEF Window
<1>11. Frames' = Frames
      BY <1>3 DEF Frames
<1>12. (\A p : Bytes(p)' = Bytes(p)) /\ (\A p : FramedAt(p)' <=> FramedAt(p))
      BY <1>3, SameStream
<1>13. Placed'
      <2>1. \A q \in Nat : Whole(q) => Whole(q)'
            BY <1>2, <1>3, <1>5 DEF Whole
      <2>2. Frames \subseteq Nat
            BY <1>1, FramesNat
      <2> QED
            BY <1>1, <1>8, <1>11, <1>12, <2>1, <2>2 DEF Found, Placed
<1>14. Apart'
      BY <1>1, <1>11 DEF Found, Apart
<1>15. Exact' /\ Ordered' /\ OtherProtocol'
      BY <1>1, <1>3 DEF Found, Exact, Ordered, OtherProtocol, Bytes
<1>16. Scanned'
      <2>1. \A p : (Passed(p)' <=> Passed(p)) /\ (Covered(p)' <=> Covered(p))
            BY <1>3, <1>8, <1>11 DEF Passed, Covered
      <2> QED
            BY <1>1, <1>12, <2>1 DEF Scanned
<1>17. stats \in Stats /\ received \in Nat
      BY <1>1, Counted
<1>18. PICK v, b, t, p, d \in Nat : Counts(stats, v, b, t, p, d)
      BY <1>1, Counted
<1>19. Balance(v, b, t, p, d, received', Len(buffer'), Len(decoded'))
      <2>1. Len(decoded) \in Nat
            BY <1>1, LenProperties DEF TypeOK
      <2>2. Balance(v, b, t, p, d, received, Len(buffer), Len(decoded))
            BY <1>1, <1>18, Balanced
      <2>3. Balance(v, b, t, p, d, received + n, Len(buffer) + n, Len(decoded))
            BY <1>2, <1>4, <1>17, <2>1, <2>2, Moving
      <2> QED
            BY <1>3, <1>7, <2>3
<1>20. BytesAccounted'
      <2>1. pc' # "idle" /\ Counts(stats', v, b, t, p, d)
            BY <1>3, <1>18
      <2> QED
            BY <1>19, <2>1, BalancedNext
<1>21. TypeOK'
      BY <1>1, <1>2, <1>3, <1>5, <1>7, <1>17 DEF TypeOK
<1> QED
      BY <1>10, <1>13, <1>14, <1>15, <1>16, <1>20, <1>21 DEF DecoderInv, Found

\* A new connection starts with an empty buffer; the one that ended had less
\* than a frame left, so no whole frame of it is missed.
LEMMA ReconnectStep ==
    ASSUME DecoderInv, NEW n \in Losses, reconnect(n)
    PROVE  DecoderInv'
<1>1. TypeOK /\ Window /\ Found /\ Scanned /\ BytesAccounted
      BY DEF DecoderInv
<1>2. n \in Nat
      BY WireAssumption
<1>3. /\ UNCHANGED <<stream, decoded, pc, received, taken, foreign>>
      /\ pc = "idle" /\ position + n <= Len(stream) /\ buffer' = <<>>
      /\ stats' = [stats EXCEPT !.discarded_bytes = @ + Len(buffer)]
      /\ ended' = ended \cup {<<since, position>>}
      /\ position' = position + n /\ since' = position + n + 1
      BY DEF reconnect, discard_buffer
<1>4. /\ Len(buffer) \in Nat /\ Len(stream) \in Nat
      /\ start \in Nat /\ 1 <= start /\ since <= start
      /\ start + Len(buffer) = position + 1 /\ position <= Len(stream)
      BY <1>1, BufferPlace
<1>5. position \in Nat /\ since \in Nat /\ 1 <= since /\ Len(buffer) < 24
      BY <1>1, <1>3 DEF TypeOK, Window, BytesAccounted, kRcFeedbackFrameSize
<1>6. buffer' \in Seq(Byte) /\ Len(buffer') = 0
      BY <1>3, EmptySeq
<1>7. start' = position + n + 1
      BY <1>2, <1>3, <1>5, <1>6 DEF start
<1>8. Window'
      <2>1. buffer' = SubSeq(stream', start', position')
            <3>1. PICK s, a, b : s = stream /\ a = position + n + 1 /\ b = position + n
                  OBVIOUS
            <3>2. a \in Int /\ b \in Int /\ b < a
                  BY <1>2, <1>5, <3>1
            <3>3. SubSeq(s, a, b) = <<>>
                  BY <3>2, SubSeqEmpty
            <3> QED
                  BY <1>3, <1>7, <3>1, <3>3
      <2>2. \A c \in ended : 1 <= c[1] /\ c[2] < since /\ c[2] \in Nat
            BY <1>1 DEF Window, TypeOK
      <2>3. since <= position + 1
            BY <1>4, <1>5
      <2>4. \A c \in ended' : 1 <= c[1] /\ c[2] < since'
            BY <1>2, <1>3, <1>5, <2>2, <2>3
      <2>5. 1 <= since' /\ since' <= start' /\ position' <= Len(stream')
            BY <1>2, <1>3, <1>5, <1>7
      <2> QED
            BY <2>1, <2>4, <2>5 DEF Window
<1>9. Frames' = Frames /\ Frames \subseteq Nat
      BY <1>1, <1>3, FramesNat DEF Frames
<1>10. (\A p : Bytes(p)' = Bytes(p)) /\ (\A p : FramedAt(p)' <=> FramedAt(p))
      BY <1>3, SameStream
<1>11. Placed'
      <2>1. ASSUME NEW q, Whole(q) PROVE Whole(q)'
            <3>1. CASE since <= q /\ q + 23 <= position
                  <4>1. PICK c : c = <<since, position>>
                        OBVIOUS
                  <4>2. c \in ended' /\ c[1] <= q /\ q + 23 <= c[2]
                        BY <1>3, <3>1, <4>1
                  <4> QED
                        BY <4>2 DEF Whole
            <3>2. CASE \E c \in ended : c[1] <= q /\ q + 23 <= c[2]
                  BY <1>3, <3>2 DEF Whole
            <3> QED
                  BY <2>1, <3>1, <3>2 DEF Whole
      <2>2. \A q \in Frames : Whole(q) /\ FramedAt(q) /\ q + 24 <= start
            BY <1>1 DEF Found, Placed
      <2>3. \A q \in Frames : q + 24 <= start'
            BY <1>2, <1>4, <1>5, <1>7, <1>9, <2>2
      <2> QED
            BY <1>9, <1>10, <2>1, <2>2, <2>3 DEF Placed
<1>12. Apart'
      BY <1>1, <1>9 DEF Found, Apart
<1>13. Exact' /\ Ordered' /\ OtherProtocol'
      BY <1>1, <1>3 DEF Found, Exact, Ordered, OtherProtocol, Bytes
<1>14. Scanned'
      <2> SUFFICES ASSUME NEW p \in Nat \ {0}, Passed(p)', FramedAt(p)'
                   PROVE  Covered(p)'
            BY DEF Scanned
      <2>1. PICK c \in ended' : c[1] <= p /\ p + 23 <= c[2]
            BY <1>2, <1>3, <1>5, <1>7 DEF Passed
      <2>2. CASE c \in ended
            BY <2>1, <2>2, <1>1, <1>9, <1>10 DEF Scanned, Passed, Covered
      <2>3. CASE c = <<since, position>>
            <3>1. since <= p /\ p + 23 <= position
                  BY <2>1, <2>3
            <3>2. p < start
                  BY <1>4, <1>5, <3>1
            <3> QED
                  BY <3>1, <3>2, <1>1, <1>9, <1>10 DEF Scanned, Passed, Covered
      <2> QED
            BY <1>3, <2>2, <2>3
<1>15. stats \in Stats /\ received \in Nat
      BY <1>1, Counted
<1>16. PICK v, b, t, p, d \in Nat : Counts(stats, v, b, t, p, d)
      BY <1>1, Counted
<1>17. PICK l \in Nat : l = Len(buffer)
      BY <1>4
<1>18. stats' \in Stats /\ Counts(stats', v, b, t, p, d + l)
      BY <1>3, <1>15, <1>16, <1>17, Counting
<1>19. Balance(v, b, t, p, d + l, received', Len(buffer'), Len(decoded'))
      <2>1. Len(decoded) \in Nat
            BY <1>1, LenProperties DEF TypeOK
      <2>2. Balance(v, b, t, p, d, received, l, Len(decoded))
            BY <1>1, <1>16, <1>17, Balanced
      <2>3. Balance(v, b, t, p, d + l, received, 0, Len(decoded))
            BY <1>15, <2>1, <2>2 DEF Balance
      <2> QED
            BY <1>3, <1>6, <2>3
<1>20. BytesAccounted'
      BY <1>3, <1>6, <1>18, <1>19, BalancedNext
<1>21. TypeOK'
      <2>1. <<since, position>> \in Nat \X Nat /\ ended \subseteq Nat \X Nat
            BY <1>1, <1>5 DEF TypeOK
      <2>2. ended' \subseteq Nat \X Nat
            BY <1>3, <2>1
      <2>3. position' \in Nat /\ since' \in Nat
            BY <1>2, <1>3, <1>5
      <2> QED
            BY <1>1, <1>3, <1>6, <1>18, <2>2, <2>3 DEF TypeOK
<1> QED
      BY <1>8, <1>11, <1>12, <1>13, <1>14, <1>20, <1>21 DEF DecoderInv, Found

-----------------------------------------------------------------------------
(* The theorems about the decoder.                                         *)

\* Nothing read, nothing found.
LEMMA DecoderInit ==
    ASSUME Init
    PROVE  DecoderInv
<1>1. /\ stream \in Seq(Byte) /\ position = 0 /\ since = 1 /\ buffer = <<>>
      /\ stats = NoStats /\ decoded = <<>> /\ pc = "idle"
      /\ ended = {} /\ received = 0 /\ taken = <<>> /\ foreign = {}
      BY WireAssumption DEF Init
<1>2. /\ <<>> \in Seq(Byte) /\ <<>> \in Seq(Feedback) /\ <<>> \in Seq(Nat)
      /\ Len(<<>>) = 0 /\ Len(stream) \in Nat
      BY <1>1, EmptySeq, LenProperties
<1>3. TypeOK
      BY <1>1, <1>2 DEF TypeOK, Stats, NoStats
<1>4. start = 1
      BY <1>1, <1>2 DEF start
<1>5. SubSeq(stream, 1, 0) = <<>>
      BY SubSeqEmpty
<1>6. Window
      BY <1>1, <1>2, <1>4, <1>5 DEF Window
<1>7. Frames = {}
      BY <1>1, <1>2 DEF Frames
<1>8. Found
      BY <1>1, <1>2, <1>7 DEF Found, Placed, Apart, Exact, Ordered, OtherProtocol
<1>9. Scanned
      BY <1>1, <1>4 DEF Scanned, Passed
<1>10. BytesAccounted
      BY <1>1, <1>2 DEF BytesAccounted, NoStats, kRcFeedbackFrameSize
<1> QED
      BY <1>3, <1>6, <1>8, <1>9, <1>10 DEF DecoderInv

\* Every read, every turn of the loop and every reconnection keeps it.
LEMMA DecoderNext ==
    ASSUME DecoderInv, [Next]_vars
    PROVE  DecoderInv'
<1>1. CASE \E n \in Chunks : read_serial(n)
      BY <1>1, ReadStep
<1>2. CASE \E n \in Losses : reconnect(n)
      BY <1>2, ReconnectStep
<1>3. CASE append
      <2>1. CASE discard_all \/ skip_to_header
            BY <2>1, NoiseStep
      <2>2. CASE wait_for_more
            BY <2>2, WaitStep
      <2>3. CASE tail_error \/ bcc_error
            BY <2>3, DamagedStep
      <2>4. CASE protocol_error
            BY <2>4, ForeignStep
      <2>5. CASE valid_frame
            BY <2>5, DecodedStep
      <2> QED
            BY <1>3, <2>1, <2>2, <2>3, <2>4, <2>5 DEF append
<1>4. CASE UNCHANGED vars
      <2>1. /\ UNCHANGED <<stream, position, since, buffer, stats, decoded, pc>>
            /\ UNCHANGED <<ended, received, taken, foreign>>
            BY <1>4 DEF vars, history
      <2>2. TypeOK' /\ Window' /\ BytesAccounted'
            BY <2>1 DEF DecoderInv, TypeOK, Window, BytesAccounted, start
      <2>3. start' = start /\ Frames' = Frames
            BY <2>1 DEF start, Frames
      <2>4. (\A p : Bytes(p)' = Bytes(p)) /\ (\A p : FramedAt(p)' <=> FramedAt(p))
            BY <2>1, SameStream
      <2>5. \A p : /\ Whole(p)' <=> Whole(p)
                   /\ Passed(p)' <=> Passed(p)
                   /\ Covered(p)' <=> Covered(p)
            BY <2>1, <2>3 DEF Whole, Passed, Covered
      <2>6. Placed' /\ Apart' /\ Scanned'
            BY <2>3, <2>4, <2>5 DEF DecoderInv, Found, Placed, Apart, Scanned
      <2>7. Exact' /\ Ordered' /\ OtherProtocol'
            BY <2>1 DEF DecoderInv, Found, Exact, Ordered, OtherProtocol, Bytes
      <2> QED
            BY <2>2, <2>6, <2>7 DEF DecoderInv, Found
<1> QED
      BY <1>1, <1>2, <1>3, <1>4 DEF Next

\* The invariant says what FramesRecovered promises: when append() has
\* returned, the buffer is too short to hold a whole frame.
LEMMA DecoderRecovers ==
    ASSUME DecoderInv
    PROVE  FramesRecovered
<1>1. TypeOK /\ Window /\ Found /\ Scanned /\ BytesAccounted
      BY DEF DecoderInv
<1>2. \A q \in Frames : Whole(q) /\ FramedAt(q)
      BY <1>1 DEF Found, Placed
<1>3. \A i \in 1..Len(taken) : taken[i] \in Frames
      BY DEF Frames
<1>4. \A i \in 1..Len(taken) :
        /\ Whole(taken[i])
        /\ TelemetryFrame(decoded[i]) = Bytes(taken[i])
        /\ \A j \in 1..i - 1 : taken[j] + 24 <= taken[i]
      BY <1>1, <1>2, <1>3 DEF Found, Exact, Ordered
<1>5. \A p \in foreign :
        Whole(p) /\ WellFramed(Bytes(p)) /\ Bytes(p)[22] # kRcTelemetryProtocolId
      BY <1>1, <1>2 DEF Found, OtherProtocol, FramedAt, Frames
<1>6. pc = "idle" =>
        \A p \in 1..Len(stream) - 23 :
          Whole(p) /\ WellFramed(Bytes(p)) => \E q \in Frames : q <= p /\ p < q + 24
      <2> SUFFICES ASSUME pc = "idle", NEW p \in 1..Len(stream) - 23,
                          Whole(p), WellFramed(Bytes(p))
                   PROVE  Covered(p)
            BY DEF Covered
      <2>1. /\ Len(buffer) \in Nat /\ Len(stream) \in Nat /\ start \in Nat
            /\ start + Len(buffer) = position + 1
            BY <1>1, BufferPlace
      <2>2. p \in Nat \ {0} /\ p + 23 <= Len(stream) /\ position \in Nat /\ Len(buffer) < 24
            BY <1>1, <2>1 DEF TypeOK, BytesAccounted, kRcFeedbackFrameSize
      <2>3. FramedAt(p)
            BY <2>2 DEF FramedAt
      <2>4. since <= p /\ p + 23 <= position => p < start
            BY <2>1, <2>2
      <2>5. Passed(p)
            BY <2>4 DEF Whole, Passed
      <2> QED
            BY <1>1, <2>2, <2>3, <2>5 DEF Scanned
<1>7. Len(decoded) = Len(taken) /\ \A p, q \in Frames : p < q => p + 24 <= q
      BY <1>1 DEF Found, Exact, Apart
<1> QED
      BY <1>4, <1>5, <1>6, <1>7 DEF FramesRecovered

\* However reads cut the line and whatever stands between the frames,
\* append() hands on the telemetry of each connection, once, in order, exact
\* and complete.
THEOREM DecoderFramesRecovered == Spec => []FramesRecovered
<1>1. Init => DecoderInv
      BY DecoderInit
<1>2. DecoderInv /\ [Next]_vars => DecoderInv'
      BY DecoderNext
<1>3. DecoderInv => FramesRecovered
      BY DecoderRecovers
<1> QED
      BY <1>1, <1>2, <1>3, PTL DEF Spec

\* Every byte read is in a decoded frame, counted as discarded or buffered.
THEOREM DecoderBytesAccounted == Spec => []BytesAccounted
<1>1. Init => DecoderInv
      BY DecoderInit
<1>2. DecoderInv /\ [Next]_vars => DecoderInv'
      BY DecoderNext
<1>3. DecoderInv => BytesAccounted
      BY DEF DecoderInv
<1> QED
      BY <1>1, <1>2, <1>3, PTL DEF Spec

-----------------------------------------------------------------------------
(* The loop of append() ends.                                              *)

\* Each turn takes bytes from the buffer or is the last.
LoopConsumes ==
    [][pc = "decode" /\ pc' = "decode" => Len(buffer') < Len(buffer)]_vars

\* One of the turns is possible, by its own guard, whatever the buffer holds.
TurnReady ==
    pc = "decode" =>
      \/ NoHeaderIn(Len(buffer))
      \/ \E n \in 1..Len(buffer) - 1 : NoHeaderIn(n) /\ buffer[n + 1] = kRcFrameHead
      \/ HeaderFirst /\ Len(buffer) < kRcFeedbackFrameSize
      \/ FrameReady /\ frame[24] # kRcFrameTail
      \/ FrameReady /\ frame[24] = kRcFrameTail
           /\ frame[23] # calculate_bcc(SubSeq(frame, 1, 22))
      \/ FrameReady /\ WellFramed(frame)

\* A nonempty set of numbers has a least one.
LEMMA LeastNat ==
    ASSUME NEW T \in SUBSET Nat, T # {}
    PROVE  \E x \in T : \A y \in T : x <= y
<1>1. PICK x \in T : \A y \in T : <<y, x>> \notin OpToRel(<, Nat)
      BY NatLessThanWellFounded, WFMin
<1>2. \A y \in T : ~(y < x) /\ x \in Nat /\ y \in Nat
      BY <1>1 DEF OpToRel
<1> QED
      BY <1>2

\* std::find() in append(): there is no header, or there is a first one.
LEMMA FirstHeader ==
    ASSUME TypeOK
    PROVE  \/ NoHeaderIn(Len(buffer))
           \/ \E n \in 1..Len(buffer) - 1 : NoHeaderIn(n) /\ buffer[n + 1] = kRcFrameHead
           \/ HeaderFirst
<1> DEFINE T == {i \in 1..Len(buffer) : buffer[i] = kRcFrameHead}
<1>1. Len(buffer) \in Nat /\ buffer \in Seq(Byte)
      BY LenProperties DEF TypeOK
<1>2. CASE T = {}
      BY <1>2 DEF NoHeaderIn
<1>3. CASE T # {}
      <2>1. T \in SUBSET Nat
            BY <1>1
      <2>2. PICK x \in T : \A y \in T : x <= y
            BY <1>3, <2>1, LeastNat
      <2>3. x \in 1..Len(buffer) /\ buffer[x] = kRcFrameHead
            BY <2>2
      <2>4. CASE x = 1
            <3>1. buffer # <<>>
                  BY <1>1, <2>3, EmptySeq
            <3> QED
                  BY <2>3, <2>4, <3>1 DEF HeaderFirst
      <2>5. CASE x # 1
            <3>1. PICK n \in 1..Len(buffer) - 1 : x = n + 1
                  <4>1. x - 1 \in 1..Len(buffer) - 1 /\ x = (x - 1) + 1
                        BY <1>1, <2>3, <2>5
                  <4> QED
                        BY <4>1
            <3>2. \A i \in 1..n : buffer[i] # kRcFrameHead
                  BY <1>1, <2>2, <3>1
            <3> QED
                  BY <2>3, <3>1, <3>2 DEF NoHeaderIn
      <2> QED
            BY <2>4, <2>5
<1> QED
      BY <1>2, <1>3

\* The loop never stops between two turns.
THEOREM DecoderTurnReady == Spec => []TurnReady
<1>1. Init => DecoderInv
      BY DecoderInit
<1>2. DecoderInv /\ [Next]_vars => DecoderInv'
      BY DecoderNext
<1>3. DecoderInv => TurnReady
      <2> SUFFICES ASSUME DecoderInv, pc = "decode", HeaderFirst,
                          ~(Len(buffer) < kRcFeedbackFrameSize)
                   PROVE  \/ FrameReady /\ frame[24] # kRcFrameTail
                          \/ FrameReady /\ frame[24] = kRcFrameTail
                               /\ frame[23] # calculate_bcc(SubSeq(frame, 1, 22))
                          \/ FrameReady /\ WellFramed(frame)
            BY FirstHeader DEF DecoderInv, TurnReady
      <2>1. TypeOK /\ Window
            BY DEF DecoderInv
      <2>2. Len(buffer) \in Nat
            BY <2>1, BufferPlace
      <2>3. FrameReady /\ Len(buffer) >= 24
            BY <2>2 DEF FrameReady, kRcFeedbackFrameSize
      <2>4. frame[1] = kRcFrameHead
            <3>1. SubSeq(buffer, 1, 24)[1] = buffer[1]
                  <4>1. PICK b, n : b = buffer /\ n = 24
                        OBVIOUS
                  <4>2. /\ b \in Seq(Byte) /\ 1 \in 1..Len(b) + 1
                        /\ n \in 1 - 1..Len(b) /\ 1 \in 1..n - 1 + 1
                        BY <2>1, <2>2, <2>3, <4>1 DEF TypeOK
                  <4>3. SubSeq(b, 1, n)[1] = b[1 + 1 - 1]
                        BY <4>2, PartOf
                  <4> QED
                        BY <4>1, <4>3
            <3> QED
                  BY <3>1 DEF frame, kRcFeedbackFrameSize, HeaderFirst
      <2> QED
            BY <2>3, <2>4 DEF WellFramed
<1> QED
      BY <1>1, <1>2, <1>3, PTL DEF Spec

\* And every turn but the last makes the buffer shorter.
THEOREM DecoderLoopConsumes == Spec => LoopConsumes
<1>1. Init => DecoderInv
      BY DecoderInit
<1>2. DecoderInv /\ [Next]_vars => DecoderInv'
      BY DecoderNext
<1>3. ASSUME DecoderInv, [Next]_vars
      PROVE  [pc = "decode" /\ pc' = "decode" => Len(buffer') < Len(buffer)]_vars
      <2> SUFFICES ASSUME Next, pc = "decode", pc' = "decode"
                   PROVE  Len(buffer') < Len(buffer)
            BY <1>3
      <2>1. TypeOK /\ Window
            BY <1>3 DEF DecoderInv
      <2>2. Len(buffer) \in Nat
            BY <2>1, BufferPlace
      <2>3. PICK n \in Nat \ {0} : n <= Len(buffer) /\ Erase(n) /\ UNCHANGED <<stream, position>>
            <3>1. skip_to_header \/ tail_error \/ bcc_error \/ protocol_error \/ valid_frame
                  BY DEF Next, append, read_serial, reconnect, discard_all, wait_for_more
            <3>2. CASE skip_to_header
                  <4>1. PICK n \in 1..Len(buffer) - 1 : Discard(n)
                        BY <3>2 DEF skip_to_header
                  <4>2. n \in Nat \ {0} /\ n <= Len(buffer)
                        BY <2>2
                  <4> QED
                        BY <3>2, <4>1, <4>2 DEF Discard, skip_to_header, line
            <3>3. CASE tail_error \/ bcc_error
                  <4>1. Len(buffer) >= 24 /\ Erase(1) /\ UNCHANGED <<stream, position>>
                        BY <3>3 DEF tail_error, bcc_error, line, FrameReady, kRcFeedbackFrameSize
                  <4>2. 1 \in Nat \ {0} /\ 1 <= Len(buffer)
                        BY <2>2, <4>1
                  <4> QED
                        BY <4>1, <4>2
            <3>4. CASE protocol_error \/ valid_frame
                  <4>1. Len(buffer) >= 24 /\ Erase(24) /\ UNCHANGED <<stream, position>>
                        BY <3>4 DEF protocol_error, valid_frame, line, FrameReady, kRcFeedbackFrameSize
                  <4>2. 24 \in Nat \ {0} /\ 24 <= Len(buffer)
                        BY <2>2, <4>1
                  <4> QED
                        BY <4>1, <4>2
            <3> QED
                  BY <3>1, <3>2, <3>3, <3>4
      <2>4. Len(buffer') = Len(buffer) - n
            BY <2>1, <2>3, Moved
      <2> QED
            BY <2>2, <2>3, <2>4
<1> QED
      BY <1>1, <1>2, <1>3, PTL DEF Spec, LoopConsumes

=============================================================================
