------------------------- MODULE Hooke2CodecProofs -------------------------
(***************************************************************************)
(* What the bit fields of the Hooke2 frames hold, for every byte, value    *)
(* and range: wd_byte's set_value() and get_byte(), and the two signed     *)
(* values of the VCU report.                                               *)
(*                                                                         *)
(* Places in a byte are handled as powers of two from a table; a number    *)
(* is cut at two of them into a high part, a middle and a low part.        *)
(***************************************************************************)
EXTENDS Hooke2Codec, TLAPS

-----------------------------------------------------------------------------
(* Powers and digits.                                                      *)

\* The powers that stand for places in a byte, and which place each is.
Power == {1, 2, 4, 8, 16, 32, 64, 128, 256}
Two(n) == 2^n
IsPower(p, n) ==
    \/ n = 0 /\ p = 1
    \/ n = 1 /\ p = 2
    \/ n = 2 /\ p = 4
    \/ n = 3 /\ p = 8
    \/ n = 4 /\ p = 16
    \/ n = 5 /\ p = 32
    \/ n = 6 /\ p = 64
    \/ n = 7 /\ p = 128
    \/ n = 8 /\ p = 256

\* 2^n by the table.
LEMMA PowerTable ==
    ASSUME NEW n \in 0..8
    PROVE  IsPower(2^n, n)
<1>1. CASE n = 0
      <2>1. 2^n = 1
            BY <1>1
      <2> QED
            BY <1>1, <2>1 DEF IsPower
<1>2. CASE n = 1
      <2>1. 2^n = 2
            BY <1>2
      <2> QED
            BY <1>2, <2>1 DEF IsPower
<1>3. CASE n = 2
      <2>1. 2^n = 4
            BY <1>3
      <2> QED
            BY <1>3, <2>1 DEF IsPower
<1>4. CASE n = 3
      <2>1. 2^n = 8
            BY <1>4
      <2> QED
            BY <1>4, <2>1 DEF IsPower
<1>5. CASE n = 4
      <2>1. 2^n = 16
            BY <1>5
      <2> QED
            BY <1>5, <2>1 DEF IsPower
<1>6. CASE n = 5
      <2>1. 2^n = 32
            BY <1>6
      <2> QED
            BY <1>6, <2>1 DEF IsPower
<1>7. CASE n = 6
      <2>1. 2^n = 64
            BY <1>7
      <2> QED
            BY <1>7, <2>1 DEF IsPower
<1>8. CASE n = 7
      <2>1. 2^n = 128
            BY <1>8
      <2> QED
            BY <1>8, <2>1 DEF IsPower
<1>9. CASE n = 8
      <2>1. 2^n = 256
            BY <1>9
      <2> QED
            BY <1>9, <2>1 DEF IsPower
<1> QED
      BY <1>1, <1>2, <1>3, <1>4, <1>5, <1>6, <1>7, <1>8, <1>9

\* Adding places multiplies powers.
LEMMA Powers ==
    ASSUME NEW i \in 0..8, NEW j \in 0..8
    PROVE  /\ Two(i) \in Power
           /\ i < j <=> Two(i) < Two(j)
           /\ i + j <= 8 => Two(i + j) = Two(i) * Two(j)
<1>1. PICK p, q : p = Two(i) /\ q = Two(j)
      OBVIOUS
<1>2. IsPower(p, i) /\ IsPower(q, j)
      BY <1>1, PowerTable DEF Two
<1>3. p \in Power /\ (i < j <=> p < q)
      BY <1>2 DEF IsPower, Power
<1>4. ASSUME i + j <= 8 PROVE Two(i + j) = p * q
      <2>1. PICK r : r = Two(i + j)
            OBVIOUS
      <2>2. i + j \in 0..8
            BY <1>4
      <2>3. IsPower(r, i + j)
            BY <2>1, <2>2, PowerTable DEF Two
      <2>4. r = p * q
            BY <1>2, <1>4, <2>3 DEF IsPower
      <2> QED
            BY <2>1, <2>4
<1> QED
      BY <1>1, <1>3, <1>4

\* The smaller of two numbers.
LEMMA MinOfTwo ==
    ASSUME NEW a \in Int, NEW b \in Int
    PROVE  Min({a, b}) = IF a <= b THEN a ELSE b
BY DEF Min

\* The binary digit worth Q.
Digit(b, Q) == (b \div Q) % 2

\* v shifted to P, below T, in the place of byte's own digits there.
Mixed(byte, v, P, T) == (byte \div T) * T + ((v * P) % T) + (byte % P)

\* A digit is found in the lower part.
LEMMA LowDigit ==
    ASSUME NEW r \in Nat, NEW Q \in Power, NEW P \in Power, Q < P
    PROVE  Digit(r, Q) = Digit(r % P, Q)
BY SMTT(60) DEF Digit, Power

\* Or in the upper part.
LEMMA HighDigit ==
    ASSUME NEW r \in Nat, NEW K \in Power, NEW T \in Power, K * T <= 256
    PROVE  Digit(r, T * K) = Digit(r \div T, K)
BY SMTT(60) DEF Digit, Power

\* A shift commutes with cutting off what lies above.
LEMMA Shifted ==
    ASSUME NEW v \in Nat, NEW P \in Power, NEW L \in Power
    PROVE  (v * P) % (P * L) = P * (v % L)
BY SMTT(60) DEF Power

\* The parts of a number made of a high part, a middle and a low one.
LEMMA Parts ==
    ASSUME NEW h \in Nat, NEW m \in Nat, NEW l \in Nat, NEW P \in Power, NEW L \in Power,
           m < L, l < P
    PROVE  /\ ((h * (P * L) + P * m + l) \div P) % L = m
           /\ (h * (P * L) + P * m + l) % P = l
           /\ (h * (P * L) + P * m + l) \div (P * L) = h
           /\ P * m + l < P * L
<1>1. ((h * (P * L) + P * m + l) \div P) % L = m
      BY SMTT(60) DEF Power
<1>2. (h * (P * L) + P * m + l) % P = l
      BY SMTT(60) DEF Power
<1>3. (h * (P * L) + P * m + l) \div (P * L) = h
      BY SMTT(60) DEF Power
<1>4. P * m + l < P * L
      BY SMTT(60) DEF Power
<1> QED
      BY <1>1, <1>2, <1>3, <1>4

\* The mixture has the value in the middle and byte's digits around it.
LEMMA MixedParts ==
    ASSUME NEW byte \in Nat, byte <= 255, NEW v \in Nat,
           NEW P \in Power, NEW L \in Power, P * L <= 256
    PROVE  /\ Mixed(byte, v, P, P * L) \in Nat /\ Mixed(byte, v, P, P * L) <= 255
           /\ (Mixed(byte, v, P, P * L) \div P) % L = v % L
           /\ Mixed(byte, v, P, P * L) % P = byte % P
           /\ Mixed(byte, v, P, P * L) \div (P * L) = byte \div (P * L)
<1>1. PICK h, m, l : h = byte \div (P * L) /\ m = v % L /\ l = byte % P
      OBVIOUS
<1>2. h \in Nat /\ m \in Nat /\ l \in Nat /\ m < L /\ l < P
      BY <1>1 DEF Power
<1>3. Mixed(byte, v, P, P * L) = h * (P * L) + P * m + l
      BY <1>1, Shifted DEF Mixed
<1>4. h * (P * L) + P * L <= 256 /\ h * (P * L) \in Nat
      BY <1>1 DEF Power
<1>5. P * m + l < P * L /\ P * m + l \in Nat
      <2>1. P * m \in Nat
            BY <1>2 DEF Power
      <2>2. P * m + l < P * L
            BY <1>2, Parts
      <2> QED
            BY <1>2, <2>1, <2>2
<1>6. PICK a, b, c : a = h * (P * L) /\ b = P * m /\ c = P * L
      OBVIOUS
<1>7. a \in Nat /\ b \in Nat /\ c \in Nat
      BY <1>2, <1>4, <1>6 DEF Power
<1>8. Mixed(byte, v, P, P * L) \in Nat /\ Mixed(byte, v, P, P * L) <= 255
      BY <1>2, <1>3, <1>4, <1>5, <1>6, <1>7
<1> QED
      BY <1>1, <1>2, <1>3, <1>8, Parts

\* The digits outside the range stay.
LEMMA MixedOutside ==
    ASSUME NEW byte \in Nat, byte <= 255, NEW v \in Nat,
           NEW P \in Power, NEW L \in Power, P * L <= 256,
           NEW Q \in Power, Q < P \/ P * L <= Q
    PROVE  Digit(Mixed(byte, v, P, P * L), Q) = Digit(byte, Q)
<1> DEFINE r == Mixed(byte, v, P, P * L)
<1>1. r \in Nat /\ r % P = byte % P /\ r \div (P * L) = byte \div (P * L)
      BY MixedParts
<1>2. CASE Q < P
      BY <1>1, <1>2, LowDigit
<1>3. CASE P * L <= Q
      <2>1. PICK T : T = P * L
            OBVIOUS
      <2>2. T \in Power
            BY <2>1 DEF Power
      <2>3. PICK K \in Power : Q = T * K /\ K * T <= 256
            BY <1>3, <2>1, <2>2 DEF Power
      <2> QED
            BY <1>1, <2>1, <2>2, <2>3, HighDigit
<1> QED
      BY <1>2, <1>3

\* The digits in the range are the value's.
LEMMA MixedInside ==
    ASSUME NEW byte \in Nat, byte <= 255, NEW v \in Nat,
           NEW P \in Power, NEW L \in Power, P * L <= 256,
           NEW K \in Power, K < L
    PROVE  Digit(Mixed(byte, v, P, P * L), P * K) = Digit(v, K)
<1> DEFINE r == Mixed(byte, v, P, P * L)
<1>1. r \in Nat /\ (r \div P) % L = v % L
      BY MixedParts
<1>2. PICK q : q = r \div P
      OBVIOUS
<1>3. q \in Nat /\ q % L = v % L
      BY <1>1, <1>2 DEF Power
<1>4. K * P <= 256
      BY DEF Power
<1>5. Digit(r, P * K) = Digit(q, K)
      BY <1>1, <1>2, <1>4, HighDigit
<1>6. Digit(q, K) = Digit(v, K)
      BY <1>3, LowDigit
<1> QED
      BY <1>5, <1>6

-----------------------------------------------------------------------------
(* Byte.                                                                   *)

\* One bit, as get_byte() reads it.
Bit(b, i) == get_byte(b, i, 1)

\* It is a binary digit.
LEMMA BitIsDigit ==
    ASSUME NEW b, NEW i \in 0..7
    PROVE  Bit(b, i) = Digit(b, Two(i))
<1>1. Min({1, 8 - i}) = 1
      BY MinOfTwo
<1>2. 2^1 = 2
      OBVIOUS
<1> QED
      BY <1>1, <1>2 DEF Bit, Digit, get_byte, Two

\* A byte is its bits.
LEMMA SameBits ==
    ASSUME NEW a \in Bytes, NEW b \in Bytes, \A i \in 0..7 : Bit(a, i) = Bit(b, i)
    PROVE  a = b
<1>1. ASSUME NEW i \in 0..7 PROVE Digit(a, Two(i)) = Digit(b, Two(i))
      BY BitIsDigit
<1>2. /\ Two(0) = 1 /\ Two(1) = 2 /\ Two(2) = 4 /\ Two(3) = 8
      /\ Two(4) = 16 /\ Two(5) = 32 /\ Two(6) = 64 /\ Two(7) = 128
      BY DEF Two
<1>3. /\ Digit(a, 1) = Digit(b, 1) /\ Digit(a, 2) = Digit(b, 2)
      /\ Digit(a, 4) = Digit(b, 4) /\ Digit(a, 8) = Digit(b, 8)
      /\ Digit(a, 16) = Digit(b, 16) /\ Digit(a, 32) = Digit(b, 32)
      /\ Digit(a, 64) = Digit(b, 64) /\ Digit(a, 128) = Digit(b, 128)
      BY <1>1, <1>2
<1>4. a \in Nat /\ b \in Nat /\ a <= 255 /\ b <= 255
      BY DEF Bytes
<1> QED
      BY <1>3, <1>4, SMTT(60) DEF Digit

\* How many bits a call writes or reads: none beyond the byte.
Width(start, length) == Min({length, 8 - start})

\* What a call of set_value() is, with the places as powers.
LEMMA SetIsMixed ==
    ASSUME NEW byte \in Nat, NEW value \in Nat, NEW start \in 0..7,
           NEW length \in Nat, length >= 1
    PROVE  /\ Width(start, length) \in 1..8 - start
           /\ Width(start, length) = (IF length <= 8 - start THEN length ELSE 8 - start)
           /\ Two(start) \in Power /\ Two(Width(start, length)) \in Power
           /\ Two(start) * Two(Width(start, length)) <= 256
           /\ set_value(byte, value, start, length)
                = Mixed(byte, value, Two(start), Two(start) * Two(Width(start, length)))
           /\ get_byte(byte, start, length) = (byte \div Two(start)) % Two(Width(start, length))
<1>0. PICK n : n = Width(start, length)
      OBVIOUS
<1>1. n \in 1..8 - start /\ n = (IF length <= 8 - start THEN length ELSE 8 - start)
      BY <1>0, MinOfTwo DEF Width
<1>2. Min({start + length, 8}) = start + n
      BY <1>1, MinOfTwo
<1>3. start \in 0..8 /\ n \in 0..8 /\ start + n \in 0..8
      BY <1>1
<1>4. Two(start) \in Power /\ Two(n) \in Power /\ Two(start + n) = Two(start) * Two(n)
      BY <1>3, Powers
<1>5. Two(start) * Two(n) <= 256
      <2>1. Two(start + n) \in Power
            BY <1>3, Powers
      <2> QED
            BY <1>4, <2>1 DEF Power
<1>6. set_value(byte, value, start, length) = Mixed(byte, value, Two(start), Two(start + n))
      BY <1>2 DEF set_value, Mixed, Two
<1>7. get_byte(byte, start, length) = (byte \div Two(start)) % Two(n)
      BY <1>0 DEF get_byte, Width, Two
<1> QED
      BY <1>0, <1>1, <1>4, <1>5, <1>6, <1>7

\* The bits of new in the range are the value's, the others are byte's.
Written(new, byte, value, start, length) ==
    \A i \in 0..7 :
      Bit(new, i) = IF start <= i /\ i < start + length
                    THEN Bit(value, i - start) ELSE Bit(byte, i)

\* set_value() changes the bits of its range to those of the value and no
\* others, and get_byte() reads the value back.
THEOREM SetValueBits ==
    ASSUME NEW byte \in Bytes, NEW value \in Nat, NEW start \in 0..7,
           NEW length \in Nat, length >= 1
    PROVE  /\ set_value(byte, value, start, length) \in Bytes
           /\ Written(set_value(byte, value, start, length), byte, value, start, length)
           /\ get_byte(set_value(byte, value, start, length), start, length)
                = value % Two(Width(start, length))
<1> DEFINE new == set_value(byte, value, start, length)
<1>1. PICK n : n = Width(start, length)
      OBVIOUS
<1>2. byte \in Nat /\ byte <= 255
      BY DEF Bytes
<1>3. /\ n \in 1..8 - start /\ n = (IF length <= 8 - start THEN length ELSE 8 - start)
      /\ Two(start) \in Power /\ Two(n) \in Power /\ Two(start) * Two(n) <= 256
      /\ new = Mixed(byte, value, Two(start), Two(start) * Two(n))
      BY <1>1, <1>2, SetIsMixed, SMTT(30)
<1>4. /\ new \in Nat /\ new <= 255 /\ (new \div Two(start)) % Two(n) = value % Two(n)
      BY <1>2, <1>3, MixedParts
<1>5. new \in Bytes
      BY <1>4 DEF Bytes
<1>6. get_byte(new, start, length) = value % Two(n)
      BY <1>1, <1>4, SetIsMixed
<1>7. ASSUME NEW i \in 0..7
      PROVE  Bit(new, i) = IF start <= i /\ i < start + length
                           THEN Bit(value, i - start) ELSE Bit(byte, i)
      <2>1. Bit(new, i) = Digit(new, Two(i)) /\ Bit(byte, i) = Digit(byte, Two(i))
            BY BitIsDigit
      <2>2. Two(i) \in Power
            BY Powers
      <2>3. CASE start <= i /\ i < start + length
            <3>1. PICK k : k = i - start
                  OBVIOUS
            <3>2. k \in 0..7 /\ k < n /\ i = start + k /\ k \in 0..8 /\ n \in 0..8 /\ start \in 0..8
                  BY <1>3, <2>3, <3>1
            <3>3. Two(k) \in Power /\ Two(k) < Two(n) /\ Two(i) = Two(start) * Two(k)
                  BY <3>2, Powers
            <3>4. Digit(new, Two(i)) = Digit(value, Two(k))
                  BY <1>2, <1>3, <3>3, MixedInside
            <3>5. Bit(value, k) = Digit(value, Two(k))
                  BY <3>2, BitIsDigit
            <3> QED
                  BY <2>1, <2>3, <3>1, <3>4, <3>5
      <2>4. CASE ~(start <= i /\ i < start + length)
            <3>1. i \in 0..8 /\ start \in 0..8 /\ n \in 0..8 /\ start + n \in 0..8 /\ start + n <= 8
                  BY <1>3
            <3>2. i < start \/ ~(i < start + n)
                  BY <1>3, <2>4
            <3>3. Two(start + n) = Two(start) * Two(n)
                  BY <3>1, Powers
            <3>4. Two(i) < Two(start) \/ ~(Two(i) < Two(start + n))
                  BY <3>1, <3>2, Powers
            <3>5. Two(i) < Two(start) \/ Two(start) * Two(n) <= Two(i)
                  BY <1>3, <2>2, <3>3, <3>4 DEF Power
            <3>6. Digit(new, Two(i)) = Digit(byte, Two(i))
                  BY <1>2, <1>3, <2>2, <3>5, MixedOutside
            <3> QED
                  BY <2>1, <2>4, <3>6
      <2> QED
            BY <2>3, <2>4
<1> QED
      BY <1>1, <1>5, <1>6, <1>7 DEF Written

\* Two calls on ranges that do not meet may be made in either order.
THEOREM SetValuesCommute ==
    ASSUME NEW byte \in Bytes, NEW v \in Nat, NEW w \in Nat,
           NEW s \in 0..7, NEW t \in 0..7, NEW m \in Nat, NEW n \in Nat, m >= 1, n >= 1,
           s + m <= t \/ t + n <= s
    PROVE  set_value(set_value(byte, v, s, m), w, t, n)
             = set_value(set_value(byte, w, t, n), v, s, m)
<1> DEFINE a == set_value(byte, v, s, m)
           b == set_value(byte, w, t, n)
           ab == set_value(a, w, t, n)
           ba == set_value(b, v, s, m)
<1>1. a \in Bytes /\ b \in Bytes
      BY SetValueBits
<1>2. ab \in Bytes /\ ba \in Bytes
      BY <1>1, SetValueBits
<1>3. ASSUME NEW i \in 0..7 PROVE Bit(ab, i) = Bit(ba, i)
      <2>1. Written(ab, a, w, t, n) /\ Written(ba, b, v, s, m)
            BY <1>1, SetValueBits
      <2>2. Written(a, byte, v, s, m) /\ Written(b, byte, w, t, n)
            BY SetValueBits
      <2> HIDE DEF a, b, ab, ba
      <2> QED
            BY <2>1, <2>2 DEF Written
<1> QED
      BY <1>2, <1>3, SameBits

-----------------------------------------------------------------------------
(* Reports.                                                                *)

\* get_byte() of a whole byte and of its upper half.
LEMMA WholeAndHalf ==
    ASSUME NEW b \in Bytes
    PROVE  get_byte(b, 0, 8) = b /\ get_byte(b, 4, 4) = b \div 16
<1>1. Min({8, 8 - 0}) = 8 /\ Min({4, 8 - 4}) = 4
      BY MinOfTwo
<1>2. 2^0 = 1 /\ 2^4 = 16 /\ 2^8 = 256
      OBVIOUS
<1>3. get_byte(b, 0, 8) = (b \div 1) % 256 /\ get_byte(b, 4, 4) = (b \div 16) % 16
      BY <1>1, <1>2 DEF get_byte
<1>4. b \in Nat /\ b <= 255
      BY DEF Bytes
<1> QED
      BY <1>3, <1>4

\* SignExtend() undoes two's complement in 12 and in 16 bits.
LEMMA Extended ==
    ASSUME NEW x \in Int
    PROVE  /\ -2048 <= x /\ x <= 2047 => SignExtend(x % 4096, 12) = x
           /\ -32768 <= x /\ x <= 32767 => SignExtend(x % 65536, 16) = x
<1>1. 2^11 = 2048 /\ 2^12 = 4096 /\ 2^15 = 32768 /\ 2^16 = 65536
      OBVIOUS
<1>2. \A y : SignExtend(y, 12) = IF y >= 2048 THEN y - 4096 ELSE y
      BY <1>1 DEF SignExtend
<1>3. \A y : SignExtend(y, 16) = IF y >= 32768 THEN y - 65536 ELSE y
      BY <1>1 DEF SignExtend
<1>4. ASSUME -2048 <= x, x <= 2047 PROVE SignExtend(x % 4096, 12) = x
      BY <1>2, <1>4
<1>5. ASSUME -32768 <= x, x <= 32767 PROVE SignExtend(x % 65536, 16) = x
      BY <1>3, <1>5
<1> QED
      BY <1>4, <1>5

\* Whatever signed speed and acceleration the chassis sends in two's
\* complement, onVcuReport505() reports, at both ends of their ranges too; the
\* lower half of the byte they share with other signals does not disturb them.
THEOREM VcuReportExact ==
    ASSUME NEW msg \in Data,
           NEW acc \in Int, -2048 <= acc, acc <= 2047,
           NEW speed \in Int, -32768 <= speed, speed <= 32767,
           msg[0] * 16 + msg[1] \div 16 = acc % 4096,
           msg[2] * 256 + msg[3] = speed % 65536
    PROVE  onVcuReport505(msg).acc = acc /\ onVcuReport505(msg).speed = speed
<1>1. msg[0] \in Bytes /\ msg[1] \in Bytes /\ msg[2] \in Bytes /\ msg[3] \in Bytes
      BY DEF Data
<1>2. get_byte(msg[0], 0, 8) * 16 + get_byte(msg[1], 4, 4) = acc % 4096
      BY <1>1, WholeAndHalf
<1>3. 2 + 1 = 3
      OBVIOUS
<1>4. BigEndian(msg, 2) = speed % 65536
      BY <1>1, <1>3, WholeAndHalf DEF BigEndian
<1>5. /\ onVcuReport505(msg).acc
           = SignExtend(get_byte(msg[0], 0, 8) * 16 + get_byte(msg[1], 4, 4), 12)
      /\ onVcuReport505(msg).speed = SignExtend(BigEndian(msg, 2), 16)
      BY DEF onVcuReport505
<1> QED
      BY <1>2, <1>4, <1>5, Extended
====
