--------------------------- MODULE Hooke2DiagProofs ---------------------------
(***************************************************************************)
(* Hooke2Diag: the windows of samples stay bounded for every store time    *)
(* although one old sample at most leaves per new one; an alarm means that *)
(* nothing measured in the window answers anything commanded in it; and a  *)
(* vehicle that answers is not accused, if the disturbances of its drive   *)
(* are fewer than the ticks of the store time.                             *)
(***************************************************************************)
EXTENDS Hooke2Diag, SequenceTheorems, WellFoundedInduction, TLAPS

-----------------------------------------------------------------------------
(* The constants, and the smaller and larger of two integers.              *)

\* The assumption, constant by constant.
LEMMA Constants ==
    /\ StoreTime \in Nat /\ DiffThresh \in Nat /\ Timeout \in Nat
    /\ Dropouts \in Nat /\ MinDecel \in Int /\ MaxAccel \in Int
  BY DiagAssumption

\* Max of a pair.
LEMMA LargerOfTwo ==
    ASSUME NEW a \in Int, NEW b \in Int
    PROVE  /\ Max({a, b}) \in Int
           /\ Max({a, b}) = IF a >= b THEN a ELSE b
<1> DEFINE P(x) == x \in {a, b} /\ \A y \in {a, b} : x >= y
<1>1. \E x : P(x)
  BY DEF P
<1>2. P(CHOOSE x : P(x))
  BY <1>1
<1>3. Max({a, b}) = CHOOSE x : P(x)
  BY DEF Max
<1>4. QED
  BY <1>2, <1>3

\* Min of a pair.
LEMMA SmallerOfTwo ==
    ASSUME NEW a \in Int, NEW b \in Int
    PROVE  /\ Min({a, b}) \in Int
           /\ Min({a, b}) = IF a <= b THEN a ELSE b
<1> DEFINE P(x) == x \in {a, b} /\ \A y \in {a, b} : x <= y
<1>1. \E x : P(x)
  BY DEF P
<1>2. P(CHOOSE x : P(x))
  BY <1>1
<1>3. Min({a, b}) = CHOOSE x : P(x)
  BY DEF Min
<1>4. QED
  BY <1>2, <1>3

-----------------------------------------------------------------------------
(* Windows have a least and a greatest value.                              *)

\* Induction over the length of a window is made with the least length at
\* which something fails.
LEMMA LeastNat ==
    ASSUME NEW T \in SUBSET Nat, T # {}
    PROVE  \E x \in T : \A y \in T : x <= y
<1>1. PICK x \in T : \A y \in T : ~(<<y, x>> \in OpToRel(<, Nat))
  BY NatLessThanWellFounded, WFMin
<1>2. \A y \in T : y \in Nat /\ x \in Nat /\ ~(y < x)
  BY <1>1 DEF OpToRel
<1>3. QED
  BY <1>2

\* One of the first n values of f is the greatest of them.
LEMMA GreatestExists ==
    ASSUME NEW n \in Nat \ {0}, NEW f, \A i \in 1..n : f[i] \in Int
    PROVE  \E x \in 1..n : \A y \in 1..n : f[x] >= f[y]
<1> DEFINE Has(k) == \E x \in 1..k : \A y \in 1..k : f[x] >= f[y]
           Bad == {k \in 1..n : ~Has(k)}
<1>1. SUFFICES ASSUME Bad # {} PROVE FALSE
  <2>1. n \in 1..n
    OBVIOUS
  <2>2. Bad = {} => Has(n)
    BY <2>1, Zenon
  <2>3. QED
    BY <2>2
<1>2. PICK k \in Bad : \A j \in Bad : k <= j
  <2>1. Bad \in SUBSET Nat
    OBVIOUS
  <2>2. QED
    BY <1>1, <2>1, LeastNat
<1>3. CASE k = 1
  <2>1. \A y \in 1..1 : y = 1
    OBVIOUS
  <2>2. f[1] >= f[1]
    OBVIOUS
  <2>3. Has(1)
    BY <2>1, <2>2
  <2>4. QED
    BY <1>2, <1>3, <2>3
<1>4. CASE k # 1
  <2>1. k - 1 \in 1..n /\ k - 1 < k
    BY <1>2, <1>4
  <2>2. Has(k - 1)
    <3>1. k - 1 \notin Bad
      <4>1. k \in Int /\ ~(k <= k - 1)
        BY <2>1
      <4>2. QED
        BY <1>2, <4>1, Zenon
    <3>2. QED
      BY <2>1, <3>1, Zenon
  <2>3. PICK x \in 1..(k - 1) : \A y \in 1..(k - 1) : f[x] >= f[y]
    BY <2>2
  <2>4. /\ x \in 1..k /\ k \in 1..k /\ f[x] \in Int /\ f[k] \in Int
        /\ \A y \in 1..k : (y \in 1..(k - 1) \/ y = k) /\ f[y] \in Int
    BY <1>2, <2>1, <2>3
  <2>5. CASE f[x] >= f[k]
    BY <1>2, <2>3, <2>4, <2>5
  <2>6. CASE ~(f[x] >= f[k])
    <3>1. \A y \in 1..k : f[k] >= f[y]
      BY <2>3, <2>4, <2>6
    <3>2. QED
      BY <1>2, <2>4, <3>1
  <2>7. QED
    BY <2>5, <2>6
<1>5. QED
  BY <1>3, <1>4

\* The least and the greatest value of a window are bounds of its samples.
LEMMA WindowBounds ==
    ASSUME NEW que \in Seq(Samples), que # <<>>
    PROVE  /\ getMaxValue(que) \in Int /\ getMinValue(que) \in Int
           /\ \A i \in 1..Len(que) :
                 /\ que[i].value \in Int
                 /\ getMinValue(que) <= que[i].value
                 /\ que[i].value <= getMaxValue(que)
<1>1. /\ Len(que) \in Nat \ {0}
      /\ \A i \in 1..Len(que) : que[i].value \in Int
  <2>1. Len(que) \in Nat /\ Len(que) # 0
    BY LenProperties, EmptySeq
  <2>2. \A i \in 1..Len(que) : que[i] \in Samples
    BY ElementOfSeq
  <2>3. QED
    BY <2>1, <2>2 DEF Samples
<1>2. /\ getMaxValue(que) \in Int
      /\ \A i \in 1..Len(que) : que[i].value <= getMaxValue(que)
  <2> DEFINE f == [i \in 1..Len(que) |-> que[i].value]
             Greatest(v) == v \in Values(que) /\ \A w \in Values(que) : v >= w
  <2>1. PICK x \in 1..Len(que) : \A y \in 1..Len(que) : f[x] >= f[y]
    BY <1>1, GreatestExists
  <2>2. Greatest(que[x].value)
    BY <2>1 DEF Values
  <2>3. Greatest(CHOOSE v : Greatest(v))
    BY <2>2
  <2>4. getMaxValue(que) = CHOOSE v : Greatest(v)
    BY DEF getMaxValue, Max
  <2>5. QED
    BY <1>1, <2>3, <2>4 DEF Values
<1>3. /\ getMinValue(que) \in Int
      /\ \A i \in 1..Len(que) : getMinValue(que) <= que[i].value
  <2> DEFINE f == [i \in 1..Len(que) |-> 0 - que[i].value]
             Least(v) == v \in Values(que) /\ \A w \in Values(que) : v <= w
  <2>1. \A i \in 1..Len(que) : f[i] \in Int
    BY <1>1
  <2>2. PICK x \in 1..Len(que) : \A y \in 1..Len(que) : f[x] >= f[y]
    BY <1>1, <2>1, GreatestExists
  <2>3. \A y \in 1..Len(que) : que[x].value <= que[y].value
    BY <1>1, <2>2
  <2>4. Least(que[x].value)
    BY <2>3 DEF Values
  <2>5. Least(CHOOSE v : Least(v))
    BY <2>4
  <2>6. getMinValue(que) = CHOOSE v : Least(v)
    BY DEF getMinValue, Min
  <2>7. QED
    BY <1>1, <2>5, <2>6 DEF Values
<1>4. QED
  BY <1>1, <1>2, <1>3

-----------------------------------------------------------------------------
(* Windows under the operations of the node.                               *)

\* What a new sample leaves of the window.
LEMMA AddedWindow ==
    ASSUME NEW que \in Seq(Samples), NEW topic \in due, NEW v \in Int,
           Len(que) <= StoreTime + 2, Spaced(que, topic)
    PROVE  /\ addValueToQue(que, v) \in Seq(Samples)
           /\ Len(addValueToQue(que, v)) <= StoreTime + 2
           /\ \A i, j \in 1..Len(addValueToQue(que, v)) :
                 i < j => \/ addValueToQue(que, v)[i].age = StoreTime + 1
                          \/ addValueToQue(que, v)[i].age >=
                                addValueToQue(que, v)[j].age + (j - i)
<1> DEFINE new == [age |-> 0, value |-> v]
           longer == Append(que, new)
           n == Len(que)
           Apart(q) == \A i, j \in 1..Len(q) :
                          i < j => \/ q[i].age = StoreTime + 1
                                   \/ q[i].age >= q[j].age + (j - i)
<1>1. new \in Samples /\ StoreTime \in Nat
  BY Constants DEF Samples
<1>2. /\ longer \in Seq(Samples) /\ longer # <<>> /\ n \in Nat
      /\ Len(longer) = n + 1 /\ longer[n + 1] = new
      /\ \A i \in 1..n : longer[i] = que[i]
  BY <1>1, AppendProperties
<1>3. \A i \in 1..n : que[i].age \in 0..StoreTime + 1 /\ que[i].age >= 1
  <2>1. \A i \in 1..n : que[i] \in Samples
    BY ElementOfSeq
  <2>2. QED
    BY <2>1 DEF Spaced, Samples
<1>4. Apart(longer)
  <2>1. SUFFICES ASSUME NEW i \in 1..(n + 1), NEW j \in 1..(n + 1), i < j
                 PROVE  \/ longer[i].age = StoreTime + 1
                        \/ longer[i].age >= longer[j].age + (j - i)
    BY <1>2
  <2>2. i \in 1..n /\ longer[i] = que[i]
    BY <1>2, <2>1
  <2>3. CASE j \in 1..n
    BY <1>2, <2>1, <2>2, <2>3 DEF Spaced
  <2>4. CASE j = n + 1
    <3>1. longer[j].age = 0
      BY <1>2, <2>4
    <3>2. n \in 1..n /\ que[n].age \in Int /\ que[n].age >= 1 /\ que[i].age \in Int
      BY <1>2, <1>3, <2>2
    <3>3. CASE i = n
      BY <1>2, <2>2, <2>4, <3>1, <3>2, <3>3
    <3>4. CASE i # n
      <4>1. i < n
        BY <1>2, <2>2, <3>4
      <4>2. que[i].age = StoreTime + 1 \/ que[i].age >= que[n].age + (n - i)
        BY <2>2, <3>2, <4>1 DEF Spaced
      <4>3. QED
        BY <1>2, <2>2, <2>4, <3>1, <3>2, <4>2
    <3>5. QED
      BY <3>3, <3>4
  <2>5. QED
    BY <1>2, <2>3, <2>4
<1>5. CASE ~(Autonomous /\ odom)
  <2>1. addValueToQue(que, v) = <<>>
    BY <1>5 DEF addValueToQue
  <2>2. QED
    BY <1>1, <2>1, EmptySeq
<1>6. CASE Autonomous /\ odom /\ Len(longer) >= 2 /\ longer[2].age > StoreTime
  <2>1. addValueToQue(que, v) = Tail(longer)
    BY <1>6 DEF addValueToQue, DropOld
  <2>2. /\ Tail(longer) \in Seq(Samples) /\ Len(Tail(longer)) = n
        /\ \A i \in 1..n : Tail(longer)[i] = longer[i + 1]
    BY <1>2, HeadTailProperties
  <2>3. Apart(Tail(longer))
    <3>1. SUFFICES ASSUME NEW i \in 1..n, NEW j \in 1..n, i < j
                   PROVE  \/ Tail(longer)[i].age = StoreTime + 1
                          \/ Tail(longer)[i].age >= Tail(longer)[j].age + (j - i)
      BY <2>2
    <3>2. /\ i + 1 \in 1..(n + 1) /\ j + 1 \in 1..(n + 1) /\ i + 1 < j + 1
          /\ (j + 1) - (i + 1) = j - i
      BY <1>2, <3>1
    <3>3. \/ longer[i + 1].age = StoreTime + 1
          \/ longer[i + 1].age >= longer[j + 1].age + ((j + 1) - (i + 1))
      BY <1>2, <1>4, <3>2
    <3>4. QED
      BY <2>2, <3>1, <3>2, <3>3
  <2>4. QED
    BY <2>1, <2>2, <2>3
<1>7. CASE Autonomous /\ odom /\ ~(Len(longer) >= 2 /\ longer[2].age > StoreTime)
  <2>1. addValueToQue(que, v) = longer
    BY <1>7 DEF addValueToQue, DropOld
  <2>2. Len(longer) <= StoreTime + 2
    <3>1. CASE n <= 1
      BY <1>1, <1>2, <3>1
    <3>2. CASE ~(n <= 1)
      <4>1. 2 \in 1..(n + 1) /\ n + 1 \in 1..(n + 1) /\ 2 < n + 1
        BY <1>2, <3>2
      <4>2. longer[2] = que[2] /\ que[2].age \in Int /\ longer[2].age <= StoreTime
        BY <1>2, <1>3, <1>7, <3>2, <1>1
      <4>3. longer[2].age >= longer[n + 1].age + ((n + 1) - 2)
        BY <1>1, <1>2, <1>4, <4>1, <4>2
      <4>4. longer[n + 1].age = 0
        BY <1>2
      <4>5. QED
        BY <1>1, <1>2, <4>2, <4>3, <4>4
    <3>3. QED
      BY <3>1, <3>2
  <2>3. QED
    BY <1>2, <1>4, <2>1, <2>2
<1>8. QED
  BY <1>5, <1>6, <1>7

\* The window one tick later.
LEMMA AgedWindow ==
    ASSUME NEW que \in Seq(Samples), NEW topic, Spaced(que, topic)
    PROVE  /\ Aged(que) \in Seq(Samples)
           /\ Len(Aged(que)) = Len(que)
           /\ \A i \in 1..Len(que) : Aged(que)[i].age >= 1
           /\ \A i \in 1..Len(que) :
                 /\ Aged(que)[i].value = que[i].value
                 /\ Aged(que)[i].age = Older(que[i].age, StoreTime)
           /\ \A i, j \in 1..Len(que) :
                 i < j => \/ Aged(que)[i].age = StoreTime + 1
                          \/ Aged(que)[i].age >= Aged(que)[j].age + (j - i)
<1>1. /\ StoreTime \in Nat /\ Len(que) \in Nat /\ DOMAIN que = 1..Len(que)
      /\ \A i \in 1..Len(que) : que[i] \in Samples
  BY Constants, LenProperties, ElementOfSeq
<1>2. \A i \in 1..Len(que) :
         /\ Aged(que)[i] = [que[i] EXCEPT !.age = Older(que[i].age, StoreTime)]
         /\ que[i].age \in 0..StoreTime + 1
  BY <1>1 DEF Aged, Samples
<1>3. \A a \in 0..StoreTime + 1 :
         /\ Older(a, StoreTime) \in 0..StoreTime + 1
         /\ Older(a, StoreTime) >= 1
         /\ Older(a, StoreTime) = IF a = StoreTime + 1 THEN a ELSE a + 1
  BY <1>1 DEF Older
<1>4. \A i \in 1..Len(que) :
         /\ Aged(que)[i] \in Samples
         /\ Aged(que)[i].value = que[i].value
         /\ Aged(que)[i].age = Older(que[i].age, StoreTime)
  BY <1>1, <1>2, <1>3 DEF Samples
<1>5. Aged(que) \in Seq(Samples) /\ Len(Aged(que)) = Len(que)
  <2>1. Aged(que) \in [1..Len(que) -> Samples]
    <3>1. Aged(que) = [i \in 1..Len(que) |-> Aged(que)[i]]
      BY <1>1 DEF Aged
    <3>2. QED
      BY <1>4, <3>1
  <2>2. Aged(que) \in Seq(Samples)
    BY <1>1, <2>1, SeqDef, Zenon
  <2>3. QED
    BY <1>1, <2>1, <2>2, LenProperties
<1>6. ASSUME NEW i \in 1..Len(que), NEW j \in 1..Len(que), i < j
      PROVE  \/ Aged(que)[i].age = StoreTime + 1
             \/ Aged(que)[i].age >= Aged(que)[j].age + (j - i)
  <2>1. que[i].age = StoreTime + 1 \/ que[i].age >= que[j].age + (j - i)
    BY <1>6 DEF Spaced
  <2>2. /\ que[i].age \in 0..StoreTime + 1 /\ que[j].age \in 0..StoreTime + 1
        /\ Aged(que)[i].age = Older(que[i].age, StoreTime)
        /\ Aged(que)[j].age = Older(que[j].age, StoreTime)
    BY <1>2, <1>4
  <2>3. /\ Older(que[i].age, StoreTime) =
              IF que[i].age = StoreTime + 1 THEN que[i].age ELSE que[i].age + 1
        /\ Older(que[j].age, StoreTime) =
              IF que[j].age = StoreTime + 1 THEN que[j].age ELSE que[j].age + 1
    BY <1>3, <2>2, Zenon
  <2>4. QED
    BY <1>1, <1>6, <2>1, <2>2, <2>3
<1>7. QED
  BY <1>3, <1>2, <1>4, <1>5, <1>6

-----------------------------------------------------------------------------
(* The invariant.                                                          *)

\* The node starts with empty windows.
LEMMA InitWindows == Init => WindowInv
<1>1. SUFFICES ASSUME Init PROVE WindowInv
  OBVIOUS
<1>2. /\ StoreTime \in Nat /\ Timeout \in Nat /\ Dropouts \in Nat
      /\ 0 \in 0..Timeout + 1 /\ Dropouts \in 0..Dropouts
  BY Constants
<1>3. /\ acc_que = <<>> /\ acc_cmd_que = <<>> /\ Len(acc_que) = 0
      /\ Len(acc_cmd_que) = 0 /\ acc_que \in Seq(Samples)
      /\ acc_cmd_que \in Seq(Samples)
  BY <1>1, EmptySeq DEF Init
<1>4. due \subseteq Topics
  BY <1>1 DEF Init, Sending
<1>5. script \in Seq(Phases) \ {<<>>}
  BY <1>1, DiagAssumption DEF Init
<1>6. vehicle \in [health : Healths, acc : Int]
  BY <1>1 DEF Init, Healths
<1>7. TypeOK
  BY <1>1, <1>2, <1>3, <1>4, <1>5, <1>6 DEF Init, TypeOK
<1>8. Spaced(acc_que, "acc") /\ Spaced(acc_cmd_que, "cmd")
  BY <1>3 DEF Spaced
<1>9. QED
  BY <1>7, <1>8 DEF WindowInv

\* The vehicle answers with an integer.
LEMMA ResponseType ==
    ASSUME Now.cmd \in Int PROVE Response \in Int
<1>1. MinDecel \in Int /\ MaxAccel \in Int
  BY Constants
<1>2. Wanted(Now.cmd) \in Int
  BY <1>1, LargerOfTwo, SmallerOfTwo DEF Wanted
<1>3. Max({Wanted(Now.cmd), 0}) \in Int /\ Min({Wanted(Now.cmd), 0}) \in Int
  BY <1>2, LargerOfTwo, SmallerOfTwo
<1>4. QED
  BY <1>2, <1>3 DEF Response

\* Only the two callbacks and time touch the windows; the rest is types.
LEMMA NextWindows == WindowInv /\ [Next]_vars => WindowInv'
<1>1. SUFFICES ASSUME WindowInv, [Next]_vars PROVE WindowInv'
  OBVIOUS
<1>2. TypeOK /\ Spaced(acc_que, "acc") /\ Spaced(acc_cmd_que, "cmd")
  BY <1>1 DEF WindowInv
<1>3. /\ script \in Seq(Phases) /\ script # <<>> /\ Now \in Phases
      /\ StoreTime \in Nat /\ Timeout \in Nat /\ Dropouts \in Nat
  BY <1>2, Constants, HeadTailProperties DEF TypeOK, Now
<1>4. CASE callbackCan \/ callbackHooke2Rpt \/ callbackOdometry
  <2>1. /\ due' \subseteq due
        /\ UNCHANGED <<acc_que, acc_cmd_que, checker, accel_brake, envVars>>
    BY <1>4 DEF callbackCan, callbackHooke2Rpt, callbackOdometry, Arrives
  <2>2. /\ last_can' \in 0..Timeout + 1 /\ last_msgs' \in 0..Timeout + 1
        /\ rpt' \in Reports \cup {None} /\ odom' \in BOOLEAN \cup {None}
    BY <1>2, <1>3, <1>4
       DEF callbackCan, callbackHooke2Rpt, callbackOdometry, TypeOK, Reports, Phases
  <2>3. QED
    BY <1>2, <2>1, <2>2 DEF WindowInv, TypeOK, Spaced, envVars
<1>5. CASE callbackAccel
  <2>1. /\ "acc" \in due /\ due' = due \ {"acc"}
        /\ acc_que' = addValueToQue(acc_que, vehicle.acc)
        /\ UNCHANGED <<last_can, last_msgs, rpt, odom, acc_cmd_que, checker,
                       accel_brake, envVars>>
    BY <1>5 DEF callbackAccel, Arrives
  <2>2. /\ acc_que \in Seq(Samples) /\ Len(acc_que) <= StoreTime + 2
        /\ vehicle.acc \in Int
    BY <1>2 DEF TypeOK
  <2>3. /\ acc_que' \in Seq(Samples) /\ Len(acc_que') <= StoreTime + 2
        /\ Spaced(acc_que, "acc")'
    BY <1>2, <2>1, <2>2, AddedWindow DEF Spaced
  <2>4. QED
    BY <1>2, <2>1, <2>3 DEF WindowInv, TypeOK, Spaced, envVars
<1>6. CASE callbackControlCmd
  <2>1. /\ "cmd" \in due /\ due' = due \ {"cmd"}
        /\ acc_cmd_que' = addValueToQue(acc_cmd_que, Now.cmd)
        /\ UNCHANGED <<last_can, last_msgs, rpt, odom, acc_que, checker,
                       accel_brake, envVars>>
    BY <1>6 DEF callbackControlCmd, Arrives
  <2>2. /\ acc_cmd_que \in Seq(Samples) /\ Len(acc_cmd_que) <= StoreTime + 2
        /\ Now.cmd \in Int
    BY <1>2, <1>3 DEF TypeOK, Phases
  <2>3. /\ acc_cmd_que' \in Seq(Samples) /\ Len(acc_cmd_que') <= StoreTime + 2
        /\ Spaced(acc_cmd_que, "cmd")'
    BY <1>2, <2>1, <2>2, AddedWindow DEF Spaced
  <2>4. QED
    BY <1>2, <2>1, <2>3 DEF WindowInv, TypeOK, Spaced, envVars
<1>7. CASE update
  <2>1. checker' \subseteq Reasons /\ accel_brake' \in {"OK", "brake", "accel"}
    BY <1>7 DEF update, checkHooke2Msgs, checkHooke2AccelBrake, Reasons
  <2>2. UNCHANGED <<nodeVars, due, envVars>>
    BY <1>7 DEF update
  <2>3. QED
    BY <1>2, <2>1, <2>2 DEF WindowInv, TypeOK, Spaced, envVars, nodeVars
<1>8. CASE Lost
  <2>1. /\ due' \subseteq due /\ drops' = drops - 1 /\ drops > 0
        /\ UNCHANGED <<nodeVars, checker, accel_brake, script, vehicle>>
    BY <1>8 DEF Lost
  <2>2. drops' \in 0..Dropouts
    BY <1>2, <1>3, <2>1 DEF TypeOK
  <2>3. QED
    BY <1>2, <2>1, <2>2 DEF WindowInv, TypeOK, Spaced, nodeVars
<1>9. CASE Tick
  <2>1. /\ last_can' = Older(last_can, Timeout)
        /\ last_msgs' = Older(last_msgs, Timeout)
        /\ acc_que' = Aged(acc_que) /\ acc_cmd_que' = Aged(acc_cmd_que)
        /\ UNCHANGED <<rpt, odom, checker, accel_brake, drops>>
        /\ due' = Sending(Head(script'))
    BY <1>9 DEF Tick
  <2>2. last_can' \in 0..Timeout + 1 /\ last_msgs' \in 0..Timeout + 1
    BY <1>2, <1>3, <2>1 DEF TypeOK, Older
  <2>3. script' \in Seq(Phases) \ {<<>>}
    <3>1. CASE script' = script
      BY <1>3, <3>1
    <3>2. CASE Len(script) > 1 /\ script' = Tail(script)
      <4>1. Tail(script) \in Seq(Phases) /\ Len(Tail(script)) = Len(script) - 1
        BY <1>3, HeadTailProperties
      <4>2. Len(script) \in Nat
        BY <1>3, LenProperties
      <4>3. Len(Tail(script)) # 0
        BY <3>2, <4>1, <4>2
      <4>4. QED
        BY <3>2, <4>1, <4>3, EmptySeq
    <3>3. QED
      BY <1>9, <3>1, <3>2 DEF Tick
  <2>4. Head(script') \in Phases /\ due' \subseteq Topics
    BY <2>1, <2>3, HeadTailProperties DEF Sending
  <2>5. vehicle' \in [health : Healths, acc : Int]
    <3>1. Response \in Int
      BY <1>3, ResponseType DEF Phases
    <3>2. Head(script').driver \in Int
      BY <2>4 DEF Phases
    <3>3. vehicle.health \in Healths
      BY <1>2 DEF TypeOK
    <3>4. QED
      BY <1>9, <3>1, <3>2, <3>3 DEF Tick, Healths
  <2>6. /\ acc_que \in Seq(Samples) /\ Len(acc_que) <= StoreTime + 2
        /\ acc_cmd_que \in Seq(Samples) /\ Len(acc_cmd_que) <= StoreTime + 2
    BY <1>2 DEF TypeOK
  <2>7. /\ acc_que' \in Seq(Samples) /\ Len(acc_que') <= StoreTime + 2
        /\ Spaced(acc_que, "acc")'
    BY <1>2, <2>1, <2>6, AgedWindow DEF Spaced
  <2>8. /\ acc_cmd_que' \in Seq(Samples) /\ Len(acc_cmd_que') <= StoreTime + 2
        /\ Spaced(acc_cmd_que, "cmd")'
    BY <1>2, <2>1, <2>6, AgedWindow DEF Spaced
  <2>9. QED
    BY <1>2, <2>1, <2>2, <2>3, <2>4, <2>5, <2>7, <2>8 DEF WindowInv, TypeOK
<1>10. CASE UNCHANGED vars
  BY <1>2, <1>10 DEF vars, WindowInv, TypeOK, Spaced
<1>11. QED
  BY <1>1, <1>4, <1>5, <1>6, <1>7, <1>8, <1>9, <1>10 DEF Next

\* The windows are bounded and spaced in every reachable state.
LEMMA WindowsInvariance == Spec => []WindowInv
  BY InitWindows, NextWindows, PTL DEF Spec

-----------------------------------------------------------------------------
(* What the node stores and what it concludes from it.                     *)

(* The node's variables are well typed and its two windows never hold more *)
(* than StoreTime + 2 samples, for every store time, drive and number of   *)
(* lost messages (addValueToQue drops at most one old sample per new one). *)
THEOREM TypeCorrect == Spec => []TypeOK
<1>1. WindowInv => TypeOK
  BY DEF WindowInv
<1>2. QED
  BY <1>1, WindowsInvariance, PTL

\* A check finds no fault against a measured sample of the window that comes
\* within the threshold of the answer to a command of the window.
LEMMA FaultMeans ==
    ASSUME TypeOK,
           NEW i \in 1..Len(acc_cmd_que), NEW j \in 1..Len(acc_que)
    PROVE  /\ acc_que[j].value \in Int /\ Wanted(acc_cmd_que[i].value) \in Int
           /\ checkBrakeFault =>
                 acc_que[j].value > Wanted(acc_cmd_que[i].value) + DiffThresh
           /\ checkAccelFault =>
                 acc_que[j].value < Wanted(acc_cmd_que[i].value) - DiffThresh
<1>1. /\ acc_que \in Seq(Samples) /\ acc_cmd_que \in Seq(Samples)
      /\ acc_que # <<>> /\ acc_cmd_que # <<>>
  <2>1. acc_que \in Seq(Samples) /\ acc_cmd_que \in Seq(Samples)
    BY DEF TypeOK
  <2>2. Len(acc_que) # 0 /\ Len(acc_cmd_que) # 0
    OBVIOUS
  <2>3. QED
    BY <2>1, <2>2, EmptySeq
<1>2. /\ getMaxValue(acc_cmd_que) \in Int /\ getMinValue(acc_cmd_que) \in Int
      /\ acc_cmd_que[i].value \in Int
      /\ getMinValue(acc_cmd_que) <= acc_cmd_que[i].value
      /\ acc_cmd_que[i].value <= getMaxValue(acc_cmd_que)
  BY <1>1, WindowBounds
<1>3. /\ getMaxValue(acc_que) \in Int /\ getMinValue(acc_que) \in Int
      /\ acc_que[j].value \in Int
      /\ getMinValue(acc_que) <= acc_que[j].value
      /\ acc_que[j].value <= getMaxValue(acc_que)
  BY <1>1, WindowBounds
<1>4. MinDecel \in Int /\ MaxAccel \in Int /\ DiffThresh \in Nat
  BY Constants
<1> DEFINE cmd == acc_cmd_que[i].value
           most == Max({getMaxValue(acc_cmd_que), MinDecel})
           least == Min({getMinValue(acc_cmd_que), MaxAccel})
<1>5. /\ most \in Int /\ most >= MinDecel /\ most >= getMaxValue(acc_cmd_que)
      /\ least \in Int /\ least <= MaxAccel /\ least <= getMinValue(acc_cmd_que)
  BY <1>2, <1>4, LargerOfTwo, SmallerOfTwo
<1>6. /\ Wanted(cmd) \in Int /\ Wanted(cmd) <= most /\ Wanted(cmd) >= least
  <2>1. /\ Min({MaxAccel, cmd}) \in Int
        /\ Min({MaxAccel, cmd}) = IF MaxAccel <= cmd THEN MaxAccel ELSE cmd
    BY <1>2, <1>4, SmallerOfTwo
  <2>2. /\ Wanted(cmd) \in Int
        /\ Wanted(cmd) = IF MinDecel >= Min({MaxAccel, cmd}) THEN MinDecel
                         ELSE Min({MaxAccel, cmd})
    BY <1>4, <2>1, LargerOfTwo DEF Wanted
  <2>3. QED
    BY <1>2, <1>4, <1>5, <2>1, <2>2
<1>7. /\ checkBrakeFault => most - getMinValue(acc_que) < -DiffThresh
      /\ checkAccelFault => least - getMaxValue(acc_que) > DiffThresh
  BY DEF checkBrakeFault, checkAccelFault
<1>8. QED
  BY <1>3, <1>4, <1>5, <1>6, <1>7

(* No brake or accelerator fault is found while one measured sample of the *)
(* window comes within the threshold of the answer to one command of the   *)
(* window (checkBrakeFault, checkAccelFault), for all limits and windows.  *)
THEOREM AlarmsJustified == Spec => AlarmJustified
<1>1. ASSUME TypeOK, [Next]_vars,
             NEW i \in 1..Len(acc_cmd_que), NEW j \in 1..Len(acc_que), update
      PROVE  /\ accel_brake' = "brake" =>
                   acc_que[j].value > Wanted(acc_cmd_que[i].value) + DiffThresh
             /\ accel_brake' = "accel" =>
                   acc_que[j].value < Wanted(acc_cmd_que[i].value) - DiffThresh
  <2>1. /\ accel_brake' = "brake" => checkBrakeFault
        /\ accel_brake' = "accel" => checkAccelFault
    BY <1>1 DEF update, checkHooke2AccelBrake
  <2>2. QED
    BY <1>1, <2>1, FaultMeans
<1>2. WindowInv /\ [Next]_vars =>
        [\A i \in 1..Len(acc_cmd_que), j \in 1..Len(acc_que) :
          LET answer == Wanted(acc_cmd_que[i].value)
          IN  /\ update /\ accel_brake' = "brake"
                    => acc_que[j].value > answer + DiffThresh
              /\ update /\ accel_brake' = "accel"
                    => acc_que[j].value < answer - DiffThresh]_vars
  BY <1>1, Zenon DEF WindowInv
<1>3. QED
  BY <1>2, WindowsInvariance, PTL DEF Spec, AlarmJustified

-----------------------------------------------------------------------------
(* The windows of a vehicle that answers.  First, windows by themselves.   *)

\* A new sample finds its place at the end; the n-th before becomes the
\* (n - d)-th, where d old samples have left, or the window is empty.
Shifted(que, longer, d) ==
    /\ Len(longer) = Len(que) + 1 - d
    /\ longer[Len(longer)].age = 0
    /\ \A n \in 1..Len(que) : n - d >= 1 => longer[n - d] = que[n]
    /\ d = 1 => Len(que) >= 2 /\ que[2].age > StoreTime

\* addValueToQue empties the window or shifts it.
LEMMA AddedShifts ==
    ASSUME NEW que \in Seq(Samples), NEW v \in Int, addValueToQue(que, v) # <<>>
    PROVE  \E d \in {0, 1} :
              /\ Shifted(que, addValueToQue(que, v), d)
              /\ addValueToQue(que, v)[Len(addValueToQue(que, v))].value = v
<1> DEFINE new == [age |-> 0, value |-> v]
           longer == Append(que, new)
           n == Len(que)
<1>1. new \in Samples /\ StoreTime \in Nat
  BY Constants DEF Samples
<1>2. /\ longer \in Seq(Samples) /\ longer # <<>> /\ n \in Nat
      /\ Len(longer) = n + 1 /\ longer[n + 1] = new
      /\ \A i \in 1..n : longer[i] = que[i]
  BY <1>1, AppendProperties
<1>3. addValueToQue(que, v) = DropOld(longer)
  BY DEF addValueToQue
<1>4. CASE Len(longer) >= 2 /\ longer[2].age > StoreTime
  <2>1. addValueToQue(que, v) = Tail(longer)
    BY <1>3, <1>4 DEF DropOld
  <2>2. /\ Tail(longer) \in Seq(Samples) /\ Len(Tail(longer)) = n
        /\ \A i \in 1..n : Tail(longer)[i] = longer[i + 1]
    BY <1>2, HeadTailProperties
  <2>3. n >= 2 /\ que[2].age > StoreTime
    <3>1. CASE n >= 2
      BY <1>2, <1>4, <3>1
    <3>2. CASE n = 1
      BY <1>1, <1>2, <1>4, <3>2
    <3>3. n >= 2 \/ n = 1
      <4>1. \A m \in Nat : m + 1 >= 2 => m >= 2 \/ m = 1
        OBVIOUS
      <4>2. n \in Nat /\ n + 1 >= 2
        BY <1>2, <1>4, Zenon
      <4>3. QED
        BY <4>1, <4>2, Zenon
    <3>4. QED
      BY <3>1, <3>2, <3>3
  <2>4. Tail(longer)[n] = new
    BY <1>2, <2>2, <2>3
  <2>5. \A k \in 1..n : k - 1 >= 1 => Tail(longer)[k - 1] = que[k]
    BY <1>2, <2>2
  <2>6. Shifted(que, Tail(longer), 1)
    BY <1>2, <2>2, <2>3, <2>4, <2>5 DEF Shifted
  <2>7. QED
    BY <2>1, <2>2, <2>4, <2>6
<1>5. CASE ~(Len(longer) >= 2 /\ longer[2].age > StoreTime)
  <2>1. addValueToQue(que, v) = longer
    BY <1>3, <1>5 DEF DropOld
  <2>2. Shifted(que, longer, 0)
    BY <1>2 DEF Shifted
  <2>3. QED
    BY <1>2, <2>1, <2>2
<1>6. QED
  BY <1>4, <1>5

\* What was recent stays recent, one place nearer the front.
LEMMA RecentShifts ==
    ASSUME NEW que \in Seq(Samples), NEW longer \in Seq(Samples),
           NEW d \in {0, 1}, Shifted(que, longer, d),
           NEW age \in 0..StoreTime, NEW n \in Nat \ {0}, Recent(que, n, age)
    PROVE  /\ d = 1 => n >= 3
           /\ Recent(longer, n - d, age)
<1>1. /\ StoreTime \in Nat /\ Len(que) \in Nat /\ Len(longer) \in Nat
      /\ \A i \in 1..Len(que) : que[i].age \in Int
  <2>1. \A i \in 1..Len(que) : que[i] \in Samples
    BY ElementOfSeq
  <2>2. QED
    BY <2>1, Constants, LenProperties DEF Samples
<1>2. d = 1 => n >= 3
  <2>1. SUFFICES ASSUME d = 1, n <= 2 PROVE FALSE
    OBVIOUS
  <2>2. Len(que) >= 2 /\ que[2].age > StoreTime /\ 2 \in n..Len(que)
    BY <1>1, <2>1 DEF Shifted
  <2>3. que[2].age <= age /\ que[2].age \in Int
    BY <1>1, <2>2 DEF Recent
  <2>4. QED
    BY <1>1, <2>2, <2>3
<1>3. ASSUME NEW k \in (n - d)..Len(longer)
      PROVE  longer[k].age <= age
  <2>1. CASE k = Len(longer)
    BY <2>1 DEF Shifted
  <2>2. CASE k # Len(longer)
    <3>1. k + d \in 1..Len(que) /\ k + d \in n..Len(que) /\ (k + d) - d = k /\ k >= 1
      <4>1. Len(longer) = Len(que) + 1 - d /\ d \in Nat /\ n >= d + 1
        BY <1>2 DEF Shifted
      <4>2. k \in Int /\ n - d <= k /\ k <= Len(longer)
        BY <1>1, <1>3, <4>1
      <4>3. QED
        BY <1>1, <2>2, <4>1, <4>2
    <3>2. longer[k] = que[k + d]
      BY <3>1 DEF Shifted
    <3>3. QED
      BY <3>1, <3>2 DEF Recent
  <2>3. QED
    BY <2>1, <2>2
<1>4. QED
  BY <1>2, <1>3 DEF Recent

\* A window that is too young for the checks stays so.
LEMMA YoungShifts ==
    ASSUME NEW que \in Seq(Samples), NEW topic, Spaced(que, topic),
           NEW longer \in Seq(Samples),
           NEW d \in {0, 1}, Shifted(que, longer, d),
           NEW age \in 0..StoreTime, Young(que, age)
    PROVE  Young(longer, age)
<1>1. /\ StoreTime \in Nat /\ Len(que) \in Nat
      /\ \A i \in 1..Len(que) : que[i].age \in Int
  <2>1. \A i \in 1..Len(que) : que[i] \in Samples
    BY ElementOfSeq
  <2>2. QED
    BY <2>1, Constants, LenProperties DEF Samples
<1>2. CASE que = <<>>
  <2>1. Len(que) = 0
    BY <1>2, EmptySeq
  <2>2. Len(longer) = 1 /\ longer[1].age = 0
    BY <2>1 DEF Shifted
  <2>3. QED
    BY <2>2 DEF Young
<1>3. CASE que # <<>>
  <2>1. Len(que) >= 1 /\ que[1].age <= age /\ que[1].age \in Int
    <3>1. Len(que) # 0
      BY <1>3, EmptySeq
    <3>2. QED
      BY <1>1, <1>3, <3>1 DEF Young
  <2>2. d = 0
    <3>1. SUFFICES ASSUME d = 1 PROVE FALSE
      OBVIOUS
    <3>2. 1 \in 1..Len(que) /\ 2 \in 1..Len(que) /\ que[2].age > StoreTime
      BY <1>1, <3>1 DEF Shifted
    <3>3. que[1].age = StoreTime + 1 \/ que[1].age >= que[2].age + (2 - 1)
      BY <3>2 DEF Spaced
    <3>4. que[2].age \in Int
      BY <1>1, <3>2
    <3>5. QED
      BY <1>1, <2>1, <3>2, <3>3, <3>4
  <2>3. longer[1] = que[1]
    BY <1>1, <2>1, <2>2 DEF Shifted
  <2>4. QED
    BY <2>1, <2>3 DEF Young
<1>4. QED
  BY <1>2, <1>3

-----------------------------------------------------------------------------
(* The pair of windows.                                                    *)

\* The facts about windows that the steps below rest on.
LEMMA WindowFacts ==
    ASSUME NEW que \in Seq(Samples)
    PROVE  /\ StoreTime \in Nat /\ Len(que) \in Nat
           /\ que = <<>> <=> Len(que) = 0
           /\ \A i \in 1..Len(que) : que[i].age \in 0..StoreTime + 1
<1>1. \A i \in 1..Len(que) : que[i] \in Samples
  BY ElementOfSeq
<1>2. QED
  BY <1>1, Constants, LenProperties, EmptySeq DEF Samples

\* Cover at an age is cover at a greater one.
LEMMA CoverGrows ==
    ASSUME NEW accs \in Seq(Samples), NEW cmds \in Seq(Samples),
           NEW a \in Int, NEW b \in Int, a <= b, Covered(accs, cmds, a)
    PROVE  Covered(accs, cmds, b)
<1>1. \A que \in Seq(Samples) : Young(que, a) => Young(que, b)
  <2>1. SUFFICES ASSUME NEW que \in Seq(Samples), que # <<>>, que[1].age <= a
                 PROVE  que[1].age <= b
    BY DEF Young
  <2>2. que[1].age \in Int
    BY <2>1, WindowFacts
  <2>3. QED
    BY <2>1, <2>2
<1>2. \A que \in Seq(Samples) : \A n \in Nat \ {0} :
         Recent(que, n, a) => Recent(que, n, b)
  <2>1. SUFFICES ASSUME NEW que \in Seq(Samples), NEW n \in Nat \ {0},
                        Recent(que, n, a), NEW k \in n..Len(que)
                 PROVE  que[k].age <= b
    BY DEF Recent
  <2>2. que[k].age <= a
    BY <2>1 DEF Recent
  <2>3. k \in 1..Len(que)
    BY <2>1, WindowFacts
  <2>4. que[k].age \in Int
    BY <2>3, WindowFacts
  <2>5. QED
    BY <2>2, <2>4
<1>3. ASSUME Matched(accs, cmds, a)
      PROVE  Matched(accs, cmds, b)
  <2>1. PICK i \in 1..Len(cmds), j \in 1..Len(accs) :
           /\ accs[j].value = Wanted(cmds[i].value)
           /\ Recent(accs, j, a) /\ Recent(cmds, i + 1, a)
    BY <1>3 DEF Matched
  <2>2. j \in Nat \ {0} /\ i + 1 \in Nat \ {0}
    BY <2>1
  <2>3. Recent(accs, j, b) /\ Recent(cmds, i + 1, b)
    BY <1>2, <2>1, <2>2
  <2>4. QED
    BY <2>1, <2>3 DEF Matched
<1>4. QED
  BY <1>1, <1>3 DEF Covered

\* A new measurement leaves what covers the checks where it was.
LEMMA CoverMeasured ==
    ASSUME NEW accs \in Seq(Samples), NEW cmds \in Seq(Samples),
           NEW topic, Spaced(accs, topic),
           NEW longer \in Seq(Samples), NEW d \in {0, 1}, Shifted(accs, longer, d),
           NEW age \in 0..StoreTime, Covered(accs, cmds, age)
    PROVE  Covered(longer, cmds, age)
<1>1. CASE Young(accs, age)
  <2>1. Young(longer, age)
    BY <1>1, YoungShifts
  <2>2. QED
    BY <2>1 DEF Covered
<1>2. CASE Young(cmds, age)
  BY <1>2 DEF Covered
<1>3. CASE Matched(accs, cmds, age)
  <2>1. PICK i \in 1..Len(cmds), j \in 1..Len(accs) :
           /\ accs[j].value = Wanted(cmds[i].value)
           /\ Recent(accs, j, age) /\ Recent(cmds, i + 1, age)
    BY <1>3 DEF Matched
  <2>2. (d = 1 => j >= 3) /\ Recent(longer, j - d, age)
    <3>1. j \in Nat \ {0}
      OBVIOUS
    <3>2. QED
      BY <2>1, <3>1, RecentShifts
  <2>3. j - d \in 1..Len(longer) /\ longer[j - d] = accs[j]
    <3>1. Len(longer) = Len(accs) + 1 - d /\ Len(accs) \in Nat
      BY WindowFacts DEF Shifted
    <3>2. j - d >= 1 /\ j - d <= Len(longer) /\ j - d \in Int
      BY <2>2, <3>1
    <3>3. QED
      BY <3>1, <3>2 DEF Shifted
  <2>4. QED
    BY <2>1, <2>2, <2>3 DEF Covered, Matched
<1>4. QED
  BY <1>1, <1>2, <1>3 DEF Covered

\* So does a new command.
LEMMA CoverCommanded ==
    ASSUME NEW accs \in Seq(Samples), NEW cmds \in Seq(Samples),
           NEW topic, Spaced(cmds, topic),
           NEW longer \in Seq(Samples), NEW d \in {0, 1}, Shifted(cmds, longer, d),
           NEW age \in 0..StoreTime, Covered(accs, cmds, age)
    PROVE  Covered(accs, longer, age)
<1>1. CASE Young(cmds, age)
  <2>1. Young(longer, age)
    BY <1>1, YoungShifts
  <2>2. QED
    BY <2>1 DEF Covered
<1>2. CASE Young(accs, age)
  BY <1>2 DEF Covered
<1>3. CASE Matched(accs, cmds, age)
  <2>1. PICK i \in 1..Len(cmds), j \in 1..Len(accs) :
           /\ accs[j].value = Wanted(cmds[i].value)
           /\ Recent(accs, j, age) /\ Recent(cmds, i + 1, age)
    BY <1>3 DEF Matched
  <2>2. (d = 1 => i + 1 >= 3) /\ Recent(longer, (i + 1) - d, age)
    <3>1. i + 1 \in Nat \ {0}
      OBVIOUS
    <3>2. QED
      BY <2>1, <3>1, RecentShifts
  <2>3. /\ i - d \in 1..Len(longer) /\ longer[i - d] = cmds[i]
        /\ (i + 1) - d = (i - d) + 1
    <3>1. Len(longer) = Len(cmds) + 1 - d /\ Len(cmds) \in Nat
      BY WindowFacts DEF Shifted
    <3>2. i - d >= 1 /\ i - d <= Len(longer) /\ i - d \in Int
      BY <2>2, <3>1
    <3>3. QED
      BY <3>1, <3>2 DEF Shifted
  <2>4. QED
    BY <2>1, <2>2, <2>3 DEF Covered, Matched
<1>4. QED
  BY <1>1, <1>2, <1>3 DEF Covered

\* An acceleration still answers a stored command after a new one.
LEMMA AnswerCommanded ==
    ASSUME NEW cmds \in Seq(Samples), NEW longer \in Seq(Samples),
           NEW d \in {0, 1}, Shifted(cmds, longer, d),
           NEW acc, Answers(acc, cmds)
    PROVE  Answers(acc, longer)
<1>1. PICK i \in 1..Len(cmds) :
         acc = Wanted(cmds[i].value) /\ Recent(cmds, i + 1, 0)
  BY DEF Answers
<1>2. (d = 1 => i + 1 >= 3) /\ Recent(longer, (i + 1) - d, 0)
  <2>1. i + 1 \in Nat \ {0} /\ 0 \in 0..StoreTime
    BY Constants
  <2>2. QED
    BY <1>1, <2>1, RecentShifts
<1>3. /\ i - d \in 1..Len(longer) /\ longer[i - d] = cmds[i]
      /\ (i + 1) - d = (i - d) + 1
  <2>1. Len(longer) = Len(cmds) + 1 - d /\ Len(cmds) \in Nat
    BY WindowFacts DEF Shifted
  <2>2. i - d >= 1 /\ i - d <= Len(longer) /\ i - d \in Int
    BY <1>2, <2>1
  <2>3. QED
    BY <2>1, <2>2 DEF Shifted
<1>4. QED
  BY <1>1, <1>2, <1>3 DEF Answers

\* The measurement of an answer covers the checks afresh.
LEMMA AnswerMeasured ==
    ASSUME NEW cmds \in Seq(Samples), NEW accs \in Seq(Samples),
           accs # <<>>, accs[Len(accs)].age = 0,
           Answers(accs[Len(accs)].value, cmds)
    PROVE  Covered(accs, cmds, 0)
<1>1. PICK i \in 1..Len(cmds) :
         /\ accs[Len(accs)].value = Wanted(cmds[i].value)
         /\ Recent(cmds, i + 1, 0)
  BY DEF Answers
<1>2. Len(accs) \in 1..Len(accs)
  BY WindowFacts
<1>3. Recent(accs, Len(accs), 0)
  <2>1. \A k \in Len(accs)..Len(accs) : k = Len(accs)
    BY <1>2
  <2>2. QED
    BY <2>1 DEF Recent
<1>4. QED
  BY <1>1, <1>2, <1>3 DEF Covered, Matched

\* A tick costs the cover one tick.
LEMMA CoverAges ==
    ASSUME NEW accs \in Seq(Samples), NEW cmds \in Seq(Samples),
           NEW t, Spaced(accs, t), NEW u, Spaced(cmds, u),
           NEW age \in Nat, Covered(accs, cmds, age)
    PROVE  Covered(Aged(accs), Aged(cmds), age + 1)
<1>1. ASSUME NEW que \in Seq(Samples), NEW topic, Spaced(que, topic)
      PROVE  /\ Aged(que) \in Seq(Samples) /\ Len(Aged(que)) = Len(que)
             /\ \A i \in 1..Len(que) :
                   /\ Aged(que)[i].value = que[i].value
                   /\ que[i].age <= age => Aged(que)[i].age <= age + 1
  <2>1. /\ Aged(que) \in Seq(Samples) /\ Len(Aged(que)) = Len(que)
        /\ \A i \in 1..Len(que) :
              /\ Aged(que)[i].value = que[i].value
              /\ Aged(que)[i].age = Older(que[i].age, StoreTime)
    BY <1>1, AgedWindow
  <2>2. \A i \in 1..Len(que) : que[i].age \in Int
    BY <1>1, WindowFacts
  <2>3. \A a \in Int : a <= age => Older(a, StoreTime) <= age + 1
    BY DEF Older
  <2>4. QED
    BY <2>1, <2>2, <2>3
<1>2. ASSUME NEW que \in Seq(Samples), NEW topic, Spaced(que, topic), Young(que, age)
      PROVE  Young(Aged(que), age + 1)
  <2>1. CASE que = <<>>
    <3>1. Aged(que) \in Seq(Samples) /\ Len(Aged(que)) = 0
      BY <1>1, <1>2, <2>1, EmptySeq
    <3>2. QED
      BY <3>1, EmptySeq DEF Young
  <2>2. CASE que # <<>>
    <3>1. 1 \in 1..Len(que)
      BY <1>2, <2>2, WindowFacts
    <3>2. QED
      BY <1>1, <1>2, <2>2, <3>1 DEF Young
  <2>3. QED
    BY <2>1, <2>2
<1>3. ASSUME NEW que \in Seq(Samples), NEW topic, Spaced(que, topic),
             NEW n \in Nat \ {0}, Recent(que, n, age)
      PROVE  Recent(Aged(que), n, age + 1)
  <2>1. Len(que) \in Nat
    BY <1>3, WindowFacts
  <2>2. \A k \in n..Len(que) : k \in 1..Len(que) /\ que[k].age <= age
    BY <1>3, <2>1 DEF Recent
  <2>3. QED
    BY <1>1, <1>3, <2>2 DEF Recent
<1>4. ASSUME Matched(accs, cmds, age)
      PROVE  Matched(Aged(accs), Aged(cmds), age + 1)
  <2>1. PICK i \in 1..Len(cmds), j \in 1..Len(accs) :
           /\ accs[j].value = Wanted(cmds[i].value)
           /\ Recent(accs, j, age) /\ Recent(cmds, i + 1, age)
    BY <1>4 DEF Matched
  <2>2. j \in Nat \ {0} /\ i + 1 \in Nat \ {0}
    BY <2>1
  <2>3. Recent(Aged(accs), j, age + 1) /\ Recent(Aged(cmds), i + 1, age + 1)
    BY <1>3, <2>1, <2>2
  <2>4. /\ Aged(accs)[j].value = Wanted(Aged(cmds)[i].value)
        /\ Len(Aged(accs)) = Len(accs) /\ Len(Aged(cmds)) = Len(cmds)
    BY <1>1, <2>1
  <2>5. QED
    BY <2>1, <2>3, <2>4 DEF Matched
<1>5. QED
  BY <1>2, <1>4 DEF Covered

\* The last command of the window is answered by doing as it says.
LEMMA LastAnswered ==
    ASSUME NEW cmds \in Seq(Samples), cmds # <<>>,
           NEW t, Spaced(cmds, t)
    PROVE  Answers(Wanted(cmds[Len(cmds)].value), Aged(cmds))
<1>1. Len(cmds) \in 1..Len(cmds) /\ Len(cmds) \in Nat
  BY WindowFacts
<1>2. /\ Len(Aged(cmds)) = Len(cmds)
      /\ Aged(cmds)[Len(cmds)].value = cmds[Len(cmds)].value
  BY <1>1, AgedWindow
<1>3. Recent(Aged(cmds), Len(cmds) + 1, 0)
  BY <1>1, <1>2 DEF Recent
<1>4. QED
  BY <1>1, <1>2, <1>3 DEF Answers

-----------------------------------------------------------------------------
(* The steps of the node and its environment.                              *)

\* Covered windows hold no evidence of a fault.
LEMMA CoveredOK ==
    ASSUME TypeOK, NEW age \in 0..StoreTime, Covered(acc_que, acc_cmd_que, age)
    PROVE  checkHooke2AccelBrake = "OK"
<1>1. acc_que \in Seq(Samples) /\ acc_cmd_que \in Seq(Samples) /\ StoreTime \in Nat
  BY Constants DEF TypeOK
<1>2. ASSUME NEW que \in Seq(Samples), Young(que, age)
      PROVE  ~checkEnoughDataStored(que)
  <2>1. SUFFICES ASSUME que # <<>>, Head(que).age > StoreTime PROVE FALSE
    BY DEF checkEnoughDataStored
  <2>2. Head(que) = que[1] /\ que[1].age \in Int
    BY <1>2, <2>1, WindowFacts, HeadTailProperties
  <2>3. que[1].age <= age
    BY <1>2, <2>1 DEF Young
  <2>4. QED
    BY <1>1, <2>1, <2>2, <2>3
<1>3. CASE Young(acc_que, age) \/ Young(acc_cmd_que, age)
  BY <1>1, <1>2, <1>3 DEF checkHooke2AccelBrake, EnoughData
<1>4. CASE Matched(acc_que, acc_cmd_que, age)
  <2>1. PICK i \in 1..Len(acc_cmd_que), j \in 1..Len(acc_que) :
           acc_que[j].value = Wanted(acc_cmd_que[i].value)
    BY <1>4 DEF Matched
  <2>2. DiffThresh \in Nat
    BY Constants
  <2>3. ~checkBrakeFault /\ ~checkAccelFault
    BY <2>1, <2>2, FaultMeans
  <2>4. QED
    BY <2>3 DEF checkHooke2AccelBrake
<1>5. QED
  BY <1>3, <1>4 DEF Covered

\* The reserve, and what is owed, as numbers.
LEMMA SlackType ==
    ASSUME TypeOK
    PROVE  /\ Slack \in Int /\ Slack <= StoreTime /\ Owed \in {1, 2}
           /\ StoreTime \in Nat /\ drops \in Nat
           /\ Len(script) \in Nat /\ Len(script) >= 1
<1>1. script \in Seq(Phases) /\ script # <<>> /\ drops \in 0..Dropouts
  BY DEF TypeOK
<1>2. Len(script) \in Nat /\ Len(script) # 0
  BY <1>1, LenProperties, EmptySeq
<1>3. StoreTime \in Nat /\ Dropouts \in Nat
  BY Constants
<1>4. QED
  BY <1>1, <1>2, <1>3 DEF Slack, Owed

\* What the invariant gives a step.
LEMMA KeptGives ==
    ASSUME TypeOK, AnswersKept
    PROVE  \E a \in Nat : /\ Slack = a + Owed /\ a + 1 \in 0..StoreTime
                          /\ Provided(a)
<1>1. /\ Slack \in Int /\ Slack <= StoreTime /\ Owed \in {1, 2}
      /\ StoreTime \in Nat /\ Slack >= Owed
  BY SlackType DEF AnswersKept
<1>2. \A m \in Int, o \in {1, 2} :
         m >= o /\ m <= StoreTime =>
           /\ m - o \in Nat /\ m = (m - o) + o /\ (m - o) + 1 \in 0..StoreTime
  BY <1>1
<1>3. Provided(Slack - Owed)
  BY DEF AnswersKept
<1>4. QED
  BY <1>1, <1>2, <1>3, Zenon

\* What a step has to show.
LEMMA KeptWhen ==
    ASSUME TypeOK', NEW a \in Nat, Slack' \in Int, Slack' >= a + Owed',
           Provided(a)'
    PROVE  AnswersKept'
<1>1. Owed' \in {1, 2}
  BY DEF Owed
<1>2. /\ acc_que' \in Seq(Samples) /\ acc_cmd_que' \in Seq(Samples)
  BY DEF TypeOK
<1>3. PICK b \in Int : b = Slack' - Owed' /\ a <= b /\ Slack' >= Owed'
  <2>1. \A m \in Int, o \in {1, 2} :
           m >= a + o => m - o \in Int /\ a <= m - o /\ m >= o
    OBVIOUS
  <2>2. QED
    BY <1>1, <2>1, Zenon
<1>4. CASE Covered(acc_que', acc_cmd_que', a)
  <2>1. Covered(acc_que', acc_cmd_que', b)
    BY <1>2, <1>3, <1>4, CoverGrows
  <2>2. QED
    BY <1>3, <2>1 DEF AnswersKept, Provided
<1>5. CASE /\ "acc" \in due'
           /\ Covered(acc_que', acc_cmd_que', a + 1)
           /\ Answers(vehicle.acc, acc_cmd_que)' \/ KnownDriver'
  <2>1. Covered(acc_que', acc_cmd_que', b + 1)
    BY <1>2, <1>3, <1>5, CoverGrows
  <2>2. QED
    BY <1>3, <1>5, <2>1 DEF AnswersKept, Provided
<1>6. QED
  BY <1>4, <1>5 DEF Provided

\* The callbacks that leave both windows alone, and the updater.
LEMMA KeptByReports ==
    ASSUME TypeOK, TypeOK', AnswersKept,
           callbackCan \/ callbackHooke2Rpt \/ callbackOdometry \/ update
    PROVE  AnswersKept'
<1>1. PICK a \in Nat : Slack = a + Owed /\ Provided(a)
  BY KeptGives
<1>2. /\ UNCHANGED <<acc_que, acc_cmd_que, envVars>>
      /\ "acc" \in due => "acc" \in due'
      /\ "cmd" \in due => "cmd" \in due'
  BY DEF callbackCan, callbackHooke2Rpt, callbackOdometry, update, Arrives, nodeVars
<1>3. Slack' = Slack /\ Slack \in Int
  BY <1>2, SlackType DEF Slack, envVars
<1>4. /\ NextSecure => NextSecure'
      /\ KnownDriver => KnownDriver'
  <2>1. Now' = Now /\ Now.auto \in BOOLEAN /\ Now.fast \in BOOLEAN
    <3>1. script \in Seq(Phases) /\ script # <<>>
      BY DEF TypeOK
    <3>2. Now \in Phases
      BY <3>1, HeadTailProperties DEF Now
    <3>3. QED
      BY <1>2, <3>2 DEF Now, envVars, Phases
  <2>2. \/ ~Now.auto /\ ~rpt'.enabled
        \/ ("rpt" \in due => "rpt" \in due') /\ rpt' = rpt
        \/ Now.auto
    BY <2>1 DEF callbackCan, callbackHooke2Rpt, callbackOdometry, update, Arrives, nodeVars
  <2>3. \/ ~Now.fast /\ odom' = FALSE
        \/ ("odom" \in due => "odom" \in due') /\ odom' = odom
        \/ Now.fast
    BY <2>1 DEF callbackCan, callbackHooke2Rpt, callbackOdometry, update, Arrives, nodeVars
  <2>4. QED
    BY <1>2, <2>1, <2>2, <2>3 DEF NextSecure, KnownDriver
<1>5. Owed' <= Owed /\ Owed \in {1, 2} /\ Owed' \in {1, 2}
  BY <1>4 DEF Owed
<1>6. Provided(a)'
  BY <1>1, <1>2, <1>4 DEF Provided, envVars
<1>7. QED
  <2>1. \A n, o \in {1, 2} : n <= o => a + o \in Int /\ a + o >= a + n
    OBVIOUS
  <2>2. Slack' \in Int /\ Slack' >= a + Owed'
    BY <1>1, <1>3, <1>5, <2>1, Zenon
  <2>3. QED
    BY <1>6, <2>2, KeptWhen

\* A measurement.
LEMMA KeptByAccel ==
    ASSUME WindowInv, TypeOK', AnswersKept, callbackAccel
    PROVE  AnswersKept'
<1>1. TypeOK /\ Spaced(acc_que, "acc")
  BY DEF WindowInv
<1>2. PICK a \in Nat : /\ Slack = a + Owed /\ a + 1 \in 0..StoreTime
                       /\ Provided(a)
  BY <1>1, KeptGives
<1>3. /\ acc_que' = addValueToQue(acc_que, vehicle.acc)
      /\ due' = due \ {"acc"}
      /\ UNCHANGED <<rpt, odom, acc_cmd_que, drops, script, vehicle>>
  BY DEF callbackAccel, Arrives, envVars
<1>4. Slack' = Slack /\ Slack \in Int /\ Owed' = Owed /\ Owed \in {1, 2}
  BY <1>1, <1>3, SlackType DEF Slack, Owed, NextSecure, Now
<1>5. /\ acc_que \in Seq(Samples) /\ acc_cmd_que \in Seq(Samples)
      /\ acc_que' \in Seq(Samples) /\ vehicle.acc \in Int
      /\ StoreTime \in Nat /\ a \in 0..StoreTime
  BY <1>1, <1>2, Constants DEF TypeOK
<1>6. Covered(acc_que', acc_cmd_que, a)
  <2>1. CASE acc_que' = <<>>
    BY <2>1 DEF Covered, Young
  <2>2. CASE acc_que' # <<>>
    <3>1. PICK d \in {0, 1} : /\ Shifted(acc_que, acc_que', d)
                              /\ acc_que'[Len(acc_que')].value = vehicle.acc
      BY <1>3, <1>5, <2>2, AddedShifts
    <3>2. CASE Covered(acc_que, acc_cmd_que, a)
      BY <1>1, <1>5, <3>1, <3>2, CoverMeasured
    <3>3. CASE Answers(vehicle.acc, acc_cmd_que)
      <4>1. acc_que'[Len(acc_que')].age = 0
        BY <3>1 DEF Shifted
      <4>2. Covered(acc_que', acc_cmd_que, 0)
        BY <1>5, <2>2, <3>1, <3>3, <4>1, AnswerMeasured
      <4>3. 0 \in Int /\ a \in Int /\ 0 <= a
        OBVIOUS
      <4>4. QED
        BY <1>5, <4>2, <4>3, CoverGrows
    <3>4. CASE KnownDriver
      <4>1. ~(Autonomous /\ odom)
        BY <3>4 DEF KnownDriver, Autonomous, Ready
      <4>2. QED
        BY <1>3, <2>2, <4>1 DEF addValueToQue
    <3>5. QED
      BY <1>2, <3>2, <3>3, <3>4 DEF Provided
  <2>3. QED
    BY <2>1, <2>2
<1>7. QED
  <2>1. Slack' \in Int /\ Slack' >= a + Owed'
    BY <1>2, <1>4
  <2>2. Provided(a)'
    BY <1>3, <1>6 DEF Provided
  <2>3. QED
    BY <2>1, <2>2, KeptWhen

\* A command.
LEMMA KeptByCommand ==
    ASSUME WindowInv, TypeOK', AnswersKept, callbackControlCmd
    PROVE  AnswersKept'
<1>1. TypeOK /\ Spaced(acc_cmd_que, "cmd")
  BY DEF WindowInv
<1>2. PICK a \in Nat : /\ Slack = a + Owed /\ a + 1 \in 0..StoreTime
                       /\ Provided(a)
  BY <1>1, KeptGives
<1>3. /\ acc_cmd_que' = addValueToQue(acc_cmd_que, Now.cmd)
      /\ due' = due \ {"cmd"} /\ Now' = Now
      /\ UNCHANGED <<rpt, odom, acc_que, drops, script, vehicle>>
  BY DEF callbackControlCmd, Arrives, envVars, Now
<1>4. /\ acc_que \in Seq(Samples) /\ acc_cmd_que \in Seq(Samples)
      /\ acc_cmd_que' \in Seq(Samples) /\ Now.cmd \in Int
      /\ StoreTime \in Nat /\ a \in 0..StoreTime
  <2>1. script \in Seq(Phases) /\ script # <<>>
    BY <1>1 DEF TypeOK
  <2>2. Now \in Phases
    BY <2>1, HeadTailProperties DEF Now
  <2>3. QED
    BY <1>1, <1>2, <2>2, Constants DEF TypeOK, Phases
<1>5. \/ acc_cmd_que' = <<>>
      \/ \E d \in {0, 1} : /\ Shifted(acc_cmd_que, acc_cmd_que', d)
                           /\ acc_cmd_que'[Len(acc_cmd_que')].value = Now.cmd
  BY <1>3, <1>4, AddedShifts
<1>6. NextSecure => NextSecure'
  BY <1>3, <1>5 DEF NextSecure
<1>7. /\ Slack' = Slack /\ Slack \in Int
      /\ Owed' <= Owed /\ Owed \in {1, 2} /\ Owed' \in {1, 2}
  BY <1>1, <1>3, <1>6, SlackType DEF Slack, Owed
<1>8. Provided(a)'
  <2>1. CASE acc_cmd_que' = <<>>
    BY <2>1 DEF Provided, Covered, Young
  <2>2. ASSUME NEW d \in {0, 1}, Shifted(acc_cmd_que, acc_cmd_que', d)
        PROVE  Provided(a)'
    <3>1. ASSUME NEW b \in 0..StoreTime, Covered(acc_que, acc_cmd_que, b)
          PROVE  Covered(acc_que', acc_cmd_que', b)
      <4>1. Covered(acc_que, acc_cmd_que', b)
        BY <1>1, <1>4, <2>2, <3>1, CoverCommanded
      <4>2. QED
        BY <1>3, <4>1
    <3>2. CASE Covered(acc_que, acc_cmd_que, a)
      <4>1. Covered(acc_que', acc_cmd_que', a)
        BY <1>4, <3>1, <3>2
      <4>2. QED
        BY <4>1 DEF Provided
    <3>3. CASE /\ "acc" \in due /\ Covered(acc_que, acc_cmd_que, a + 1)
               /\ Answers(vehicle.acc, acc_cmd_que) \/ KnownDriver
      <4>1. Covered(acc_que', acc_cmd_que', a + 1)
        BY <1>2, <3>1, <3>3
      <4>2. Answers(vehicle.acc, acc_cmd_que) => Answers(vehicle'.acc, acc_cmd_que')
        BY <1>3, <1>4, <2>2, AnswerCommanded
      <4>3. KnownDriver => KnownDriver'
        BY <1>3 DEF KnownDriver
      <4>4. QED
        BY <1>3, <3>3, <4>1, <4>2, <4>3 DEF Provided
    <3>4. QED
      BY <1>2, <3>2, <3>3 DEF Provided
  <2>3. QED
    BY <1>5, <2>1, <2>2
<1>9. QED
  <2>1. \A n, o \in {1, 2} : n <= o => a + o \in Int /\ a + o >= a + n
    OBVIOUS
  <2>2. Slack' \in Int /\ Slack' >= a + Owed'
    BY <1>2, <1>7, <2>1, Zenon
  <2>3. QED
    BY <1>8, <2>2, KeptWhen

\* A lost message: one disturbance less is to come.
LEMMA KeptByLoss ==
    ASSUME WindowInv, TypeOK', AnswersKept, Lost
    PROVE  AnswersKept'
<1>1. TypeOK
  BY DEF WindowInv
<1>2. PICK a \in Nat : Slack = a + Owed /\ Provided(a)
  BY <1>1, KeptGives
<1>3. PICK topic \in due : due' = due \ {topic}
  BY DEF Lost
<1>4. /\ drops' = drops - 1 /\ Now' = Now
      /\ UNCHANGED <<rpt, odom, acc_que, acc_cmd_que, script, vehicle>>
  BY DEF Lost, nodeVars, Now
<1>5. Slack' = Slack + 1 /\ Slack \in Int
  BY <1>1, <1>4, SlackType DEF Slack
<1>6. /\ Owed \in {1, 2} /\ Owed' \in {1, 2}
      /\ topic = "acc" => Owed' = Owed
  BY <1>3, <1>4 DEF Owed, NextSecure
<1>7. KnownDriver => KnownDriver'
  BY <1>4 DEF KnownDriver
<1>8. CASE topic # "acc"
  <2>1. Provided(a)'
    BY <1>2, <1>3, <1>4, <1>7, <1>8 DEF Provided
  <2>2. \A n, o \in {1, 2} : (a + o) + 1 \in Int /\ (a + o) + 1 >= a + n
    OBVIOUS
  <2>3. Slack' \in Int /\ Slack' >= a + Owed'
    BY <1>2, <1>5, <1>6, <2>2, Zenon
  <2>4. QED
    BY <2>1, <2>3, KeptWhen
<1>9. CASE topic = "acc"
  <2>1. Covered(acc_que, acc_cmd_que, a + 1)
    <3>1. /\ acc_que \in Seq(Samples) /\ acc_cmd_que \in Seq(Samples)
          /\ a \in Int /\ a + 1 \in Int /\ a <= a + 1
      BY <1>1 DEF TypeOK
    <3>2. QED
      BY <1>2, <3>1, CoverGrows DEF Provided
  <2>2. PICK b \in Nat : b = a + 1
    OBVIOUS
  <2>3. Provided(b)'
    BY <1>4, <2>1, <2>2 DEF Provided
  <2>4. \A o \in {1, 2} : (a + o) + 1 \in Int /\ (a + o) + 1 >= (a + 1) + o
    OBVIOUS
  <2>5. Slack' \in Int /\ Slack' >= b + Owed'
    BY <1>2, <1>5, <1>6, <1>9, <2>2, <2>4, Zenon
  <2>6. QED
    BY <2>3, <2>5, KeptWhen
<1>10. QED
  BY <1>8, <1>9

\* A tick begins with its topics due: the node will hear of a takeover.
TickBegins == TypeOK /\ due = Sending(Now) /\ TakeoverReported
Secured == NextSecure /\ Owed = 1 /\ "acc" \in due

\* So nothing more than the tick itself is owed then.
LEMMA BeginsSecured == TickBegins => Secured
<1> SUFFICES ASSUME TypeOK, due = Sending(Now), TakeoverReported
             PROVE  Secured
  BY DEF TickBegins
<1>1. script \in Seq(Phases) /\ Len(script) >= 1 /\ Len(script) \in Nat
  BY SlackType DEF TypeOK
<1>2. Now = script[1] /\ Now \in Phases
  <2>1. script # <<>>
    BY DEF TypeOK
  <2>2. QED
    BY <1>1, <2>1, HeadTailProperties DEF Now
<1>3. Now.bus \/ Now.auto
  BY <1>1, <1>2 DEF TakeoverReported
<1>4. "cmd" \in due /\ "odom" \in due /\ "acc" \in due /\ (Now.bus => "rpt" \in due)
  BY DEF Sending, Topics
<1>5. NextSecure
  BY <1>2, <1>3, <1>4 DEF NextSecure, Phases
<1>6. QED
  BY <1>4, <1>5 DEF Owed, Secured

\* The same of the next state.
LEMMA NextBeginsSecured == TickBegins' => Secured'
  BY BeginsSecured, PTL

\* The drive that is left.
LEMMA DriveLeft ==
    ASSUME TypeOK, TakeoverReported, Tick
    PROVE  /\ script' = script \/ Len(script') = Len(script) - 1
           /\ TakeoverReported'
<1>1. script \in Seq(Phases) /\ script # <<>> /\ Len(script) \in Nat
  BY SlackType DEF TypeOK
<1>2. CASE script' = script
  BY <1>2 DEF TakeoverReported
<1>3. CASE script' = Tail(script)
  <2>1. /\ Len(Tail(script)) = Len(script) - 1
        /\ \A n \in 1..Len(Tail(script)) : Tail(script)[n] = script[n + 1]
    BY <1>1, HeadTailProperties
  <2>2. \A n \in 1..(Len(script) - 1) : n + 1 \in 1..Len(script)
    BY <1>1
  <2>3. QED
    BY <1>3, <2>1, <2>2 DEF TakeoverReported
<1>4. QED
  BY <1>2, <1>3 DEF Tick

\* A tick: the windows age, and what was secure is delivered.
LEMMA KeptByTick ==
    ASSUME WindowInv, TypeOK', TakeoverReported, AnswersKept, Tick,
           vehicle.health = "healthy"
    PROVE  AnswersKept'
<1>1. TypeOK /\ Spaced(acc_que, "acc") /\ Spaced(acc_cmd_que, "cmd")
  BY DEF WindowInv
<1>2. PICK a \in Nat : Slack = a + Owed /\ Provided(a)
  BY <1>1, KeptGives
<1>3. /\ due = {} /\ due' = Sending(Now')
      /\ acc_que' = Aged(acc_que) /\ acc_cmd_que' = Aged(acc_cmd_que)
      /\ UNCHANGED <<rpt, odom, drops>>
  BY DEF Tick, Now
<1>4. /\ acc_que \in Seq(Samples) /\ acc_cmd_que \in Seq(Samples)
      /\ acc_que' \in Seq(Samples) /\ acc_cmd_que' \in Seq(Samples)
  BY <1>1 DEF TypeOK
<1>5. NextSecure' /\ Owed' = 1 /\ "acc" \in due'
  <2>1. TickBegins'
    BY <1>1, <1>3, DriveLeft DEF TickBegins
  <2>2. QED
    BY <2>1, NextBeginsSecured DEF Secured
<1>6. PICK b \in Nat : b = a + 1
  OBVIOUS
<1>7. Covered(acc_que', acc_cmd_que', b)
  <2>1. Covered(acc_que, acc_cmd_que, a)
    BY <1>2, <1>3 DEF Provided
  <2>2. QED
    BY <1>1, <1>3, <1>4, <1>6, <2>1, CoverAges
<1>8. /\ Slack \in Int /\ Owed \in {1, 2} /\ drops \in Nat /\ Len(script) \in Nat
      /\ StoreTime \in Nat
  BY <1>1, SlackType
<1>9. CASE script' # script
  <2>1. Slack' = Slack + 1
    <3>1. Len(script') = Len(script) - 1
      BY <1>1, <1>9, DriveLeft
    <3>2. QED
      BY <1>3, <1>8, <3>1 DEF Slack
  <2>2. Slack' \in Int /\ Slack' >= b + Owed'
    BY <1>2, <1>5, <1>6, <1>8, <2>1
  <2>3. Provided(b)'
    BY <1>7 DEF Provided
  <2>4. QED
    BY <2>2, <2>3, KeptWhen
<1>10. CASE script' = script /\ Owed = 2
  <2>1. Slack' = Slack
    BY <1>3, <1>10 DEF Slack
  <2>2. Slack' \in Int /\ Slack' >= b + Owed'
    BY <1>2, <1>5, <1>6, <1>8, <1>10, <2>1
  <2>3. Provided(b)'
    BY <1>7 DEF Provided
  <2>4. QED
    BY <2>2, <2>3, KeptWhen
<1>11. CASE script' = script /\ Owed = 1
  <2>1. Slack' = Slack /\ Now' = Now
    BY <1>3, <1>11 DEF Slack, Now
  <2>2. Slack' \in Int /\ Slack' >= a + Owed'
    BY <1>2, <1>5, <1>8, <1>11, <2>1
  <2>3. NextSecure
    BY <1>11 DEF Owed
  <2>4. CASE ~(Now.auto /\ Now.fast)
    <3>1. KnownDriver'
      BY <1>3, <2>1, <2>3, <2>4 DEF KnownDriver, NextSecure
    <3>2. Provided(a)'
      BY <1>5, <1>6, <1>7, <3>1 DEF Provided
    <3>3. QED
      BY <2>2, <3>2, KeptWhen
  <2>5. CASE Now.auto /\ Now.fast /\ acc_cmd_que = <<>>
    <3>1. acc_cmd_que' = <<>>
      <4>1. Len(Aged(acc_cmd_que)) = 0
        BY <1>1, <1>4, <2>5, AgedWindow, EmptySeq
      <4>2. QED
        BY <1>3, <1>4, <4>1, EmptySeq
    <3>2. Provided(a)'
      BY <3>1 DEF Provided, Covered, Young
    <3>3. QED
      BY <2>2, <3>2, KeptWhen
  <2>6. CASE Now.auto /\ Now.fast /\ acc_cmd_que # <<>>
    <3>1. acc_cmd_que[Len(acc_cmd_que)].value = Now.cmd
      BY <1>3, <2>3, <2>6 DEF NextSecure
    <3>2. vehicle'.acc = Wanted(Now.cmd)
      <4>1. Response = Wanted(Now.cmd)
        BY DEF Response
      <4>2. vehicle'.acc = Response
        BY <1>11, <2>6 DEF Tick, Now
      <4>3. QED
        BY <4>1, <4>2
    <3>3. Answers(vehicle'.acc, acc_cmd_que')
      BY <1>1, <1>3, <1>4, <2>6, <3>1, <3>2, LastAnswered
    <3>4. Provided(a)'
      BY <1>5, <1>6, <1>7, <3>3 DEF Provided
    <3>5. QED
      BY <2>2, <3>4, KeptWhen
  <2>7. QED
    BY <2>4, <2>5, <2>6
<1>12. QED
  BY <1>8, <1>9, <1>10, <1>11

-----------------------------------------------------------------------------
\* There are fewer disturbances to a drive, lost messages and changes of
\* phase, than ticks in the store time; and a takeover is reported.
Undisturbed ==
    \A s \in Scripts :
       /\ Dropouts + Len(s) <= StoreTime
       /\ \A n \in 1..Len(s) : s[n].bus \/ s[n].auto

\* The windows start empty.
LEMMA InitAlarms == Undisturbed /\ Init => AlarmInv
<1> SUFFICES ASSUME Undisturbed, Init PROVE AlarmInv
  OBVIOUS
<1>1. WindowInv /\ TypeOK
  BY InitWindows DEF WindowInv
<1>2. script \in Scripts /\ drops = Dropouts /\ due = Sending(Now)
  BY DEF Init
<1>3. TakeoverReported
  BY <1>2 DEF Undisturbed, TakeoverReported
<1>4. Owed = 1
  BY <1>1, <1>2, <1>3, BeginsSecured DEF TickBegins, Secured
<1>5. Slack >= Owed
  <2>1. Dropouts + Len(script) <= StoreTime
    BY <1>2 DEF Undisturbed
  <2>2. StoreTime \in Nat /\ drops \in Nat /\ Len(script) \in Nat
    BY <1>1, SlackType
  <2>3. QED
    BY <1>2, <1>4, <2>1, <2>2 DEF Slack
<1>6. Provided(Slack - Owed)
  BY DEF Init, Provided, Covered, Young
<1>7. QED
  BY <1>1, <1>3, <1>5, <1>6 DEF AlarmInv, AnswersKept, Init

\* Every step keeps the answers of a healthy vehicle, and the checks pass.
LEMMA NextAlarms == AlarmInv /\ [Next]_vars => AlarmInv'
<1> SUFFICES ASSUME AlarmInv, [Next]_vars PROVE AlarmInv'
  OBVIOUS
<1>1. WindowInv /\ TypeOK /\ TakeoverReported
  BY DEF AlarmInv, WindowInv
<1>2. WindowInv' /\ TypeOK'
  BY <1>1, NextWindows DEF WindowInv
<1>3. TakeoverReported'
  <2>1. CASE Tick
    BY <1>1, <2>1, DriveLeft
  <2>2. CASE script' = script
    BY <1>1, <2>2 DEF TakeoverReported
  <2>3. QED
    BY <2>1, <2>2 DEF Next, vars, callbackCan, callbackHooke2Rpt, callbackOdometry,
                      callbackAccel, callbackControlCmd, update, Lost, envVars
<1>4. ASSUME vehicle'.health = "healthy"
      PROVE  AnswersKept' /\ accel_brake' = "OK"
  <2>1. vehicle.health = "healthy"
    BY <1>4 DEF Next, vars, callbackCan, callbackHooke2Rpt, callbackOdometry,
                callbackAccel, callbackControlCmd, update, Lost, Tick, envVars
  <2>2. AnswersKept /\ accel_brake = "OK"
    BY <2>1 DEF AlarmInv
  <2>3. CASE callbackCan \/ callbackHooke2Rpt \/ callbackOdometry
    <3>1. accel_brake' = accel_brake
      BY <2>3 DEF callbackCan, callbackHooke2Rpt, callbackOdometry
    <3>2. QED
      BY <1>1, <1>2, <2>2, <2>3, <3>1, KeptByReports
  <2>4. CASE callbackAccel
    <3>1. accel_brake' = accel_brake
      BY <2>4 DEF callbackAccel
    <3>2. QED
      BY <1>1, <1>2, <2>2, <2>4, <3>1, KeptByAccel
  <2>5. CASE callbackControlCmd
    <3>1. accel_brake' = accel_brake
      BY <2>5 DEF callbackControlCmd
    <3>2. QED
      BY <1>1, <1>2, <2>2, <2>5, <3>1, KeptByCommand
  <2>6. CASE update
    <3>1. PICK a \in Nat : a + 1 \in 0..StoreTime /\ Provided(a)
      BY <1>1, <2>2, KeptGives
    <3>2. a \in 0..StoreTime
      BY <3>1, Constants
    <3>3. checkHooke2AccelBrake = "OK"
      BY <1>1, <3>1, <3>2, CoveredOK DEF Provided
    <3>4. accel_brake' = "OK"
      BY <2>6, <3>3 DEF update
    <3>5. QED
      BY <1>1, <1>2, <2>2, <2>6, <3>4, KeptByReports
  <2>7. CASE Lost
    <3>1. accel_brake' = accel_brake
      BY <2>7 DEF Lost
    <3>2. QED
      BY <1>1, <1>2, <2>2, <2>7, <3>1, KeptByLoss
  <2>8. CASE Tick
    <3>1. accel_brake' = accel_brake
      BY <2>8 DEF Tick
    <3>2. QED
      BY <1>1, <1>2, <2>1, <2>2, <2>8, <3>1, KeptByTick
  <2>9. CASE UNCHANGED vars
    BY <2>2, <2>9 DEF vars, AnswersKept, Slack, Owed, Provided, NextSecure,
                      KnownDriver, Now
  <2>10. QED
    BY <2>3, <2>4, <2>5, <2>6, <2>7, <2>8, <2>9 DEF Next
<1>5. QED
  BY <1>2, <1>3, <1>4 DEF AlarmInv

(* A vehicle that does what it is told is never accused of a brake or an   *)
(* accelerator fault (checkHooke2AccelBrake), for every window, threshold, *)
(* limit and sequence of phases, as long as the lost messages and changes  *)
(* of phase of the drive are fewer than the ticks of accel_store_time and  *)
(* the interface goes on reporting while somebody else drives.             *)
THEOREM NoAccusation ==
    ASSUME Undisturbed
    PROVE  Spec => []NoFalseAlarm
<1>1. Init => AlarmInv
  BY InitAlarms
<1>2. AlarmInv => NoFalseAlarm
  BY DEF AlarmInv, NoFalseAlarm
<1>3. QED
  BY <1>1, <1>2, NextAlarms, PTL DEF Spec
=============================================================================
