-------------------------- MODULE CanDriverProofs --------------------------
(***************************************************************************)
(* Proofs for CanDriver, for every batch length, queue depth and number of *)
(* failures: its types, with batches inside the buffer; a card that is     *)
(* open whenever the thread uses it; and reports kept between the card and *)
(* the reader, whatever order the thread, the failures, the destructor and *)
(* the bus take.                                                           *)
(***************************************************************************)
EXTENDS CanDriver, SequenceTheorems, TLAPS

-----------------------------------------------------------------------------
(* Facts about the queues.                                                 *)

\* What is left of a queue when its head is taken.
LEMMA TakeOne ==
    ASSUME NEW S, NEW q \in Seq(S), q # <<>>
    PROVE  Head(q) \in S /\ Tail(q) \in Seq(S)
BY HeadTailProperties

\* A part of a queue is a queue, of the length it was cut to.
LEMMA Part ==
    ASSUME NEW S, NEW q \in Seq(S), NEW a \in Nat \ {0}, NEW b \in 0..Len(q)
    PROVE  /\ SubSeq(q, a, b) \in Seq(S)
           /\ Len(SubSeq(q, a, b)) = IF a <= b THEN b - a + 1 ELSE 0
<1>1. \A i \in a..b : q[i] \in S
      BY ElementOfSeq, LenProperties
<1> QED
      BY <1>1, SubSeqProperties, LenProperties

\* A queue that drops its oldest entries still holds frames.
LEMMA KeepLastType ==
    ASSUME NEW q \in Seq(Frame)
    PROVE  KeepLast(q) \in Seq(Frame)
<1>1. Len(q) \in Nat /\ TxDepth \in Nat
      BY LenProperties, CanAssumption
<1>2. CASE Len(q) > TxDepth
      <2>1. Len(q) - TxDepth + 1 \in Nat \ {0} /\ Len(q) \in 0..Len(q)
            BY <1>1, <1>2
      <2> QED
            BY <2>1, <1>2, Part DEF KeepLast
<1>3. CASE ~(Len(q) > TxDepth)
      BY <1>3 DEF KeepLast
<1> QED
      BY <1>2, <1>3

\* Moving the head of one queue to the end of the queue before it leaves
\* the two, read one after the other, as they were.
LEMMA MoveOne ==
    ASSUME NEW S, NEW p \in Seq(S), NEW q \in Seq(S), q # <<>>
    PROVE  Append(p, Head(q)) \o Tail(q) = p \o q
<1> DEFINE l == Append(p, Head(q)) \o Tail(q)
           r == p \o q
<1>1. /\ Head(q) \in S /\ Tail(q) \in Seq(S) /\ Len(Tail(q)) = Len(q) - 1
      /\ \A i \in 1..Len(Tail(q)) : Tail(q)[i] = q[i + 1]
      /\ Head(q) = q[1]
      BY HeadTailProperties
<1>2. /\ Append(p, Head(q)) \in Seq(S)
      /\ Len(Append(p, Head(q))) = Len(p) + 1
      /\ \A i \in 1..Len(p) : Append(p, Head(q))[i] = p[i]
      /\ Append(p, Head(q))[Len(p) + 1] = Head(q)
      BY <1>1, AppendProperties
<1>3. Len(p) \in Nat /\ Len(q) \in Nat \ {0}
      BY LenProperties, EmptySeq
<1>4. /\ l \in Seq(S) /\ Len(l) = Len(p) + 1 + (Len(q) - 1)
      /\ \A i \in 1..Len(p) + 1 + (Len(q) - 1) :
           l[i] = IF i <= Len(p) + 1 THEN Append(p, Head(q))[i]
                  ELSE Tail(q)[i - (Len(p) + 1)]
      BY <1>1, <1>2, ConcatProperties
<1>5. /\ r \in Seq(S) /\ Len(r) = Len(p) + Len(q)
      /\ \A i \in 1..Len(p) + Len(q) :
           r[i] = IF i <= Len(p) THEN p[i] ELSE q[i - Len(p)]
      BY ConcatProperties
<1>6. ASSUME NEW i \in 1..Len(l)
      PROVE  l[i] = r[i]
      <2>1. i \in 1..Len(p) + Len(q)
            BY <1>3, <1>4
      <2>2. CASE i <= Len(p)
            BY <2>1, <2>2, <1>2, <1>3, <1>4, <1>5
      <2>3. CASE i = Len(p) + 1
            BY <2>1, <2>3, <1>1, <1>2, <1>3, <1>4, <1>5
      <2>4. CASE i > Len(p) + 1
            <3>1. /\ l[i] = Tail(q)[i - (Len(p) + 1)]
                  /\ r[i] = q[i - Len(p)]
                  BY <2>1, <2>4, <1>3, <1>4, <1>5
            <3>2. /\ i - (Len(p) + 1) \in 1..Len(Tail(q))
                  /\ (i - (Len(p) + 1)) + 1 = i - Len(p)
                  BY <2>1, <2>4, <1>1, <1>3
            <3> QED
                  BY <3>1, <3>2, <1>1
      <2> QED
            BY <2>1, <2>2, <2>3, <2>4, <1>3
<1>7. Len(l) = Len(r)
      BY <1>3, <1>4, <1>5
<1> QED
      BY <1>4, <1>5, <1>6, <1>7, SeqEqual

\* A queue begins with itself when more is added to its end.
LEMMA Prefix ==
    ASSUME NEW S, NEW p \in Seq(S), NEW q \in Seq(S)
    PROVE  /\ Len(p) <= Len(p \o q)
           /\ SubSeq(p \o q, 1, Len(p)) = p
<1>1. /\ p \o q \in Seq(S) /\ Len(p \o q) = Len(p) + Len(q)
      /\ \A i \in 1..Len(p) + Len(q) :
           (p \o q)[i] = IF i <= Len(p) THEN p[i] ELSE q[i - Len(p)]
      BY ConcatProperties
<1>2. Len(p) \in Nat /\ Len(q) \in Nat
      BY LenProperties
<1>3. \A i \in 1..Len(p) : (p \o q)[i] \in S /\ (p \o q)[i] = p[i]
      BY <1>1, <1>2, ElementOfSeq
<1>4. /\ SubSeq(p \o q, 1, Len(p)) \in Seq(S)
      /\ Len(SubSeq(p \o q, 1, Len(p))) = Len(p)
      /\ \A i \in 1..Len(p) : SubSeq(p \o q, 1, Len(p))[i] = (p \o q)[i]
      BY <1>2, <1>3, SubSeqProperties
<1>5. SubSeq(p \o q, 1, Len(p)) = p
      BY <1>3, <1>4, SeqEqual
<1> QED
      BY <1>1, <1>2, <1>5

\* Taking the head of a queue takes the head of whatever begins with it.
LEMMA TailConcat ==
    ASSUME NEW S, NEW p \in Seq(S), NEW q \in Seq(S), p # <<>>
    PROVE  Tail(p) \o q = Tail(p \o q)
<1> DEFINE l == Tail(p) \o q
           r == Tail(p \o q)
<1>1. Len(p) \in Nat \ {0} /\ Len(q) \in Nat
      BY LenProperties, EmptySeq
<1>2. /\ p \o q \in Seq(S) /\ Len(p \o q) = Len(p) + Len(q)
      /\ \A i \in 1..Len(p) + Len(q) :
           (p \o q)[i] = IF i <= Len(p) THEN p[i] ELSE q[i - Len(p)]
      BY ConcatProperties
<1>3. p \o q # <<>>
      BY <1>1, <1>2, EmptySeq
<1>4. /\ Tail(p) \in Seq(S) /\ Len(Tail(p)) = Len(p) - 1
      /\ \A i \in 1..Len(p) - 1 : Tail(p)[i] = p[i + 1]
      BY HeadTailProperties
<1>5. /\ r \in Seq(S) /\ Len(r) = Len(p) + Len(q) - 1
      /\ \A i \in 1..Len(r) : r[i] = (p \o q)[i + 1]
      BY <1>2, <1>3, HeadTailProperties
<1>6. /\ l \in Seq(S) /\ Len(l) = Len(p) - 1 + Len(q)
      /\ \A i \in 1..Len(p) - 1 + Len(q) :
           l[i] = IF i <= Len(p) - 1 THEN Tail(p)[i] ELSE q[i - (Len(p) - 1)]
      BY <1>4, ConcatProperties
<1>7. ASSUME NEW i \in 1..Len(l)
      PROVE  l[i] = r[i]
      <2>1. i \in 1..Len(p) - 1 + Len(q) /\ i \in 1..Len(r)
            BY <1>1, <1>5, <1>6
      <2>2. r[i] = IF i + 1 <= Len(p) THEN p[i + 1] ELSE q[(i + 1) - Len(p)]
            BY <2>1, <1>1, <1>2, <1>5
      <2>3. (i + 1) - Len(p) = i - (Len(p) - 1)
            BY <2>1, <1>1
      <2> QED
            BY <2>1, <2>2, <2>3, <1>1, <1>4, <1>6
<1>8. Len(l) = Len(r)
      BY <1>1, <1>5, <1>6
<1> QED
      BY <1>5, <1>6, <1>7, <1>8, SeqEqual

-----------------------------------------------------------------------------
(* Type correctness.  A batch may only be added to while it has room, and  *)
(* the ESD client copies whole reads: the batch has to be empty before.    *)

\* The thread starts after the constructor; the batch is empty unless it is
\* being filled or published; the ESD client fills it in one read.
BatchInv ==
    /\ (phase = "constructing" => pc = "unborn")
    /\ (pc \notin {"recv", "publish"} => frames = <<>>)
    /\ (brand = "esd" /\ pc # "publish" => frames = <<>>)

CanInv == CanTypeOK /\ BatchInv

\* The node starts with every queue and the batch empty.
LEMMA CanInit == Init => CanInv
<1> SUFFICES ASSUME Init PROVE CanInv
      OBVIOUS
<1>1. <<>> \in Seq(Frame) /\ Len(<<>>) = 0 /\ RecvLen \in Nat /\ Faults \in 0..Faults
      BY EmptySeq, CanAssumption
<1>2. {ok, is_running, dev, is_started} \subseteq BOOLEAN
      BY Zenon DEF Init
<1> QED
      BY <1>1, <1>2 DEF Init, CanInv, CanTypeOK, BatchInv

\* One read of the ESD card: what it fills and what it leaves are frames,
\* no more than the buffer holds.
LEMMA ReceiveAllType ==
    ASSUME CanInv, ReceiveAll
    PROVE  /\ slots' \in Seq(Frame) /\ Len(slots') <= RecvLen
           /\ rx' \in Seq(Frame)
           /\ frames' \in Seq(Frame) /\ Len(frames') <= RecvLen
<1> DEFINE n == IF Len(rx) < RecvLen THEN Len(rx) ELSE RecvLen
           filled == SubSeq(rx, 1, n) \o SubSeq(slots, n + 1, Len(slots))
<1>1. /\ rx \in Seq(Frame) /\ slots \in Seq(Frame) /\ frames = <<>>
      /\ Len(slots) <= RecvLen
      BY DEF CanInv, CanTypeOK, BatchInv, ReceiveAll
<1>2. Len(rx) \in Nat /\ Len(slots) \in Nat /\ RecvLen \in Nat
      BY <1>1, LenProperties, CanAssumption
<1>3. n \in 0..Len(rx) /\ n <= RecvLen /\ n \in Nat
      BY <1>2
<1> HIDE DEF n
<1>4. SubSeq(rx, 1, n) \in Seq(Frame) /\ Len(SubSeq(rx, 1, n)) = n
      BY <1>1, <1>3, Part
<1>5. /\ SubSeq(slots, n + 1, Len(slots)) \in Seq(Frame)
      /\ Len(SubSeq(slots, n + 1, Len(slots)))
           = IF n + 1 <= Len(slots) THEN Len(slots) - (n + 1) + 1 ELSE 0
      BY <1>1, <1>2, <1>3, Part
<1>6. /\ filled \in Seq(Frame)
      /\ Len(filled) = n + Len(SubSeq(slots, n + 1, Len(slots)))
      BY <1>4, <1>5, ConcatProperties
<1> HIDE DEF filled
<1>7. Len(filled) \in Nat /\ Len(filled) <= RecvLen /\ n \in 0..Len(filled)
      BY <1>1, <1>2, <1>3, <1>5, <1>6
<1>8. SubSeq(rx, n + 1, Len(rx)) \in Seq(Frame)
      BY <1>1, <1>2, <1>3, Part
<1>9. ASSUME NEW copied \in {n, Len(filled)}
      PROVE  /\ frames \o SubSeq(filled, 1, copied) \in Seq(Frame)
             /\ Len(frames \o SubSeq(filled, 1, copied)) <= RecvLen
      <2>1. copied \in 0..Len(filled)
            BY <1>7
      <2>2. /\ SubSeq(filled, 1, copied) \in Seq(Frame)
            /\ Len(SubSeq(filled, 1, copied)) = copied
            BY <2>1, <1>6, <1>7, Part
      <2>3. frames \o SubSeq(filled, 1, copied) = SubSeq(filled, 1, copied)
            BY <2>2, <1>1, ConcatEmptySeq
      <2>4. copied <= RecvLen
            BY <2>1, <1>2, <1>7
      <2> QED
            BY <2>2, <2>3, <2>4
<1>10. /\ slots' = filled /\ rx' = SubSeq(rx, n + 1, Len(rx))
       /\ \E copied \in {n, Len(filled)} :
            frames' = frames \o SubSeq(filled, 1, copied)
      BY DEF ReceiveAll, n, filled
<1> QED
      BY <1>6, <1>7, <1>8, <1>9, <1>10

\* Every step keeps the types and the room in the batch.
LEMMA CanNext == CanInv /\ [Next]_vars => CanInv'
<1> SUFFICES ASSUME CanInv, [Next]_vars PROVE CanInv'
      OBVIOUS
<1>1. /\ rx \in Seq(Frame) /\ frames \in Seq(Frame) /\ slots \in Seq(Frame)
      /\ out \in Seq(Frame) /\ tx \in Seq(Frame) /\ wire \in Seq(Frame)
      /\ Len(frames) \in Nat /\ RecvLen \in Nat /\ RecvLen > 0 /\ Faults \in Nat
      /\ <<>> \in Seq(Frame) /\ Len(<<>>) = 0
      BY LenProperties, EmptySeq, CanAssumption DEF CanInv, CanTypeOK
<1> USE DEF CanInv, CanTypeOK, BatchInv
<1>2. ASSUME NEW failed \in 0..Len(InitCalls), Construct(failed)
      PROVE  CanInv'
      <2>1. {ok', is_running', dev', is_started'} \subseteq BOOLEAN
            BY <1>2, Zenon DEF Construct
      <2>2. /\ phase' \in {"failed", "running"} /\ pc' \in {pc, "enter"}
            /\ phase = "constructing"
            BY <1>2, Zenon DEF Construct
      <2>3. UNCHANGED <<brand, rx, frames, slots, out, tx, wire, faults>>
            BY <1>2 DEF Construct, sendVars
      <2> QED
            BY <2>1, <2>2, <2>3, <1>1
<1>3. CASE SignalShutdown
      BY <1>3 DEF SignalShutdown, recvVars, sendVars
<1>4. CASE Destroy
      BY <1>4 DEF Destroy, recvVars, sendVars
<1>5. CASE Join
      BY <1>5 DEF Join, recvVars, sendVars
<1>6. CASE Enter
      BY <1>6 DEF Enter, Alive, sendVars
<1>7. CASE Top
      BY <1>7, <1>1 DEF Top, Alive, lifeVars, sendVars
<1>8. CASE Receive
      <2>1. rx # <<>> /\ pc = "recv" /\ brand # "esd"
            BY <1>8 DEF Receive
      <2>2. Head(rx) \in Frame /\ Tail(rx) \in Seq(Frame)
            BY <2>1, <1>1, TakeOne
      <2>3. /\ Append(frames, Head(rx)) \in Seq(Frame)
            /\ Len(Append(frames, Head(rx))) = Len(frames) + 1
            BY <2>2, <1>1, AppendProperties
      <2>4. Len(frames) < RecvLen
            BY <2>1
      <2> QED
            BY <1>8, <2>1, <2>2, <2>3, <2>4, <1>1 DEF Receive, Alive, lifeVars, sendVars
<1>9. CASE ReceiveAll
      <2>1. /\ slots' \in Seq(Frame) /\ Len(slots') <= RecvLen /\ rx' \in Seq(Frame)
            /\ frames' \in Seq(Frame) /\ Len(frames') <= RecvLen
            BY <1>9, ReceiveAllType
      <2>2. /\ Alive /\ pc' = "publish"
            /\ UNCHANGED <<lifeVars, out, sendVars, faults>>
            BY <1>9 DEF ReceiveAll
      <2> QED
            BY <2>1, <2>2 DEF Alive, lifeVars, sendVars
<1>10. CASE NoFrame
      <2>1. faults' \in 0..Faults
            BY <1>10, <1>1 DEF NoFrame
      <2> QED
            BY <1>10, <2>1, <1>1 DEF NoFrame, Alive, lifeVars, sendVars
<1>11. CASE Publish
      <2>1. out \o frames \in Seq(Frame)
            BY <1>1, ConcatProperties
      <2> QED
            BY <1>11, <2>1, <1>1 DEF Publish, Alive, lifeVars, sendVars
<1>12. CASE Send
      <2>1. tx # <<>>
            BY <1>12 DEF Send
      <2>2. Head(tx) \in Frame /\ Tail(tx) \in Seq(Frame)
            BY <2>1, <1>1, TakeOne
      <2>3. Append(wire, Head(tx)) \in Seq(Frame)
            BY <2>2, <1>1, AppendProperties
      <2>4. faults' \in 0..Faults /\ tx' \in Seq(Frame) /\ wire' \in Seq(Frame)
            <3>1. /\ tx' = Tail(tx)
                  /\ \/ wire' = Append(wire, Head(tx)) /\ faults' = faults
                     \/ wire' = wire /\ faults > 0 /\ faults' = faults - 1
                  BY <1>12 DEF Send
            <3>2. faults \in 0..Faults
                  OBVIOUS
            <3>3. faults' \in 0..Faults
                  BY <3>1, <3>2, <1>1
            <3>4. tx' \in Seq(Frame) /\ wire' \in Seq(Frame)
                  BY <3>1, <2>2, <2>3, <1>1, Zenon
            <3> QED
                  BY <3>3, <3>4
      <2>5. UNCHANGED <<lifeVars, recvVars>>
            BY <1>12 DEF Send
      <2> QED
            BY <2>4, <2>5 DEF lifeVars, recvVars
<1>13. CASE Take
      <2>1. Tail(out) \in Seq(Frame)
            BY <1>13, <1>1, TakeOne DEF Take
      <2> QED
            BY <1>13, <2>1 DEF Take, lifeVars, sendVars
<1>14. CASE Carry
      <2>1. Tail(wire) \in Seq(Frame)
            BY <1>14, <1>1, TakeOne DEF Carry
      <2> QED
            BY <1>14, <2>1 DEF Carry, lifeVars, recvVars
<1>15. ASSUME NEW new \in Seq(Frame), Arrive(new)
      PROVE  CanInv'
      <2>1. rx \o new \in Seq(Frame)
            BY <1>1, ConcatProperties
      <2> QED
            BY <1>15, <2>1 DEF Arrive, lifeVars, sendVars
<1>16. ASSUME NEW new \in Seq(Frame), Request(new)
      PROVE  CanInv'
      <2>1. KeepLast(tx \o new) \in Seq(Frame)
            BY <1>1, ConcatProperties, KeepLastType
      <2> QED
            BY <1>16, <2>1 DEF Request, lifeVars, recvVars
<1>17. CASE UNCHANGED vars
      BY <1>17 DEF vars
<1> QED
      BY <1>2, <1>3, <1>4, <1>5, <1>6, <1>7, <1>8, <1>9, <1>10, <1>11, <1>12,
         <1>13, <1>14, <1>15, <1>16, <1>17
      DEF Next, Driver, Life, can_rx_thread

\* The types hold in every behaviour; in particular no batch and no read of
\* the ESD card is longer than the buffers of the driver.
THEOREM CanTypeCorrect == Spec => []CanTypeOK
<1>1. Spec => []CanInv
      BY CanInit, CanNext, PTL DEF Spec
<1>2. CanInv => CanTypeOK
      BY DEF CanInv
<1> QED
      BY <1>1, <1>2, PTL

-----------------------------------------------------------------------------
(* The card stays open under the thread.                                   *)

\* Between its start and its end the thread has a node that has not gone.
ThreadInv ==
    pc \notin {"unborn", "ended"} => Alive /\ dev /\ is_started

\* The card is open whenever the thread reads or publishes: the destructor
\* joins the thread before the client closes the card, whatever the order
\* of its start, a shutdown and a failed read.
THEOREM DeviceKeptOpen == Spec => []DeviceOpenWhileUsed
<1>1. Init => ThreadInv
      BY DEF Init, ThreadInv
<1>2. ThreadInv /\ [Next]_vars => ThreadInv'
      <2> SUFFICES ASSUME ThreadInv, [Next]_vars PROVE ThreadInv'
            OBVIOUS
      <2> USE DEF ThreadInv, Alive
      <2>1. ASSUME NEW failed \in 0..Len(InitCalls), Construct(failed)
            PROVE  ThreadInv'
            BY <2>1 DEF Construct
      <2>2. CASE SignalShutdown
            BY <2>2 DEF SignalShutdown, recvVars
      <2>3. CASE Destroy
            BY <2>3 DEF Destroy, recvVars
      <2>4. CASE Join
            BY <2>4 DEF Join, recvVars
      <2>5. CASE can_rx_thread \/ NoFrame
            BY <2>5 DEF can_rx_thread, Enter, Top, Receive, ReceiveAll, Publish,
                        NoFrame, lifeVars
      <2>6. CASE Send \/ Take \/ Carry
            BY <2>6 DEF Send, Take, Carry, lifeVars, recvVars
      <2>7. ASSUME NEW new \in Seq(Frame), Arrive(new) \/ Request(new)
            PROVE  ThreadInv'
            BY <2>7 DEF Arrive, Request, lifeVars, recvVars
      <2>8. CASE UNCHANGED vars
            BY <2>8 DEF vars
      <2> QED
            BY <2>1, <2>2, <2>3, <2>4, <2>5, <2>6, <2>7, <2>8 DEF Next, Driver, Life
<1>3. ThreadInv => DeviceOpenWhileUsed
      BY DEF ThreadInv, DeviceOpenWhileUsed
<1> QED
      BY <1>1, <1>2, <1>3, PTL DEF Spec

-----------------------------------------------------------------------------
(* Reports between the card and the reader.                                *)

\* What a step of the node, the card or the reader may do to the reports in
\* flight (the action of InFlightKept).
Kept ==
    \/ out # <<>> /\ InFlight' = Tail(InFlight)
    \/ /\ Len(InFlight) <= Len(InFlight')
       /\ SubSeq(InFlight', 1, Len(InFlight)) = InFlight

\* A step that leaves the reports in flight as they are keeps them.
LEMMA SameKept ==
    ASSUME CanTypeOK, InFlight' = InFlight
    PROVE  Kept
<1>1. InFlight \in Seq(Frame)
      BY ConcatProperties DEF CanTypeOK, InFlight
<1>2. Len(InFlight) \in Nat /\ SubSeq(InFlight, 1, Len(InFlight)) = InFlight
      BY <1>1, LenProperties, SubSeqFull
<1>3. Len(InFlight) <= Len(InFlight)
      BY <1>2
<1> QED
      BY <1>2, <1>3, Zenon DEF Kept

\* Every step keeps the reports of the three clients that read a frame at a
\* time.
LEMMA KeptNext ==
    ASSUME CanTypeOK, [Next]_vars, brand # "esd"
    PROVE  Kept
<1>1. rx \in Seq(Frame) /\ frames \in Seq(Frame) /\ out \in Seq(Frame)
      BY DEF CanTypeOK
<1>2. ASSUME UNCHANGED <<out, frames, rx>>
      PROVE  Kept
      BY <1>2, SameKept DEF InFlight
<1>3. ASSUME Life \/ Enter \/ Top \/ NoFrame \/ Send \/ Carry \/ UNCHANGED vars
      PROVE  UNCHANGED <<out, frames, rx>>
      <2>1. CASE Life
            BY <2>1 DEF Life, Construct, SignalShutdown, Destroy, Join, recvVars
      <2>2. CASE Enter \/ Top \/ NoFrame
            BY <2>2 DEF Enter, Top, NoFrame
      <2>3. CASE Send \/ Carry
            BY <2>3 DEF Send, Carry, recvVars
      <2>4. CASE UNCHANGED vars
            BY <2>4 DEF vars
      <2> QED
            BY <1>3, <2>1, <2>2, <2>3, <2>4
<1>4. CASE Receive
      <2>1. /\ rx # <<>> /\ out' = out
            /\ frames' = Append(frames, Head(rx)) /\ rx' = Tail(rx)
            BY <1>4 DEF Receive
      <2>2. Append(frames, Head(rx)) \in Seq(Frame) /\ Tail(rx) \in Seq(Frame)
            BY <2>1, <1>1, TakeOne, AppendProperties
      <2>3. \A p, q \in Seq(Frame) : (out \o p) \o q = out \o (p \o q)
            BY <1>1, ConcatAssociative
      <2>4. Append(frames, Head(rx)) \o Tail(rx) = frames \o rx
            BY <2>1, <1>1, MoveOne
      <2>5. (out \o frames') \o rx' = (out \o frames) \o rx
            <3>1. (out \o frames') \o rx' = out \o (frames' \o rx')
                  BY <2>1, <2>2, <2>3, Zenon
            <3>2. frames' \o rx' = frames \o rx
                  BY <2>1, <2>4, Zenon
            <3>3. (out \o frames) \o rx = out \o (frames \o rx)
                  BY <2>3, <1>1, Zenon
            <3> QED
                  BY <3>1, <3>2, <3>3, Zenon
      <2>6. InFlight' = InFlight
            BY <2>1, <2>5, Zenon DEF InFlight
      <2> QED
            BY <2>6, SameKept
<1>5. CASE Publish
      <2>1. out' = out \o frames /\ frames' = <<>> /\ rx' = rx
            BY <1>5 DEF Publish
      <2>2. (out \o frames) \o <<>> = out \o frames
            BY <1>1, ConcatProperties, ConcatEmptySeq
      <2>3. InFlight' = InFlight
            BY <2>1, <2>2, Zenon DEF InFlight
      <2> QED
            BY <2>3, SameKept
<1>6. CASE Take
      <2>1. out # <<>> /\ out' = Tail(out) /\ frames' = frames /\ rx' = rx
            BY <1>6 DEF Take
      <2>2. out \o frames \in Seq(Frame) /\ frames \o rx \in Seq(Frame)
            BY <1>1, ConcatProperties
      <2>3. Tail(out) \o frames = Tail(out \o frames)
            BY <2>1, <1>1, TailConcat
      <2>4. out \o frames # <<>>
            BY <2>1, <1>1, ConcatEqualIffEmpty
      <2>5. Tail(out \o frames) \o rx = Tail((out \o frames) \o rx)
            BY <2>2, <2>4, <1>1, TailConcat
      <2>6. InFlight' = Tail(InFlight)
            BY <2>1, <2>3, <2>5, Zenon DEF InFlight
      <2> QED
            BY <2>1, <2>6 DEF Kept
<1>7. ASSUME NEW new \in Seq(Frame), Arrive(new)
      PROVE  Kept
      <2>1. rx' = rx \o new /\ out' = out /\ frames' = frames
            BY <1>7 DEF Arrive
      <2>2. out \o frames \in Seq(Frame) /\ (out \o frames) \o rx \in Seq(Frame)
            BY <1>1, ConcatProperties
      <2>3. (out \o frames) \o (rx \o new) = ((out \o frames) \o rx) \o new
            BY <2>2, <1>1, ConcatAssociative
      <2>4. InFlight' = InFlight \o new
            BY <2>1, <2>3, Zenon DEF InFlight
      <2>5. InFlight \in Seq(Frame)
            BY <2>2 DEF InFlight
      <2> HIDE DEF InFlight
      <2> QED
            BY <2>4, <2>5, Prefix DEF Kept
<1>8. ASSUME NEW new \in Seq(Frame), Request(new)
      PROVE  Kept
      BY <1>8, <1>2 DEF Request, recvVars
<1>9. ~ReceiveAll
      BY DEF ReceiveAll
<1> QED
      BY <1>2, <1>3, <1>4, <1>5, <1>6, <1>7, <1>8, <1>9
      DEF Next, Driver, can_rx_thread

\* No report is lost, repeated or reordered between the card and the
\* reader, in any behaviour and for every batch length: a full batch, a
\* failed read in the middle of one, a timeout and a stop of the node all
\* leave what is in flight to be published in its order.
THEOREM ReportsKept == Spec => InFlightKept
<1>1. CanTypeOK /\ [Next]_vars
        => [brand # "esd" =>
              \/ out # <<>> /\ InFlight' = Tail(InFlight)
              \/ /\ Len(InFlight) <= Len(InFlight')
                 /\ SubSeq(InFlight', 1, Len(InFlight)) = InFlight]_vars
      BY KeptNext DEF Kept
<1> QED
      BY <1>1, CanTypeCorrect, PTL DEF Spec, InFlightKept
=============================================================================
