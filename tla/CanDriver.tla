----------------------------- MODULE CanDriver -----------------------------
(***************************************************************************)
(* can_driver: the node between the CAN card and two topics.  Its          *)
(* constructor picks a client for the card, opens it and starts a thread   *)
(* that reads frames in batches and publishes them; a subscription writes  *)
(* the frames that arrive on the other topic.  The four clients differ in  *)
(* how a read waits, fails and fills the batch.  The destructor clears     *)
(* is_running_, joins the thread and then closes the card.                 *)
(*                                                                         *)
(* The card, the topics' queues and the process are an open environment.   *)
(***************************************************************************)
EXTENDS Integers, Sequences

CONSTANTS
    Frame,             \* the frames, opaque here
    RecvLen,           \* MAX_CAN_RECV_FRAME_LEN
    TxDepth,           \* history depth of the command topic
    Capacity,          \* bound: frames between the card and the reader
    BusDepth,          \* bound: frames written and not carried yet
    Faults,            \* bound: failing reads and writes
    Brands             \* cards the node may be started with

ASSUME CanAssumption ==
    /\ {RecvLen, TxDepth, Capacity, BusDepth, Faults} \subseteq Nat
    /\ RecvLen > 0 /\ TxDepth > 0
    /\ Brands \subseteq {"socket", "innodisk", "esd", "kvaser", "unknown"}

VARIABLES
    brand,
    phase,         \* "constructing", "failed", "running", "stopping", "gone"
    ok,            \* rclcpp::ok()
    is_running,    \* is_running_
    dev,           \* whether the client has the card open
    is_started,    \* is_started_ of the client
    pc,            \* where the receive thread is
    rx,            \* frames the card holds
    frames,        \* the batch of the receive thread
    slots,         \* recv_msgs_ of the ESD client
    out,           \* published frames the reader has not taken
    tx,            \* frames waiting at the subscription
    wire,          \* frames written that the bus has not carried yet
    faults         \* failures still to come

lifeVars == <<brand, phase, ok, is_running, dev, is_started>>
recvVars == <<pc, rx, frames, slots, out>>
sendVars == <<tx, wire>>
vars == <<brand, phase, ok, is_running, dev, is_started, pc, rx, frames,
          slots, out, tx, wire, faults>>

Init ==
    /\ brand \in Brands
    /\ phase = "constructing" /\ ok = TRUE /\ is_running = FALSE
    /\ dev = FALSE /\ is_started = FALSE
    /\ pc = "unborn"
    /\ rx = <<>> /\ frames = <<>> /\ slots = <<>> /\ out = <<>>
    /\ tx = <<>> /\ wire = <<>>
    /\ faults = Faults

-----------------------------------------------------------------------------
(* The constructor.  Each client's init() makes a number of calls; the     *)
(* failure of any but the two that only report (the Innodisk version and   *)
(* configuration) ends the process.                                        *)

SocketInit   == <<"socket", "filter", "fd_frames", "ioctl", "bind">>
InnodiskInit == <<"open", "inactive", "baudrate", "active">>
EsdInit      == <<"canOpen", "canIdRegionAdd", "canSetBaudrate">>
KvaserInit   == <<"canOpenChannel", "canSetBusParams", "canBusOn">>

InitCalls ==
    CASE brand = "socket"   -> SocketInit
      [] brand = "innodisk" -> InnodiskInit
      [] brand = "esd"      -> EsdInit
      [] brand = "kvaser"   -> KvaserInit
      [] OTHER              -> <<>>

\* failed is the number of the call that fails, 0 if none does.
Construct(failed) ==
    /\ phase = "constructing"
    /\ IF brand = "unknown" \/ failed > 0
       THEN phase' = "failed" /\ UNCHANGED <<dev, is_started, pc>>
       ELSE /\ phase' = "running" /\ pc' = "enter"
            /\ dev' = TRUE /\ is_started' = TRUE
    /\ UNCHANGED <<brand, ok, is_running, rx, frames, slots, out, sendVars,
                   faults>>

-----------------------------------------------------------------------------
(* The receive thread.                                                     *)

Alive == phase \in {"running", "stopping"}

\* The thread itself says that it runs, perhaps after it was told to stop.
Enter ==
    /\ Alive /\ pc = "enter"
    /\ is_running' = TRUE
    /\ pc' = "top"
    /\ UNCHANGED <<brand, phase, ok, dev, is_started, rx, frames, slots, out,
                   sendVars, faults>>

\* Mutant: the loop looks at rclcpp::ok() only.
TopWhileOk ==
    /\ Alive /\ pc = "top"
    /\ pc' = IF ok THEN "recv" ELSE "ended"
    /\ UNCHANGED <<lifeVars, rx, frames, slots, out, sendVars, faults>>
Top ==
    /\ Alive /\ pc = "top"
    /\ pc' = IF ok /\ is_running THEN "recv" ELSE "ended"
    /\ UNCHANGED <<lifeVars, rx, frames, slots, out, sendVars, faults>>

\* One frame of the batch: read() waits for it, canReadWait() waits a
\* second, EMUCReceive() is polled.
\* Mutant: one frame more than the batch holds.
ReceiveOneMore ==
    /\ Alive /\ pc = "recv" /\ brand # "esd"
    /\ rx # <<>>
    /\ frames' = Append(frames, Head(rx))
    /\ rx' = Tail(rx)
    /\ pc' = IF Len(frames) = RecvLen THEN "publish" ELSE "recv"
    /\ UNCHANGED <<lifeVars, slots, out, sendVars, faults>>
Receive ==
    /\ Alive /\ pc = "recv" /\ brand # "esd"
    /\ rx # <<>>
    /\ frames' = Append(frames, Head(rx))
    /\ rx' = Tail(rx)
    /\ pc' = IF Len(frames) + 1 = RecvLen THEN "publish" ELSE "recv"
    /\ UNCHANGED <<lifeVars, slots, out, sendVars, faults>>

\* canRead() fills the first n slots.  The count it reports is stored in a
\* parameter declared const, so the copy may run over all of them.  (Slots
\* never filled hold identifier 0, which the reader ignores; they are left
\* out.)
ReceiveAll ==
    /\ Alive /\ pc = "recv" /\ brand = "esd"
    /\ rx # <<>>
    /\ LET n == IF Len(rx) < RecvLen THEN Len(rx) ELSE RecvLen
           filled == SubSeq(rx, 1, n) \o SubSeq(slots, n + 1, Len(slots))
       IN  /\ slots' = filled
           /\ rx' = SubSeq(rx, n + 1, Len(rx))
           /\ \E copied \in {n, Len(filled)} :
                frames' = frames \o SubSeq(filled, 1, copied)
    /\ pc' = "publish"
    /\ UNCHANGED <<lifeVars, out, sendVars, faults>>

\* Every client but the socket gives up waiting.
TimesOut == brand # "socket" /\ rx = <<>>

\* recv() failed; what the batch holds is published all the same.
\* Mutant: a failed recv() discards the batch.
NoFrameDiscarding ==
    /\ Alive /\ pc = "recv"
    /\ \/ TimesOut /\ UNCHANGED faults
       \/ ~TimesOut /\ faults > 0 /\ faults' = faults - 1
    /\ frames' = <<>>
    /\ pc' = "top"
    /\ UNCHANGED <<lifeVars, rx, slots, out, sendVars>>
NoFrame ==
    /\ Alive /\ pc = "recv"
    /\ \/ TimesOut /\ UNCHANGED faults
       \/ ~TimesOut /\ faults > 0 /\ faults' = faults - 1
    /\ pc' = IF frames = <<>> THEN "top" ELSE "publish"
    /\ UNCHANGED <<lifeVars, rx, frames, slots, out, sendVars>>

Publish ==
    /\ Alive /\ pc = "publish"
    /\ out' = out \o frames
    /\ frames' = <<>>
    /\ pc' = "top"
    /\ UNCHANGED <<lifeVars, rx, slots, sendVars, faults>>

can_rx_thread == Enter \/ Top \/ Receive \/ ReceiveAll \/ Publish
                       \/ (NoFrame /\ TimesOut)

-----------------------------------------------------------------------------
(* The subscription: each frame is handed to the client's send() on its    *)
(* own, and nobody looks at the result.                                    *)

Send ==
    /\ phase = "running" /\ ok
    /\ tx # <<>>
    /\ tx' = Tail(tx)
    /\ \/ /\ is_started /\ Len(wire) < BusDepth
          /\ wire' = Append(wire, Head(tx)) /\ UNCHANGED faults
       \/ faults > 0 /\ faults' = faults - 1 /\ UNCHANGED wire
    /\ UNCHANGED <<lifeVars, recvVars>>

-----------------------------------------------------------------------------
(* The end.                                                                *)

SignalShutdown ==
    /\ phase = "running" /\ ok
    /\ ok' = FALSE
    /\ UNCHANGED <<brand, phase, is_running, dev, is_started, recvVars,
                   sendVars, faults>>

\* The destructor, at shutdown or when the component is unloaded.
\* Mutant: the client is stopped before the thread is joined.
DestroyClosing ==
    /\ phase = "running"
    /\ phase' = "stopping"
    /\ is_running' = FALSE
    /\ is_started' = FALSE /\ dev' = FALSE
    /\ UNCHANGED <<brand, ok, recvVars, sendVars, faults>>
Destroy ==
    /\ phase = "running"
    /\ phase' = "stopping"
    /\ is_running' = FALSE
    /\ UNCHANGED <<brand, ok, dev, is_started, recvVars, sendVars, faults>>

\* The thread is joined, then the members go and the client's stop() closes
\* the card.
Join ==
    /\ phase = "stopping" /\ pc = "ended"
    /\ phase' = "gone"
    /\ is_started' = FALSE
    /\ dev' = FALSE
    /\ UNCHANGED <<brand, ok, is_running, recvVars, sendVars, faults>>

-----------------------------------------------------------------------------
(* The environment.                                                        *)

InFlight == out \o frames \o rx

\* Frames arrive at the open card.
Arrive(new) ==
    /\ dev /\ Len(InFlight) + Len(new) <= Capacity
    /\ rx' = rx \o new
    /\ UNCHANGED <<lifeVars, pc, frames, slots, out, sendVars, faults>>

\* The reader takes a published frame.
Take ==
    /\ out # <<>>
    /\ out' = Tail(out)
    /\ UNCHANGED <<lifeVars, pc, rx, frames, slots, sendVars, faults>>

KeepLast(queue) ==
    IF Len(queue) > TxDepth
    THEN SubSeq(queue, Len(queue) - TxDepth + 1, Len(queue)) ELSE queue

\* The writer publishes frames to be sent.
Request(commands) ==
    /\ phase = "running"
    /\ tx' = KeepLast(tx \o commands)
    /\ UNCHANGED <<lifeVars, recvVars, wire, faults>>

\* The bus carries a frame to the chassis.
Carry ==
    /\ wire # <<>>
    /\ wire' = Tail(wire)
    /\ UNCHANGED <<lifeVars, recvVars, tx, faults>>

Life == \/ \E failed \in 0..Len(InitCalls) : Construct(failed)
        \/ SignalShutdown \/ Destroy \/ Join

Driver == Life \/ can_rx_thread \/ NoFrame \/ Send

Next == \/ Driver \/ Take \/ Carry
        \/ \E new \in Seq(Frame) : Arrive(new) \/ Request(new)

Spec == Init /\ [][Next]_vars

-----------------------------------------------------------------------------
\* Types.  A batch never outgrows MAX_CAN_RECV_FRAME_LEN, whichever client
\* fills it and whatever a failed read left in it.
CanTypeOK ==
    /\ brand \in Brands
    /\ phase \in {"constructing", "failed", "running", "stopping", "gone"}
    /\ {ok, is_running, dev, is_started} \subseteq BOOLEAN
    /\ pc \in {"unborn", "enter", "top", "recv", "publish", "ended"}
    /\ rx \in Seq(Frame) /\ frames \in Seq(Frame) /\ slots \in Seq(Frame)
    /\ out \in Seq(Frame) /\ tx \in Seq(Frame) /\ wire \in Seq(Frame)
    /\ Len(frames) <= RecvLen /\ Len(slots) <= RecvLen
    /\ (pc = "recv" => Len(frames) < RecvLen)
    /\ faults \in 0..Faults

\* The thread reads the card only while the client holds it open: the
\* destructor joins the thread before the client goes, and a constructor
\* that failed has started none.
DeviceOpenWhileUsed ==
    pc \in {"top", "recv", "publish"} => dev /\ is_started

\* No step loses, repeats or reorders a report between the card and the
\* reader: what is in flight only grows at the card and shrinks at the
\* reader, through full batches, failed reads and shutdown.  (The ESD client
\* may copy records of earlier reads, see ReceiveAll.)
InFlightKept ==
    [][ brand # "esd" =>
          \/ out # <<>> /\ InFlight' = Tail(InFlight)
          \/ /\ Len(InFlight) <= Len(InFlight')
             /\ SubSeq(InFlight', 1, Len(InFlight)) = InFlight ]_vars

\* Where a stop may hang: read() on a silent bus never returns, and a thread
\* that began after the destructor has cleared is_running_ sets it again.
Hangs == \/ brand = "socket" /\ pc = "recv" /\ rx = <<>>
         \/ ok /\ is_running

\* Once the destructor runs, the thread is joined and the card closed: a
\* started batch, a timeout or a failed read never keeps the node alive,
\* the two cases of Hangs apart.
StopEnds == phase = "stopping" ~> (phase = "gone" \/ []Hangs)
=============================================================================
