----------------------------- MODULE TuxTransmit -----------------------------
(***************************************************************************)
(* The transmitting half of the tux line discipline (tuxctl-ld.c).  An     *)
(* ioctl puts a command into the ring under the lock and then calls        *)
(* write_wakeup, which asks the serial driver for its room, takes bytes    *)
(* under the lock, and hands them to the driver after it: three steps, and *)
(* between any two of them an interrupt may run the same code to its end,  *)
(* for the driver that can accept more or for a reset of the controller.   *)
(* There is one ioctl at a time, and interrupts do not nest.               *)
(*                                                                         *)
(* A byte is the number it has among those put.                            *)
(***************************************************************************)
EXTENDS TuxRing, FiniteSets

CONSTANTS
    PutSizes,       \* lengths of the commands that ioctls put
    ResetSize,      \* length of what handle_packet puts after a reset
    DriverSize,     \* size of the serial driver's buffer
    WAKEUP_CHARS,   \* the driver can accept more when it holds fewer
    MaxBytes        \* BOUND: bytes put at all

ASSUME TuxTransmitAssumption ==
    /\ PutSizes \subseteq Nat \ {0}
    /\ ResetSize \in Nat \ {0}
    /\ DriverSize \in Nat \ {0}
    /\ WAKEUP_CHARS \in 1 .. DriverSize
    /\ MaxBytes \in Nat

VARIABLES
    tx_buf, tx_start, tx_end,   \* the ring
    pc,         \* where the ioctl is: "idle", "put", "room", "write"
    room,       \* its room
    buf,        \* its buf[], between the lock and the driver's write
    fifo,       \* the driver's buffer
    wire,       \* history: bytes sent, in their order
    put,        \* history: how many bytes were put into the ring
    lost,       \* history: bytes that the driver did not take
    peak,       \* history: most bytes that were on their way at a time
    overtaken   \* history: an interrupt wrote while the ioctl held bytes in buf

vars == <<tx_buf, tx_start, tx_end, pc, room, buf, fifo, wire, put, lost, peak, overtaken>>
ring == <<tx_buf, tx_start, tx_end>>

TypeOK ==
    /\ tx_buf \in [Places -> 0 .. MaxBytes]
    /\ tx_start \in Places /\ tx_end \in Places
    /\ pc \in {"idle", "put", "room", "write"}
    /\ room \in 0 .. DriverSize
    /\ buf \in Seq(1 .. MaxBytes) /\ Len(buf) <= TUXCTL_BUFSIZE - 1
    /\ fifo \in Seq(1 .. MaxBytes) /\ Len(fifo) <= DriverSize
    /\ wire \in Seq(1 .. MaxBytes)
    /\ put \in 0 .. MaxBytes /\ peak \in 0 .. MaxBytes
    /\ lost \subseteq 1 .. MaxBytes
    /\ overtaken \in BOOLEAN

Init ==
    /\ tx_buf = [k \in Places |-> 0] /\ tx_start = 0 /\ tx_end = 0
    /\ pc = "idle" /\ room = 0 /\ buf = << >>
    /\ fifo = << >> /\ wire = << >>
    /\ put = 0 /\ lost = {} /\ peak = 0
    /\ overtaken = FALSE

-----------------------------------------------------------------------------
(* The serial driver.                                                      *)

write_room == DriverSize - Len(fifo)

\* What of bytes the driver takes into q, and what it does not.
Written(q, bytes) == q \o SubSeq(bytes, 1, Smaller(Len(bytes), DriverSize - Len(q)))
Refused(q, bytes) == {bytes[k] : k \in DriverSize - Len(q) + 1 .. Len(bytes)}

-----------------------------------------------------------------------------
(* put and write_wakeup.                                                   *)

\* tuxctl_ldisc_put under the lock: the first bytes of the command that there is room for.
Accepted(n) == Smaller(n, Room(tx_start, tx_end))

Enqueue(n) ==
    LET m == Accepted(n)
    IN  /\ put + n <= MaxBytes
        /\ tx_buf' = Put(tx_buf, tx_end, [k \in 1 .. m |-> put + k])
        /\ tx_end' = Moved(tx_end, m)
        /\ put' = put + m
        /\ peak' = LET onWay == put + m - Len(wire) - Cardinality(lost)
                   IN  IF onWay > peak THEN onWay ELSE peak

\* Variant: the loop takes whatever the ring holds.
TakeCountAll(r, used) == used

\* How many bytes the loop takes: it runs while n <= room, so one more than room.
TakeCount(r, used) == Smaller(r + 1, used)

\* Variant: tuxctl_ldisc_put returns without calling write_wakeup.
PutCommandNoWakeup(n) ==
    /\ pc = "idle"
    /\ Enqueue(n)
    /\ UNCHANGED <<tx_start, pc, room, buf, fifo, wire, lost, overtaken>>

\* tuxctl_ldisc_put of an ioctl, up to its unlock.
PutCommand(n) ==
    /\ pc = "idle"
    /\ Enqueue(n)
    /\ pc' = "put"
    /\ UNCHANGED <<tx_start, room, buf, fifo, wire, lost, overtaken>>

ReadRoom ==
    /\ pc = "put"
    /\ room' = write_room
    /\ pc' = "room"
    /\ UNCHANGED <<ring, buf, fifo, wire, put, lost, peak, overtaken>>

\* Variant: tx_start is not moved past what is taken.
TakeBytesStays ==
    /\ pc = "room"
    /\ buf' = Taken(tx_buf, tx_start, TakeCount(room, buf_used(tx_start, tx_end)))
    /\ pc' = "write"
    /\ UNCHANGED <<ring, room, fifo, wire, put, lost, peak, overtaken>>

TakeBytes ==
    /\ pc = "room"
    /\ LET n == TakeCount(room, buf_used(tx_start, tx_end))
       IN  /\ buf' = Taken(tx_buf, tx_start, n)
           /\ tx_start' = Moved(tx_start, n)
    /\ pc' = "write"
    /\ UNCHANGED <<tx_buf, tx_end, room, fifo, wire, put, lost, peak, overtaken>>

WriteBytes ==
    /\ pc = "write"
    /\ fifo' = Written(fifo, buf)
    /\ lost' = lost \cup Refused(fifo, buf)
    /\ buf' = << >>
    /\ pc' = "idle"
    /\ UNCHANGED <<ring, room, wire, put, peak, overtaken>>

-----------------------------------------------------------------------------
(* Interrupts: the same code, run to its end.                              *)

\* write_wakeup with the ring b from start to end and the driver's buffer q.
Wakeup(b, start, end, q) ==
    LET n     == TakeCount(DriverSize - Len(q), buf_used(start, end))
        bytes == Taken(b, start, n)
    IN  /\ tx_start' = Moved(start, n)
        /\ fifo' = Written(q, bytes)
        /\ lost' = lost \cup Refused(q, bytes)
        /\ overtaken' = (overtaken \/ (buf # << >> /\ n > 0))

CanAccept(q) == Len(q) < WAKEUP_CHARS

\* The driver has sent a byte, and wakes the line discipline when it can accept more.
SerialInterrupt ==
    /\ fifo # << >>
    /\ wire' = Append(wire, Head(fifo))
    /\ IF CanAccept(Tail(fifo)) THEN Wakeup(tx_buf, tx_start, tx_end, Tail(fifo))
       ELSE fifo' = Tail(fifo) /\ UNCHANGED <<tx_start, lost, overtaken>>
    /\ UNCHANGED <<tx_buf, tx_end, pc, room, buf, put, peak>>

\* Variant: the commands after a reset are only put.
ResetInterruptNoWakeup ==
    /\ Enqueue(ResetSize)
    /\ UNCHANGED <<tx_start, pc, room, buf, fifo, wire, lost, overtaken>>

\* handle_packet for a reset: it puts two commands.
ResetInterrupt ==
    /\ Enqueue(ResetSize)
    /\ Wakeup(tx_buf', tx_start, tx_end', fifo)
    /\ UNCHANGED <<pc, room, buf, wire>>

IoctlSteps == ReadRoom \/ TakeBytes \/ WriteBytes

Next ==
    \/ \E n \in PutSizes : PutCommand(n)
    \/ IoctlSteps
    \/ SerialInterrupt
    \/ ResetInterrupt

Spec == Init /\ [][Next]_vars

\* The ioctl goes on, and the driver sends what it has.
FairSpec == Spec /\ WF_vars(IoctlSteps) /\ WF_vars(SerialInterrupt)

-----------------------------------------------------------------------------
(***************************************************************************)
(* Properties.                                                             *)
(***************************************************************************)

Queued == Taken(tx_buf, tx_start, buf_used(tx_start, tx_end))

\* Everything put that is not lost, from the line back to the ring.
OnTheWay == wire \o fifo \o buf \o Queued

(***************************************************************************)
(* Every byte put is in exactly one place: sent, in the driver, in the     *)
(* ioctl's buf, in the ring, or lost; and unless an interrupt overtook an  *)
(* ioctl between its unlock and its write, they are in the order they were *)
(* put, wherever the ring wraps around.                                    *)
(***************************************************************************)
InOrder ==
    /\ {OnTheWay[k] : k \in DOMAIN OnTheWay} = (1 .. put) \ lost
    /\ Len(OnTheWay) = put - Cardinality(lost)
    /\ ~overtaken => \A j, k \in DOMAIN OnTheWay : j < k => OnTheWay[j] < OnTheWay[k]

(***************************************************************************)
(* write_wakeup takes one byte more than there is room for, and the room   *)
(* it was told may be gone when it writes; nothing is lost all the same as *)
(* long as what is on its way fits into the driver.                        *)
(***************************************************************************)
NoLossWhenItFits == lost # {} => peak > DriverSize

(***************************************************************************)
(* A wakeup that no interrupt came into loses one byte at most, however    *)
(* full the driver and the ring are: more is lost only when the room it    *)
(* was told has gone meanwhile.                                            *)
(***************************************************************************)
LossBounded ==
    [][Cardinality(lost' \ lost) <= 1 \/ (pc = "write" /\ room > write_room)]_vars

(***************************************************************************)
(* No byte stays in the ring with nothing to take it out: while the ring   *)
(* is not empty an ioctl is in write_wakeup or the driver has something to *)
(* send, after which it wakes the line discipline.                         *)
(***************************************************************************)
NoneStranded == tx_start # tx_end => pc # "idle" \/ fifo # << >>

(* What is on the line is what was put, without what the driver had no     *)
(* room for and in order unless one wakeup overtook another, and nothing   *)
(* waits in the ring that no one will send (tuxctl-ld.c:150-225).          *)
SendSafety == TypeOK /\ InOrder /\ NoLossWhenItFits /\ NoneStranded

(***************************************************************************)
(* Bytes are on their way: put, not yet sent, and not lost to the driver.  *)
(* Each must leave in the end; since only so many are put, a time comes    *)
(* when none is under way.                                                 *)
(***************************************************************************)
Underway == \E b \in 1 .. put : b \notin lost /\ \A k \in DOMAIN wire : wire[k] # b

-----------------------------------------------------------------------------
(***************************************************************************)
(* The inductive invariant of SendSafety; the proofs are in MCTux.         *)
(***************************************************************************)

Bytes(s) == {s[k] : k \in DOMAIN s}
Distinct(s) == \A j, k \in DOMAIN s : j # k => s[j] # s[k]
Rising(s) == \A j, k \in DOMAIN s : j < k => s[j] < s[k]

\* No byte is in two places, and none has gone but those lost.
ByteInv ==
    /\ Bytes(OnTheWay) = (1 .. put) \ lost /\ lost \subseteq 1 .. put
    /\ Distinct(OnTheWay)
    /\ ~overtaken => Rising(OnTheWay)

\* What an ioctl holds between its unlock and its write.
WriteInv ==
    /\ pc # "write" => buf = << >>
    /\ pc = "write" => Len(buf) <= room + 1

\* What is on its way now, the peak has seen.
PeakInv == put - Len(wire) - Cardinality(lost) <= peak /\ NoLossWhenItFits

\* Who takes the bytes out of the ring: an ioctl before its lock, or the
\* interrupt after what the driver has or will get.
TakerInv == tx_start # tx_end => pc \in {"put", "room"} \/ buf # << >> \/ fifo # << >>

SendInv == TypeOK /\ ByteInv /\ WriteInv /\ PeakInv /\ TakerInv

=============================================================================
