------------------------------- MODULE TuxRing -------------------------------
(***************************************************************************)
(* The rings of the tux line discipline (tuxctl-ld.c): TUXCTL_BUFSIZE      *)
(* places of which one is always free, between a start and an end that     *)
(* move around.  TuxReceive and TuxTransmit each keep one.                 *)
(***************************************************************************)
EXTENDS Integers, Sequences

CONSTANT TUXCTL_BUFSIZE

ASSUME TuxRingAssumption == TUXCTL_BUFSIZE \in Nat \ {0, 1}

Places == 0 .. TUXCTL_BUFSIZE - 1

buf_used(start, end) == IF start <= end THEN end - start ELSE TUXCTL_BUFSIZE + end - start

\* Variant: one place more is left free.
RoomLess(start, end) == TUXCTL_BUFSIZE - buf_used(start, end) - 2

\* Variant: the place that tells a full ring from an empty one is used too.
RoomAll(start, end) == TUXCTL_BUFSIZE - buf_used(start, end)

\* How many bytes a loop can put before buf_full.
Room(start, end) == TUXCTL_BUFSIZE - buf_used(start, end) - 1

\* Variant: the index is not taken around.
MovedOn(idx, n) == idx + n

Moved(idx, n) == (idx + n) % TUXCTL_BUFSIZE

Smaller(m, n) == IF m <= n THEN m ELSE n

\* The ring after bytes are put at its end.
Put(buf, end, bytes) ==
    [k \in DOMAIN buf |->
        LET at == (k - end + TUXCTL_BUFSIZE) % TUXCTL_BUFSIZE
        IN  IF at < Len(bytes) THEN bytes[at + 1] ELSE buf[k]]

\* The first n bytes of a ring.
Taken(buf, start, n) == [k \in 1 .. n |-> buf[Moved(start, k - 1)]]

=============================================================================
