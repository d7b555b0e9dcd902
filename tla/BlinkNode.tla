------------------------------ MODULE BlinkNode ------------------------------
(***************************************************************************)
(* A blinking character (struct mp1_blink_struct) and what the tasklet of  *)
(* the RTC does to one.  mp1.S keeps them in the kernel and fish/blink.S   *)
(* in a program; the two differ in how, not in this.  Numbers have 16      *)
(* bits, of which half are taken for negative when they are compared.      *)
(***************************************************************************)
EXTENDS Integers, SequencesExt

CONSTANTS
    Locations,  \* where callers want characters
    SCREEN,     \* how many characters the screen has
    Phases,     \* pairs of an on_length and an off_length that callers give
    HALF        \* half of the numbers of 16 bits

BlinkAssumption ==
    /\ Locations \subseteq Nat
    /\ SCREEN \in Nat
    /\ HALF \in Nat \ {0}
    /\ Phases \subseteq (0 .. 2 * HALF - 1) \X (0 .. 2 * HALF - 1)

Cells == 0 .. SCREEN - 1

New(loc, on, off) == [location |-> loc, on |-> on, off |-> off, countdown |-> on, status |-> 1]

\* Variant: a count of zero is not the end of a phase.
ExpiredLate(n) == LET c == (n.countdown - 1) % (2 * HALF) IN c >= HALF

\* The countdown after a tick is not greater than zero, as a signed number.
Expired(n) == LET c == (n.countdown - 1) % (2 * HALF) IN c = 0 \/ c >= HALF

\* Variant: the status is set instead of changed.
TickedOn(n) ==
    IF ~Expired(n) THEN [n EXCEPT !.countdown = @ - 1]
    ELSE [n EXCEPT !.status = 1, !.countdown = n.on]

\* A tick: either the countdown goes on, or the other phase begins.
Ticked(n) ==
    IF ~Expired(n) THEN [n EXCEPT !.countdown = @ - 1]
    ELSE [n EXCEPT !.status = 1 - @, !.countdown = IF n.status = 1 THEN n.off ELSE n.on]

\* What a cell shows: the node that wrote it last, and which of its characters.
Shown(a, status) == [by |-> a, status |-> status]
Blank == Shown(0, 0)

\* Variant: the character of the phase that ends is written.
ScreenTickedOld(screen, list, mem) ==
    [l \in Cells |->
        LET wrote == SelectSeq(list, LAMBDA a : mem[a].location = l /\ Expired(mem[a]))
        IN  IF wrote = << >> THEN screen[l] ELSE Shown(Last(wrote), mem[Last(wrote)].status)]

\* The screen after the nodes of a list have ticked in their order.
ScreenTicked(screen, list, mem) ==
    [l \in Cells |->
        LET wrote == SelectSeq(list, LAMBDA a : mem[a].location = l /\ Expired(mem[a]))
        IN  IF wrote = << >> THEN screen[l] ELSE Shown(Last(wrote), 1 - mem[Last(wrote)].status)]

\* The cells that a node wrote count as nobody's when it is gone.
Forgotten(screen, a) == [l \in Cells |-> IF screen[l].by = a THEN Blank ELSE screen[l]]

\* The list from an address on, at most as long as there are addresses.
ListFrom(a0, next, addrs) ==
    LET from[k \in 0 .. Cardinality(addrs), a \in addrs \cup {0}] ==
            IF k = 0 \/ a = 0 THEN << >> ELSE <<a>> \o from[k - 1, next[a]]
    IN  from[Cardinality(addrs), a0]

=============================================================================
