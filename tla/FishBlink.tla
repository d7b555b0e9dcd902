------------------------------ MODULE FishBlink ------------------------------
(***************************************************************************)
(* The blinking characters of the program fish (fish/blink.S, fish.c): the *)
(* tasklet is called by the program itself, after each read of the RTC,    *)
(* and memory is an array whose places are free when their location is 0.  *)
(* fish shows nothing at location 0, and neither do the callers here.      *)
(***************************************************************************)
EXTENDS BlinkNode

CONSTANTS
    ARRAY,      \* places of blink_array
    MaxCalls    \* BOUND: calls

VARIABLES
    blink_array,    \* the nodes
    next,           \* their NEXT
    head,           \* mp1_list_head
    screen,         \* what the cells of the screen show
    calls,          \* how many ioctls there were
    synced          \* history: the nodes that RTC_SYNC wrote on the screen

vars == <<blink_array, next, head, screen, calls, synced>>

Places == 1 .. ARRAY
Free == [New(0, 0, 0) EXCEPT !.status = 0]
Nodes == ListFrom(head, next, Places)

Init ==
    /\ blink_array = [a \in Places |-> Free]
    /\ next = [a \in Places |-> 0]
    /\ head = 0
    /\ screen = [l \in Cells |-> Blank]
    /\ calls = 0 /\ synced = {}

Called == calls < MaxCalls /\ calls' = calls + 1

\* mp1_malloc: the first free place, or NULL.
mp1_malloc ==
    LET free == {a \in Places : blink_array[a].location = 0}
    IN  IF free = {} THEN 0 ELSE CHOOSE a \in free : \A b \in free : a <= b

mp1_find_helper(loc) ==
    LET found == SelectSeq(Nodes, LAMBDA a : blink_array[a].location = loc)
    IN  IF found = << >> THEN 0 ELSE Head(found)

mp1_ioctl_add(loc, on, off) ==
    LET a == mp1_malloc
    IN  /\ Called
        /\ IF loc \in Cells /\ a # 0
           THEN /\ blink_array' = [blink_array EXCEPT ![a] = New(loc, on, off)]
                /\ next' = [next EXCEPT ![a] = head]
                /\ head' = a
                /\ screen' = [screen EXCEPT ![loc] = Shown(a, 1)]
                /\ synced' = synced \ {a}
           ELSE UNCHANGED <<blink_array, next, head, screen, synced>>

mp1_free(a) == [blink_array EXCEPT ![a] = Free]

\* Variant: the pointer before is found but the list's head is not one of them.
UnlinkedNext(a) == head' = head /\ next' = [b \in Places |-> IF next[b] = a THEN next[a] ELSE IF b = a THEN 0 ELSE next[b]]

\* The pointer to the node, mp1_list_head or a NEXT, is moved past it.
Unlinked(a) ==
    /\ head' = IF head = a THEN next[a] ELSE head
    /\ next' = [b \in Places |-> IF b = a THEN 0 ELSE IF b \in ToSet(Nodes) /\ next[b] = a THEN next[a] ELSE next[b]]

mp1_ioctl_remove(loc) ==
    LET a == mp1_find_helper(loc)
    IN  /\ Called
        /\ IF a = 0 THEN UNCHANGED <<blink_array, next, head, screen, synced>>
           ELSE /\ Unlinked(a)
                /\ blink_array' = mp1_free(a)
                /\ screen' = Forgotten(screen, a)
                /\ synced' = synced \ {a}

\* The upper half of the argument names the node whose fields are copied.
\* What is poked is always the character of the other phase, off: the
\* conditional move after the test never moves.
mp1_ioctl_sync(loc1, loc2) ==
    LET a == mp1_find_helper(loc1)
        b == mp1_find_helper(loc2)
    IN  /\ Called
        /\ IF a = 0 \/ b = 0 THEN UNCHANGED <<blink_array, screen, synced>>
           ELSE /\ blink_array' = [blink_array EXCEPT ![a] = [blink_array[b] EXCEPT !.location = loc1]]
                /\ screen' = [screen EXCEPT ![loc1] = Shown(a, 0)]
                /\ synced' = synced \cup {a}
        /\ UNCHANGED <<next, head>>

mp1_rtc_tasklet ==
    /\ blink_array' = [a \in Places |-> IF a \in ToSet(Nodes) THEN Ticked(blink_array[a]) ELSE blink_array[a]]
    /\ screen' = ScreenTicked(screen, Nodes, blink_array)
    /\ synced' = {a \in synced : ~Expired(blink_array[a])}
    /\ UNCHANGED <<next, head, calls>>

Next ==
    \/ \E loc \in Locations, <<on, off>> \in Phases : mp1_ioctl_add(loc, on, off)
    \/ \E loc1, loc2 \in Locations : mp1_ioctl_remove(loc1) \/ mp1_ioctl_sync(loc1, loc2)
    \/ mp1_rtc_tasklet

Spec == Init /\ [][Next]_vars

-----------------------------------------------------------------------------
(***************************************************************************)
(* Properties.                                                             *)
(***************************************************************************)

Row == INSTANCE Blinkers WITH Room <- ARRAY, row <- [k \in DOMAIN Nodes |-> blink_array[Nodes[k]]]

(***************************************************************************)
(* Array, free places and pointers together are the row of characters that *)
(* callers rely on: what is removed makes room, nothing else goes, the     *)
(* order stays, and the two halves of RTC_SYNC's argument do what those of *)
(* the kernel's do.                                                        *)
(***************************************************************************)
KeepsRow == Row!Spec

(***************************************************************************)
(* A cell shows the character of the status of the node that wrote it      *)
(* last, unless RTC_SYNC did: it shows the other one, until the node's next *)
(* phase, also when the node is on.                                        *)
(***************************************************************************)
FishShows ==
    \A l \in Cells :
        LET a == screen[l].by
        IN  a # 0 => screen[l].status = IF a \in synced THEN 0 ELSE blink_array[a].status

(* The array of fish, its free places and the pointers in it always make a *)
(* row, the node added last first; and a cell shows the status of the node *)
(* that wrote it last, but off, which may be wrong until the next phase,   *)
(* where RTC_SYNC wrote it (blink.S:49-300).                               *)
FishSafety == []FishShows /\ KeepsRow

=============================================================================
