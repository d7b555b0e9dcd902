------------------------------ MODULE Blinkers ------------------------------
(***************************************************************************)
(* What a program that uses the ioctls of mp1 relies on: a row of blinking *)
(* characters, the newest first, of which RTC_REMOVE and RTC_SYNC take the *)
(* first at a location, and which all tick together.                       *)
(***************************************************************************)
EXTENDS BlinkNode

CONSTANT Room   \* how many there may be

VARIABLE row

Init == row = << >>

At(loc) == {k \in DOMAIN row : row[k].location = loc}
First(loc) == CHOOSE k \in At(loc) : \A j \in At(loc) : k <= j

RTC_ADD(loc, on, off) ==
    /\ Len(row) < Room /\ loc < SCREEN
    /\ row' = <<New(loc, on, off)>> \o row

RTC_REMOVE(loc) ==
    /\ At(loc) # {}
    /\ row' = RemoveAt(row, First(loc))

RTC_SYNC(loc1, loc2) ==
    /\ At(loc1) # {} /\ At(loc2) # {}
    /\ row' = [row EXCEPT ![First(loc1)] = [row[First(loc2)] EXCEPT !.location = loc1]]

Tick == row' = [k \in DOMAIN row |-> Ticked(row[k])]

Next ==
    \/ \E loc \in Locations, <<on, off>> \in Phases : RTC_ADD(loc, on, off)
    \/ \E loc1, loc2 \in Locations : RTC_REMOVE(loc1) \/ RTC_SYNC(loc1, loc2)
    \/ Tick

Spec == Init /\ [][Next]_row

=============================================================================
