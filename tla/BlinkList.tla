------------------------------ MODULE BlinkList ------------------------------
(***************************************************************************)
(* The ioctls of mp1.S on the list of blinking characters and the tasklet  *)
(* that the RTC's interrupt schedules.  Nothing keeps the tasklet out of   *)
(* an ioctl, so it may run between any two of an ioctl's instructions;     *)
(* those between which it can be told that it ran are steps of their own.  *)
(***************************************************************************)
EXTENDS BlinkNode

CONSTANTS
    Addresses,  \* what mp1_malloc may return
    LowZero,    \* addresses whose lower 16 bits are zero
    MaxCalls    \* BOUND: calls

BlinkListAssumption ==
    Addresses \subseteq Nat \ {0} /\ IsFiniteSet(Addresses) /\ LowZero \subseteq Addresses

VARIABLES
    mem,        \* the nodes
    next,       \* their NEXT
    head,       \* mp1_list_head
    used,       \* the addresses allocated
    screen,     \* what the cells of the screen show
    pc,         \* "idle", where the ioctl is, or "undefined"
    dst, src,   \* the nodes it works on
    dx,         \* what RTC_SYNC has loaded and not yet stored, as a sequence
    calls,      \* how many ioctls there were
    raced,      \* history: the nodes that the tasklet changed inside an ioctl
    pairs,      \* history: nodes in step since an RTC_SYNC
    age,        \* history: ticks since a node changed its status, or was synced
    plain       \* history: nodes whose times no RTC_SYNC has changed

list == <<mem, next, head, used, screen>>
ioctl == <<pc, dst, src, dx, calls>>
history == <<raced, pairs, age, plain>>
vars == <<list, ioctl, history>>

Null == 0
Nodes == ListFrom(head, next, Addresses)
Linked == ToSet(Nodes)

Init ==
    /\ mem = [a \in Addresses |-> New(0, 0, 0)]
    /\ next = [a \in Addresses |-> Null]
    /\ head = Null /\ used = {}
    /\ screen = [l \in Cells |-> Blank]
    /\ pc = "idle" /\ dst = Null /\ src = Null /\ dx = << >> /\ calls = 0
    /\ raced = {} /\ pairs = {} /\ age = [a \in Addresses |-> 0] /\ plain = {}

\* search_obj: the first node there, or NULL.
search_obj(loc) ==
    LET found == SelectSeq(Nodes, LAMBDA a : mem[a].location = loc)
    IN  IF found = << >> THEN Null ELSE Head(found)

\* The node before one in the list, NULL for the first.
Before(a) == IF head = a THEN Null ELSE CHOOSE b \in Linked : next[b] = a

\* That node with the one before it, NULL and NULL where there is none.
search_objects_pair(loc) ==
    LET a == search_obj(loc) IN [before |-> IF a = Null THEN Null ELSE Before(a), found |-> a]

Called ==
    /\ pc = "idle" /\ calls < MaxCalls
    /\ calls' = calls + 1

Without(a) == {p \in pairs : a \notin p}

-----------------------------------------------------------------------------
(* RTC_ADD.                                                                *)

\* No memory, or the caller's struct cannot be read: nothing is linked yet.
mp1_ioctl_add_fails ==
    /\ Called
    /\ UNCHANGED <<list, pc, dst, src, dx, history>>

\* The node is linked before its location is looked at, and a location
\* outside the screen has it freed while it is in the list.
mp1_ioctl_add(loc, on, off) ==
    /\ Called
    /\ \E a \in Addresses \ used :
        /\ mem' = [mem EXCEPT ![a] = New(loc, on, off)]
        /\ next' = [next EXCEPT ![a] = head]
        /\ head' = a
        /\ dst' = a
        /\ IF loc \in Cells THEN used' = used \cup {a} /\ pc' = "show" ELSE used' = used /\ pc' = "undefined"
        /\ raced' = raced \ {a}
        /\ age' = [age EXCEPT ![a] = 0]
        /\ plain' = plain \cup {a}
    /\ UNCHANGED <<screen, src, dx, pairs>>

ShowNew ==
    /\ pc = "show" /\ pc' = "idle"
    /\ screen' = [screen EXCEPT ![mem[dst].location] = Shown(dst, 1)]
    /\ UNCHANGED <<mem, next, head, used, dst, src, dx, calls, history>>

-----------------------------------------------------------------------------
(* RTC_REMOVE and RTC_FIND.                                                *)

\* Variant: the first node is taken out like any other.
UnlinkedNoHead(before, a) ==
    /\ next' = [b \in Addresses |-> IF next[b] = a THEN next[a] ELSE next[b]]
    /\ UNCHANGED head

Unlinked(before, a) ==
    IF before = Null THEN head' = next[a] /\ UNCHANGED next
    ELSE next' = [next EXCEPT ![before] = next[a]] /\ UNCHANGED head

mp1_ioctl_remove(loc) ==
    LET pair == search_objects_pair(loc)
        a == pair.found
    IN  /\ Called
        /\ a # Null /\ a \notin LowZero
        /\ Unlinked(pair.before, a)
        /\ used' = used \ {a}
        /\ screen' = Forgotten(screen, a)
        /\ pairs' = Without(a) /\ raced' = raced \ {a}
        /\ UNCHANGED <<mem, pc, dst, src, dx, age, plain>>

\* Only the lower half of the address is tested against NULL.
mp1_ioctl_remove_fails(loc) ==
    /\ Called
    /\ search_obj(loc) \in LowZero \cup {Null}
    /\ UNCHANGED <<list, pc, dst, src, dx, history>>

mp1_ioctl_find(loc) ==
    /\ Called
    /\ search_obj(loc) # Null
    /\ UNCHANGED <<list, pc, dst, src, dx, history>>

\* The failing path runs into mp1_ioctl_sync with a stack that is not its own:
\* where nothing is there, and in the kernel always, for mp1_copy_from_user is
\* given the kernel's node to copy from.
mp1_ioctl_find_fails(loc) ==
    /\ Called
    /\ pc' = "undefined"
    /\ UNCHANGED <<list, dst, src, dx, history>>

-----------------------------------------------------------------------------
(* RTC_SYNC.                                                               *)

mp1_ioctl_sync(loc1, loc2) ==
    /\ Called
    /\ search_obj(loc1) # Null /\ search_obj(loc2) # Null
    /\ dst' = search_obj(loc1) /\ src' = search_obj(loc2)
    /\ pc' = "status"
    /\ pairs' = IF dst' = src' THEN pairs ELSE Without(dst') \cup {{dst', src'}}
    /\ plain' = IF dst' = src' THEN plain ELSE plain \ {dst'}
    /\ UNCHANGED <<list, dx, raced, age>>

mp1_ioctl_sync_fails(loc1, loc2) ==
    /\ Called
    /\ search_obj(loc1) = Null \/ search_obj(loc2) = Null
    /\ UNCHANGED <<list, pc, dst, src, dx, history>>

\* One field after another, each loaded and then stored.
Following == [status |-> "countdown", countdown |-> "off", off |-> "on", on |-> "test"]

\* Variant: the length of the other phase is left as it is.
CopiedNoOff(field) == IF field = "off" THEN mem[dst].off ELSE mem[src][field]

Copied(field) == mem[src][field]

Load ==
    /\ pc \in DOMAIN Following /\ dx = << >>
    /\ dx' = <<Copied(pc)>>
    /\ UNCHANGED <<list, pc, dst, src, calls, history>>

Store ==
    /\ pc \in DOMAIN Following /\ dx # << >>
    /\ mem' = [mem EXCEPT ![dst][pc] = dx[1]]
    /\ dx' = << >>
    /\ pc' = Following[pc]
    /\ age' = IF pc = "countdown" /\ dst \notin plain THEN [age EXCEPT ![dst] = 0] ELSE age
    /\ UNCHANGED <<next, head, used, screen, dst, src, calls, raced, pairs, plain>>

\* STATUS decides between the two ways, of which one has begun when the tasklet may come.
Choose ==
    /\ pc = "test"
    /\ pc' = IF mem[dst].status = 1 THEN "poke on" ELSE "poke off"
    /\ UNCHANGED <<list, dst, src, dx, calls, history>>

\* Variant: the new status is not shown.
PokeNone ==
    /\ pc \in {"poke on", "poke off"}
    /\ pc' = "idle"
    /\ UNCHANGED <<list, dst, src, dx, calls, history>>

Poke ==
    /\ pc \in {"poke on", "poke off"}
    /\ screen' = [screen EXCEPT ![mem[dst].location] = Shown(dst, IF pc = "poke on" THEN 1 ELSE 0)]
    /\ pc' = "idle"
    /\ UNCHANGED <<mem, next, head, used, dst, src, dx, calls, history>>

-----------------------------------------------------------------------------
(* The tasklet.                                                            *)

\* RTC_SYNC has loaded and has still to store.
Copying == pc \in DOMAIN Following /\ (pc = "status" => dx # << >>)

mp1_rtc_tasklet ==
    LET linked == Linked
        blinking == {a \in linked : Expired(mem[a])}
    IN  /\ pc # "undefined"
        /\ mem' = [a \in Addresses |-> IF a \in linked THEN Ticked(mem[a]) ELSE mem[a]]
        /\ screen' = ScreenTicked(screen, Nodes, mem)
        /\ raced' = IF pc = "idle" THEN raced \ blinking
                    ELSE (raced \ blinking) \cup {dst}
        /\ pairs' = IF Copying THEN Without(dst) ELSE pairs
        /\ plain' = IF Copying THEN plain \ {dst} ELSE plain
        /\ age' = [a \in Addresses |-> IF a \in linked \ blinking THEN age[a] + 1 ELSE 0]
        /\ UNCHANGED <<next, head, used, ioctl>>

Calls ==
    \/ mp1_ioctl_add_fails
    \/ \E loc \in Locations, <<on, off>> \in Phases : mp1_ioctl_add(loc, on, off)
    \/ \E loc \in Locations : mp1_ioctl_remove(loc) \/ mp1_ioctl_remove_fails(loc) \/ mp1_ioctl_find(loc) \/ mp1_ioctl_find_fails(loc)
    \/ \E loc1, loc2 \in Locations : mp1_ioctl_sync(loc1, loc2) \/ mp1_ioctl_sync_fails(loc1, loc2)

Steps == ShowNew \/ Load \/ Store \/ Choose \/ Poke

Next == Calls \/ Steps \/ mp1_rtc_tasklet

Spec == Init /\ [][Next]_vars

-----------------------------------------------------------------------------
(***************************************************************************)
(* Properties.                                                             *)
(***************************************************************************)

(***************************************************************************)
(* The list holds the nodes that are allocated, each once: none is lost,   *)
(* and none is reached after it was freed, except when RTC_ADD has freed   *)
(* the node it had linked, which ends in what is undefined.                *)
(***************************************************************************)
ListSound == pc # "undefined" => Linked = used /\ Len(Nodes) = Cardinality(used)

(***************************************************************************)
(* A cell shows the character of the status of the node that wrote it      *)
(* last, unless the tasklet came into an ioctl on that node: then the cell *)
(* may be wrong, but only until the node's next phase.                     *)
(***************************************************************************)
ShowsStatus ==
    pc = "idle" => \A l \in Cells :
        LET a == screen[l].by
        IN  a # Null /\ a \notin raced => screen[l].status = mem[a].status

(***************************************************************************)
(* Two nodes that were synced stay in step for ever, if no tick came from  *)
(* the first load of RTC_SYNC to its last store and neither was synced to  *)
(* another since.                                                          *)
(***************************************************************************)
InStep ==
    pc \notin DOMAIN Following => \A p \in pairs : \A a, b \in p : [mem[a] EXCEPT !.location = 0] = [mem[b] EXCEPT !.location = 0]

Lasts(length) == IF length \in 1 .. HALF THEN length ELSE 1

(***************************************************************************)
(* A phase lasts as many ticks as its length says, or one tick when the    *)
(* length is zero or more than half of what 16 bits hold, for a node that  *)
(* was never synced to another, nor to itself while a tick came.           *)
(***************************************************************************)
KeepsTime ==
    [][\A a \in used \cap used' \cap plain' :
        mem'[a].status # mem[a].status
            => age[a] + 1 = Lasts(IF mem[a].status = 1 THEN mem[a].on ELSE mem[a].off)]_vars

(***************************************************************************)
(* Every node in the list goes on changing its phase, within as many ticks *)
(* as 16 bits can ask for, whatever lengths it was given, zero and         *)
(* negative ones too, and whenever the tasklet came into an RTC_SYNC.      *)
(***************************************************************************)
Blinks == [](\A a \in used : age[a] < HALF)

(* The list is whole whatever is added, found, removed and refused, its    *)
(* nodes are in step with their partners, and cells show what they say     *)
(* (mp1.S:40-330).                                                         *)
BlinkSafety == ListSound /\ ShowsStatus /\ InStep

(* Phases last as long as they were asked to and never stop following each *)
(* other (mp1.S:50-75).                                                    *)
BlinksInTime == KeepsTime /\ Blinks

=============================================================================
