---- MODULE MCTux ----
(* The halves of the line discipline, and the three drivers of the         *)
(* repository at the same controller: a behaviour runs one of these and    *)
(* the others rest.  What a driver does not have keeps its first value.    *)
EXTENDS TuxTransmit, SequenceTheorems, FiniteSetTheorems, TLAPS

CONSTANTS RX_BUFSIZE, PACKET_SIZE, MaxChunk, MaxReceived, MaxOpens, MaxResets, MaxChanges, MaxCalls, Words, Times

ASSUME TimesAssumption == Times \subseteq Nat

VARIABLES
    part,
    disc_data, rx_buf, rx_start, rx_end, saved, buttons, resets, opens, came, kept,   \* of TuxReceive
    toDevice, toHost, device, pressed, restarts, changes, reported,    \* of TuxController
    button_info, stored, driver, arg, calls,                           \* of all drivers
    readledval, readledconf, read, polled,                             \* of TuxPoll
    ack, inits, early                                                  \* of TuxAck

Receive == INSTANCE TuxReceive WITH TUXCTL_BUFSIZE <- RX_BUFSIZE, MaxBytes <- MaxReceived

Tux == INSTANCE TuxController WITH resets <- restarts

Current == INSTANCE TuxCurrent WITH
    resets <- restarts, buttons <- button_info, pc <- driver, LED <- stored, MaxResets <- 2

Poll == INSTANCE TuxPoll WITH
    resets <- restarts, buttons <- button_info, pc <- driver, ledstatus <- stored

WithAck == INSTANCE TuxAck WITH
    resets <- restarts, pc <- driver, time_backup <- stored

receiving == <<disc_data, rx_buf, rx_start, rx_end, saved, buttons, resets, opens, came, kept>>
controller == <<toDevice, toHost, device, pressed, restarts, changes, reported>>
ofPoll == <<readledval, readledconf, read, polled>>
ofAck == <<ack, inits, early>>
drivers == <<controller, button_info, stored, driver, arg, calls, ofPoll, ofAck>>
all == <<part, vars, receiving, drivers>>

NoPoll == readledval = {} /\ readledconf = 0 /\ read = {} /\ polled = Tux!Off.leds
NoAck == ack = 0 /\ inits = 0 /\ early = FALSE

MCInit ==
    /\ Init /\ Receive!Init
    /\ \/ part \in {"transmit", "receive", "current"} /\ Current!Init /\ NoPoll /\ NoAck
       \/ part = "poll" /\ Poll!Init /\ NoAck
       \/ part = "ack" /\ WithAck!Init /\ NoPoll

Transmitting(A) == part = "transmit" /\ A /\ UNCHANGED <<part, receiving, drivers>>
Receiving == part = "receive" /\ Receive!Next /\ UNCHANGED <<part, vars, drivers>>
In(p, A, rest) == part = p /\ A /\ UNCHANGED <<part, rest, vars, receiving>>

MCNext ==
    \/ Transmitting(Next) \/ Receiving
    \/ In("current", Current!Next, <<ofPoll, ofAck>>)
    \/ In("poll", Poll!Next, ofAck)
    \/ In("ack", WithAck!Next, ofPoll)

\* Interrupts are served, the program goes on, and the controller obeys.
Handle == In("poll", Poll!Handle, ofAck) \/ In("ack", WithAck!Handle, ofPoll)
Program == In("poll", Poll!ProgramSteps, ofAck) \/ In("ack", WithAck!ProgramSteps, ofPoll)
Controller == Tux!Obey /\ (In("poll", Poll!Device, ofAck) \/ In("ack", WithAck!Device, ofPoll))

MCSpec ==
    /\ MCInit /\ [][MCNext]_all
    /\ WF_all(Transmitting(IoctlSteps)) /\ WF_all(Transmitting(SerialInterrupt))
    /\ WF_all(Handle) /\ WF_all(Program) /\ WF_all(Controller)

MCWords == {{1, 4, 16, 17, 24}}

(* Packets come in whole: TuxReceive's ReceiveSafety (tuxctl-ld.c:110-318). *)
ReceivedWhole == Receive!ReceiveSafety

(* What either half loses is what its partner had no room for: the driver  *)
(* one byte of a wakeup, the ring what comes behind a chunk too long       *)
(* (tuxctl-ld.c:182-220).                                                  *)
LossesKnown == LossBounded /\ Receive!NoneDropped

(* What a driver tells of buttons and shows on LEDs is what it was told:   *)
(* TuxCurrent's CurrentSafety, TuxPoll's PollSafety and TuxAck's AckSafety *)
(* (tuxctl-ioctl.c of mp2_ssbonde2 and of the two in originals).           *)
DriverSafety ==
    /\ part = "current" => Current!CurrentSafety
    /\ part = "poll" => Poll!PollSafety
    /\ part = "ack" => WithAck!AckSafety

\* A byte, a program that reads the LEDs, or a driver whose command is out.
Waits ==
    \/ part = "transmit" /\ Underway
    \/ part = "poll" /\ Poll!AnswerDue
    \/ part = "ack" /\ WithAck!AckDue

(* Whoever waits is served: bytes leave and answers come (tuxctl-ld.c:189, *)
(* originals' input.c:263 and tuxctl-ioctl.c:55).                          *)
Answered == Waits ~> ~Waits

(***************************************************************************)
(* Proofs of SendSafety and LossBounded, for all values of the constants.  *)
(* SendInv (TuxTransmit) is inductive: what is on its way is one sequence, *)
(* that each step extends, cuts in two or leaves as it is.                 *)
(***************************************************************************)

(* The bytes of two sequences joined, and when none is twice and all rise. *)
LEMMA Joined ==
    ASSUME NEW s \in Seq(Nat), NEW t \in Seq(Nat)
    PROVE  /\ s \o t \in Seq(Nat)
           /\ Len(s \o t) = Len(s) + Len(t)
           /\ Bytes(s \o t) = Bytes(s) \cup Bytes(t)
           /\ Distinct(s \o t) <=> Distinct(s) /\ Distinct(t) /\ Bytes(s) \cap Bytes(t) = {}
           /\ Rising(s \o t) <=> /\ Rising(s) /\ Rising(t)
                                 /\ \A a \in Bytes(s), b \in Bytes(t) : a < b
<1> DEFINE m == Len(s)
           n == Len(t)
           u == s \o t
<1>1. /\ m \in Nat /\ n \in Nat /\ u \in Seq(Nat) /\ Len(u) = m + n
      /\ DOMAIN s = 1 .. m /\ DOMAIN t = 1 .. n /\ DOMAIN u = 1 .. m + n
    BY ConcatProperties, LenProperties
<1>2. \A i \in 1 .. m + n : u[i] = IF i <= m THEN s[i] ELSE t[i - m]
    BY ConcatProperties
<1> HIDE DEF m, n, u
<1>3. ASSUME NEW i \in 1 .. m PROVE i \in 1 .. m + n /\ u[i] = s[i]
    BY <1>1, <1>2
<1>4. ASSUME NEW i \in 1 .. n
      PROVE  m + i \in 1 .. m + n /\ u[m + i] = t[i] /\ \A j \in 1 .. m : j # m + i /\ j < m + i
    <2>1. m + i \in 1 .. m + n /\ ~(m + i <= m) /\ (m + i) - m = i
        BY <1>1
    <2> QED
        BY <1>1, <1>2, <2>1
<1>5. ASSUME NEW i \in 1 .. m + n, i \notin 1 .. m
      PROVE  i - m \in 1 .. n /\ u[i] = t[i - m]
    <2>1. i - m \in 1 .. n /\ ~(i <= m)
        BY <1>1, <1>5
    <2> QED
        BY <1>2, <2>1
<1>6. Bytes(u) = Bytes(s) \cup Bytes(t)
    <2>1. \A x \in Bytes(u) : x \in Bytes(s) \cup Bytes(t)
        <3> TAKE x \in Bytes(u)
        <3>1. PICK i \in 1 .. m + n : x = u[i]
            BY <1>1 DEF Bytes
        <3>2. CASE i \in 1 .. m
            BY <1>1, <1>3, <3>1, <3>2 DEF Bytes
        <3>3. CASE i \notin 1 .. m
            BY <1>1, <1>5, <3>1, <3>3 DEF Bytes
        <3> QED
            BY <3>2, <3>3
    <2>2. \A x \in Bytes(s) : x \in Bytes(u)
        BY <1>1, <1>3 DEF Bytes
    <2>3. \A x \in Bytes(t) : x \in Bytes(u)
        <3> TAKE x \in Bytes(t)
        <3>1. PICK i \in 1 .. n : x = t[i]
            BY <1>1 DEF Bytes
        <3>2. m + i \in DOMAIN u /\ x = u[m + i]
            BY <1>1, <1>4, <3>1
        <3> QED
            BY <3>2 DEF Bytes
    <2> QED
        BY <2>1, <2>2, <2>3
<1>7. Distinct(u) <=> Distinct(s) /\ Distinct(t) /\ Bytes(s) \cap Bytes(t) = {}
    <2>1. ASSUME Distinct(u) PROVE Distinct(s)
        BY <1>1, <1>3, <2>1 DEF Distinct
    <2>2. ASSUME Distinct(u), NEW i \in 1 .. n, NEW j \in 1 .. n, i # j PROVE t[i] # t[j]
        <3>1. m + i \in DOMAIN u /\ m + j \in DOMAIN u /\ m + i # m + j
            BY <1>1, <1>4, <2>2
        <3> QED
            BY <1>4, <2>2, <3>1 DEF Distinct
    <2>3. ASSUME Distinct(u), NEW i \in 1 .. m, NEW j \in 1 .. n PROVE s[i] # t[j]
        <3>1. i \in DOMAIN u /\ m + j \in DOMAIN u /\ i # m + j
            BY <1>1, <1>3, <1>4
        <3> QED
            BY <1>3, <1>4, <2>3, <3>1 DEF Distinct
    <2>4. ASSUME Distinct(s), Distinct(t), Bytes(s) \cap Bytes(t) = {},
                 NEW i \in 1 .. m + n, NEW j \in 1 .. m + n, i # j
          PROVE  u[i] # u[j]
        <3>1. \A k \in 1 .. m, l \in 1 .. n : s[k] # t[l]
            BY <1>1, <2>4 DEF Bytes
        <3>2. CASE i \in 1 .. m /\ j \in 1 .. m
            BY <1>1, <1>3, <2>4, <3>2 DEF Distinct
        <3>3. CASE i \in 1 .. m /\ j \notin 1 .. m
            BY <1>3, <1>5, <3>1, <3>3
        <3>4. CASE i \notin 1 .. m /\ j \in 1 .. m
            BY <1>3, <1>5, <3>1, <3>4
        <3>5. CASE i \notin 1 .. m /\ j \notin 1 .. m
            <4>1. i - m # j - m
                BY <1>1, <2>4
            <4> QED
                BY <1>1, <1>5, <2>4, <3>5, <4>1 DEF Distinct
        <3> QED
            BY <3>2, <3>3, <3>4, <3>5
    <2>5. Distinct(u) => Distinct(t)
        BY <1>1, <2>2 DEF Distinct
    <2>6. Distinct(u) => Bytes(s) \cap Bytes(t) = {}
        BY <1>1, <2>3 DEF Bytes
    <2>7. Distinct(s) /\ Distinct(t) /\ Bytes(s) \cap Bytes(t) = {} => Distinct(u)
        BY <1>1, <2>4 DEF Distinct
    <2> QED
        BY <2>1, <2>5, <2>6, <2>7
<1>8. Rising(u) <=> /\ Rising(s) /\ Rising(t)
                    /\ \A a \in Bytes(s), b \in Bytes(t) : a < b
    <2>1. ASSUME Rising(u), NEW i \in 1 .. m, NEW j \in 1 .. m, i < j PROVE s[i] < s[j]
        BY <1>1, <1>3, <2>1 DEF Rising
    <2>2. ASSUME Rising(u), NEW i \in 1 .. n, NEW j \in 1 .. n, i < j PROVE t[i] < t[j]
        <3>1. m + i \in DOMAIN u /\ m + j \in DOMAIN u /\ m + i < m + j
            BY <1>1, <1>4, <2>2
        <3> QED
            BY <1>4, <2>2, <3>1 DEF Rising
    <2>3. ASSUME Rising(u), NEW i \in 1 .. m, NEW j \in 1 .. n PROVE s[i] < t[j]
        <3>1. i \in DOMAIN u /\ m + j \in DOMAIN u /\ i < m + j
            BY <1>1, <1>3, <1>4
        <3> QED
            BY <1>3, <1>4, <2>3, <3>1 DEF Rising
    <2>4. ASSUME Rising(s), Rising(t), \A a \in Bytes(s), b \in Bytes(t) : a < b,
                 NEW i \in 1 .. m + n, NEW j \in 1 .. m + n, i < j
          PROVE  u[i] < u[j]
        <3>1. \A k \in 1 .. m, l \in 1 .. n : s[k] < t[l]
            BY <1>1, <2>4 DEF Bytes
        <3>2. CASE i \in 1 .. m /\ j \in 1 .. m
            BY <1>1, <1>3, <2>4, <3>2 DEF Rising
        <3>3. CASE i \in 1 .. m /\ j \notin 1 .. m
            BY <1>3, <1>5, <3>1, <3>3
        <3>4. ~(i \notin 1 .. m /\ j \in 1 .. m)
            BY <1>1, <2>4
        <3>5. CASE i \notin 1 .. m /\ j \notin 1 .. m
            <4>1. i - m < j - m
                BY <1>1, <2>4
            <4> QED
                BY <1>1, <1>5, <2>4, <3>5, <4>1 DEF Rising
        <3> QED
            BY <3>2, <3>3, <3>4, <3>5
    <2>5. Rising(u) => Rising(s) /\ Rising(t)
        BY <1>1, <2>1, <2>2 DEF Rising
    <2>6. Rising(u) => \A a \in Bytes(s), b \in Bytes(t) : a < b
        BY <1>1, <2>3 DEF Bytes
    <2>7. Rising(s) /\ Rising(t) /\ (\A a \in Bytes(s), b \in Bytes(t) : a < b) => Rising(u)
        BY <1>1, <2>4 DEF Rising
    <2> QED
        BY <2>5, <2>6, <2>7
<1> QED
    BY <1>1, <1>6, <1>7, <1>8 DEF m, n, u

(* A number less than twice the divisor.                                   *)
LEMMA RemainderIs ==
    ASSUME NEW b \in Nat \ {0}, NEW r \in 0 .. b - 1
    PROVE  r % b = r /\ (b + r) % b = r
OBVIOUS

(* An index moved around.                                                  *)
LEMMA MovedIs ==
    ASSUME NEW i \in Places, NEW n \in 0 .. TUXCTL_BUFSIZE
    PROVE  /\ Moved(i, n) = IF i + n < TUXCTL_BUFSIZE THEN i + n ELSE i + n - TUXCTL_BUFSIZE
           /\ Moved(i, n) \in Places
<1>1. TUXCTL_BUFSIZE \in Nat \ {0, 1} /\ i \in 0 .. TUXCTL_BUFSIZE - 1
    BY TuxRingAssumption DEF Places
<1>2. CASE i + n < TUXCTL_BUFSIZE
    <2>1. i + n \in 0 .. TUXCTL_BUFSIZE - 1
        BY <1>1, <1>2
    <2> QED
        BY <1>1, <1>2, <2>1, RemainderIs DEF Moved, Places
<1>3. CASE ~(i + n < TUXCTL_BUFSIZE)
    <2> DEFINE r == i + n - TUXCTL_BUFSIZE
    <2>1. r \in 0 .. TUXCTL_BUFSIZE - 1 /\ i + n = TUXCTL_BUFSIZE + r
        BY <1>1, <1>3
    <2> HIDE DEF r
    <2>2. (i + n) % TUXCTL_BUFSIZE = r
        BY <1>1, <2>1, RemainderIs
    <2> QED
        BY <1>3, <2>1, <2>2 DEF Moved, Places, r
<1> QED
    BY <1>2, <1>3

(* What is taken is a sequence of what the ring holds.                     *)
LEMMA TakenIs ==
    ASSUME NEW b \in [Places -> Nat], NEW start \in Places, NEW n \in 0 .. TUXCTL_BUFSIZE
    PROVE  /\ Taken(b, start, n) \in Seq(Nat) /\ Len(Taken(b, start, n)) = n
           /\ \A k \in 1 .. n : Taken(b, start, n)[k] = b[Moved(start, k - 1)]
<1>1. \A k \in 1 .. n : k - 1 \in 0 .. TUXCTL_BUFSIZE
    BY TuxRingAssumption
<1>2. n \in Nat
    BY TuxRingAssumption
<1>3. \A k \in 1 .. n : b[Moved(start, k - 1)] \in Nat
    BY <1>1, MovedIs
<1>4. Taken(b, start, n) \in Seq(Nat)
    BY <1>2, <1>3, IsASeq DEF Taken
<1> QED
    BY <1>2, <1>4, LenProperties DEF Taken

(* How much a ring holds, and how that changes.                            *)
LEMMA UsedIs ==
    ASSUME NEW start \in Places, NEW end \in Places
    PROVE  /\ buf_used(start, end) \in 0 .. TUXCTL_BUFSIZE - 1
           /\ Room(start, end) = TUXCTL_BUFSIZE - 1 - buf_used(start, end)
           /\ buf_used(start, end) = 0 <=> start = end
           /\ \A m \in 0 .. Room(start, end) : buf_used(start, Moved(end, m)) = buf_used(start, end) + m
           /\ \A n \in 0 .. buf_used(start, end) : buf_used(Moved(start, n), end) = buf_used(start, end) - n
<1>1. /\ buf_used(start, end) \in 0 .. TUXCTL_BUFSIZE - 1
      /\ Room(start, end) = TUXCTL_BUFSIZE - 1 - buf_used(start, end)
      /\ buf_used(start, end) = 0 <=> start = end
    BY TuxRingAssumption DEF Places, buf_used, Room
<1>2. ASSUME NEW m \in 0 .. Room(start, end)
      PROVE  buf_used(start, Moved(end, m)) = buf_used(start, end) + m
    <2>1. m \in 0 .. TUXCTL_BUFSIZE
        BY <1>1, TuxRingAssumption
    <2>2. Moved(end, m) = IF end + m < TUXCTL_BUFSIZE THEN end + m ELSE end + m - TUXCTL_BUFSIZE
        BY <2>1, MovedIs
    <2> QED
        BY <1>1, <2>2, TuxRingAssumption DEF Places, buf_used
<1>3. ASSUME NEW n \in 0 .. buf_used(start, end)
      PROVE  buf_used(Moved(start, n), end) = buf_used(start, end) - n
    <2>1. n \in 0 .. TUXCTL_BUFSIZE
        BY <1>1, TuxRingAssumption
    <2>2. Moved(start, n) = IF start + n < TUXCTL_BUFSIZE THEN start + n ELSE start + n - TUXCTL_BUFSIZE
        BY <2>1, MovedIs
    <2> QED
        BY <1>1, <2>2, TuxRingAssumption DEF Places, buf_used
<1> QED
    BY <1>1, <1>2, <1>3

(* Bytes put are behind those that are there.                              *)
LEMMA PutIs ==
    ASSUME NEW b \in [Places -> Nat], NEW start \in Places, NEW end \in Places,
           NEW bytes \in Seq(Nat), Len(bytes) <= Room(start, end)
    PROVE  LET used == buf_used(start, end)
               m == Len(bytes)
           IN  /\ Put(b, end, bytes) \in [Places -> Nat]
               /\ Taken(Put(b, end, bytes), start, used + m) = Taken(b, start, used) \o bytes
<1> DEFINE used == buf_used(start, end)
           m == Len(bytes)
           after == Put(b, end, bytes)
           at(p) == IF p >= end THEN p - end ELSE p - end + TUXCTL_BUFSIZE
<1>1. /\ TUXCTL_BUFSIZE \in Nat \ {0, 1} /\ m \in Nat /\ used \in 0 .. TUXCTL_BUFSIZE - 1
      /\ used + m \in 0 .. TUXCTL_BUFSIZE - 1 /\ used + m \in 0 .. TUXCTL_BUFSIZE /\ used \in 0 .. TUXCTL_BUFSIZE
      /\ used = IF start <= end THEN end - start ELSE TUXCTL_BUFSIZE + end - start
    BY UsedIs, LenProperties, TuxRingAssumption DEF buf_used
<1>b. bytes \in Seq(Nat) /\ Len(bytes) = m
    OBVIOUS
<1> HIDE DEF used, m
<1>2. ASSUME NEW p \in Places
      PROVE  /\ after[p] = IF at(p) < m THEN bytes[at(p) + 1] ELSE b[p]
             /\ at(p) \in 0 .. TUXCTL_BUFSIZE - 1
    <2>1. (p - end + TUXCTL_BUFSIZE) % TUXCTL_BUFSIZE = at(p)
        <3>1. CASE p >= end
            <4>1. p - end \in Places /\ TUXCTL_BUFSIZE \in 0 .. TUXCTL_BUFSIZE /\ (p - end) + TUXCTL_BUFSIZE = p - end + TUXCTL_BUFSIZE
                BY <1>1, <3>1 DEF Places
            <4>2. Moved(p - end, TUXCTL_BUFSIZE) = p - end
                BY <1>1, <4>1, MovedIs DEF Places
            <4> QED
                BY <3>1, <4>1, <4>2 DEF Moved
        <3>2. CASE p < end
            <4>1. p - end + TUXCTL_BUFSIZE \in Places /\ 0 \in 0 .. TUXCTL_BUFSIZE /\ (p - end + TUXCTL_BUFSIZE) + 0 = p - end + TUXCTL_BUFSIZE
                BY <1>1, <3>2 DEF Places
            <4>2. Moved(p - end + TUXCTL_BUFSIZE, 0) = p - end + TUXCTL_BUFSIZE
                BY <1>1, <4>1, MovedIs DEF Places
            <4> QED
                BY <3>2, <4>1, <4>2 DEF Moved, Places
        <3> QED
            BY <3>1, <3>2 DEF Places
    <2>2. after[p] = LET k == (p - end + TUXCTL_BUFSIZE) % TUXCTL_BUFSIZE
                     IN  IF k < m THEN bytes[k + 1] ELSE b[p]
        BY <1>b DEF Put
    <2>3. at(p) \in 0 .. TUXCTL_BUFSIZE - 1
        BY <1>1 DEF Places
    <2> QED
        BY <2>1, <2>2, <2>3
<1>3. DOMAIN after = Places
    BY DEF Put
<1>4. \A k \in 1 .. m : bytes[k] \in Nat
    BY <1>b, ElementOfSeq
<1>5. after \in [Places -> Nat]
    <2>1. after = [p \in Places |-> after[p]]
        BY <1>3 DEF Put
    <2> HIDE DEF after
    <2>2. ASSUME NEW p \in Places PROVE after[p] \in Nat
        <3> HIDE DEF at
        <3>1. at(p) < m => at(p) + 1 \in 1 .. m
            BY <1>1, <1>2, SMTT(60)
        <3> QED
            BY <1>2, <1>4, <3>1
    <2> QED
        BY <2>1, <2>2
<1> DEFINE new == Taken(after, start, used + m)
           old == Taken(b, start, used)
<1>6. new \in Seq(Nat) /\ Len(new) = used + m /\ \A k \in 1 .. used + m : new[k] = after[Moved(start, k - 1)]
    BY <1>1, <1>5, TakenIs, ZenonT(60)
<1>7. /\ old \in Seq(Nat) /\ Len(old) = used /\ \A k \in 1 .. used : old[k] = b[Moved(start, k - 1)]
    BY <1>1, TakenIs
<1> HIDE DEF new, old, after
<1>8. /\ old \o bytes \in Seq(Nat) /\ Len(old \o bytes) = used + m
      /\ \A k \in 1 .. used + m : (old \o bytes)[k] = IF k <= used THEN old[k] ELSE bytes[k - used]
    BY <1>b, <1>7, ConcatProperties, ZenonT(60)
<1>9. ASSUME NEW k \in 1 .. used + m PROVE new[k] = (old \o bytes)[k]
    <2> DEFINE p == Moved(start, k - 1)
    <2>0. k - 1 \in 0 .. TUXCTL_BUFSIZE
        BY <1>1
    <2>1. /\ k - 1 \in 0 .. TUXCTL_BUFSIZE /\ p \in Places
          /\ p = IF start + (k - 1) < TUXCTL_BUFSIZE THEN start + (k - 1) ELSE start + (k - 1) - TUXCTL_BUFSIZE
        BY <2>0, MovedIs
    <2> HIDE DEF p
    <2>2. CASE k <= used
        <3>1. at(p) = k - 1 - used + TUXCTL_BUFSIZE
            BY <1>1, <2>1, <2>2 DEF Places
        <3> HIDE DEF at
        <3>2. ~(at(p) < m)
            BY <1>1, <3>1, SMTT(60)
        <3>3. new[k] = b[p]
            BY <1>2, <1>6, <2>1, <3>2 DEF p
        <3>4. k \in 1 .. used
            BY <1>1, <2>2
        <3> QED
            BY <1>7, <1>8, <2>2, <3>3, <3>4 DEF p
    <2>3. CASE ~(k <= used)
        <3>1. at(p) = k - 1 - used
            BY <1>1, <2>1, <2>3 DEF Places
        <3> HIDE DEF at
        <3>2. at(p) < m /\ at(p) + 1 = k - used
            BY <1>1, <2>3, <3>1, SMTT(60)
        <3>3. new[k] = bytes[k - used]
            BY <1>2, <1>6, <2>1, <3>2 DEF p
        <3>4. ~(k <= used)
            BY <1>1, <2>3
        <3> QED
            BY <1>8, <3>3, <3>4
    <2> QED
        BY <2>2, <2>3
<1>10. new = old \o bytes
    BY <1>6, <1>8, <1>9, SeqEqual
<1> QED
    BY <1>5, <1>10 DEF new, old, after, m, used

(* Taking the first leaves the others.                                     *)
LEMMA TakenInTwo ==
    ASSUME NEW b \in [Places -> Nat], NEW start \in Places,
           NEW used \in 0 .. TUXCTL_BUFSIZE - 1, NEW n \in 0 .. used
    PROVE  Taken(b, start, used) = Taken(b, start, n) \o Taken(b, Moved(start, n), used - n)
<1> DEFINE whole == Taken(b, start, used)
           first == Taken(b, start, n)
           rest == Taken(b, Moved(start, n), used - n)
<1>1. /\ TUXCTL_BUFSIZE \in Nat \ {0, 1} /\ n \in Nat /\ used \in Nat /\ used - n \in Nat
      /\ n \in 0 .. TUXCTL_BUFSIZE /\ used \in 0 .. TUXCTL_BUFSIZE /\ used - n \in 0 .. TUXCTL_BUFSIZE /\ n + (used - n) = used
    BY TuxRingAssumption
<1>2. Moved(start, n) \in Places
    BY <1>1, MovedIs
<1>3. whole \in Seq(Nat) /\ Len(whole) = used /\ \A k \in 1 .. used : whole[k] = b[Moved(start, k - 1)]
    BY <1>1, TakenIs
<1>4. first \in Seq(Nat) /\ Len(first) = n /\ \A k \in 1 .. n : first[k] = b[Moved(start, k - 1)]
    BY <1>1, TakenIs
<1>5. /\ rest \in Seq(Nat) /\ Len(rest) = used - n
      /\ \A k \in 1 .. used - n : rest[k] = b[Moved(Moved(start, n), k - 1)]
    BY <1>1, <1>2, TakenIs
<1> HIDE DEF whole, first, rest
<1>6. /\ first \o rest \in Seq(Nat) /\ Len(first \o rest) = used
      /\ \A k \in 1 .. used : (first \o rest)[k] = IF k <= n THEN first[k] ELSE rest[k - n]
    <2>1. /\ first \o rest \in Seq(Nat) /\ Len(first \o rest) = Len(first) + Len(rest)
          /\ \A k \in 1 .. Len(first) + Len(rest) :
                (first \o rest)[k] = IF k <= Len(first) THEN first[k] ELSE rest[k - Len(first)]
        BY <1>4, <1>5, ConcatProperties
    <2>2. Len(first) = n /\ Len(first) + Len(rest) = used
        BY <1>1, <1>4, <1>5
    <2> QED
        BY <2>1, <2>2
<1>7. ASSUME NEW k \in 1 .. used PROVE whole[k] = (first \o rest)[k]
    <2>1. CASE k <= n
        <3>1. k \in 1 .. n
            BY <1>1, <2>1
        <3> QED
            BY <1>3, <1>4, <1>6, <2>1, <3>1
    <2>2. CASE ~(k <= n)
        <3>1. k - n \in 1 .. used - n /\ ~(k <= n) /\ k - 1 \in 0 .. TUXCTL_BUFSIZE /\ (k - n) - 1 \in 0 .. TUXCTL_BUFSIZE
            BY <1>1, <2>2
        <3>2. /\ Moved(start, n) = IF start + n < TUXCTL_BUFSIZE THEN start + n ELSE start + n - TUXCTL_BUFSIZE
              /\ Moved(start, k - 1) = IF start + (k - 1) < TUXCTL_BUFSIZE THEN start + (k - 1) ELSE start + (k - 1) - TUXCTL_BUFSIZE
              /\ Moved(Moved(start, n), (k - n) - 1) =
                    IF Moved(start, n) + ((k - n) - 1) < TUXCTL_BUFSIZE THEN Moved(start, n) + ((k - n) - 1)
                    ELSE Moved(start, n) + ((k - n) - 1) - TUXCTL_BUFSIZE
            BY <1>1, <1>2, <3>1, MovedIs
        <3>3. Moved(Moved(start, n), (k - n) - 1) = Moved(start, k - 1)
            BY <1>1, <2>2, <3>2 DEF Places
        <3> QED
            BY <1>3, <1>5, <1>6, <3>1, <3>3
    <2> QED
        BY <2>1, <2>2
<1> QED
    BY <1>3, <1>6, <1>7, SeqEqual DEF whole, first, rest

(* What a taken part c and a refused part d do to the whole: c goes on     *)
(* behind q, perhaps ahead of f, and d is lost.                            *)
LEMMA Overtaken ==
    ASSUME NEW w \in Seq(Nat), NEW q \in Seq(Nat), NEW f \in Seq(Nat),
           NEW c \in Seq(Nat), NEW d \in Seq(Nat), NEW e \in Seq(Nat),
           Distinct(w \o q \o f \o (c \o d \o e))
    PROVE  LET old == w \o q \o f \o (c \o d \o e)
               new == w \o (q \o c) \o f \o e
           IN  /\ new \in Seq(Nat) /\ Distinct(new)
               /\ Bytes(new) = Bytes(old) \ Bytes(d) /\ Bytes(d) \subseteq Bytes(old)
               /\ (f = << >> \/ c = << >>) /\ Rising(old) => Rising(new)
<1> DEFINE cd == c \o d
           cde == cd \o e
           wq == w \o q
           wqf == wq \o f
           old == wqf \o cde
           qc == q \o c
           wqc == w \o qc
           wqcf == wqc \o f
           new == wqcf \o e
<1>1. /\ cd \in Seq(Nat) /\ Bytes(cd) = Bytes(c) \cup Bytes(d)
      /\ Distinct(cd) <=> Distinct(c) /\ Distinct(d) /\ Bytes(c) \cap Bytes(d) = {}
      /\ Rising(cd) <=> Rising(c) /\ Rising(d) /\ \A x \in Bytes(c), y \in Bytes(d) : x < y
    BY Joined
<1>2. /\ cde \in Seq(Nat) /\ Bytes(cde) = Bytes(cd) \cup Bytes(e)
      /\ Distinct(cde) <=> Distinct(cd) /\ Distinct(e) /\ Bytes(cd) \cap Bytes(e) = {}
      /\ Rising(cde) <=> Rising(cd) /\ Rising(e) /\ \A x \in Bytes(cd), y \in Bytes(e) : x < y
    BY <1>1, Joined
<1>3. /\ wq \in Seq(Nat) /\ Bytes(wq) = Bytes(w) \cup Bytes(q)
      /\ Distinct(wq) <=> Distinct(w) /\ Distinct(q) /\ Bytes(w) \cap Bytes(q) = {}
      /\ Rising(wq) <=> Rising(w) /\ Rising(q) /\ \A x \in Bytes(w), y \in Bytes(q) : x < y
    BY Joined
<1>4. /\ wqf \in Seq(Nat) /\ Bytes(wqf) = Bytes(wq) \cup Bytes(f)
      /\ Distinct(wqf) <=> Distinct(wq) /\ Distinct(f) /\ Bytes(wq) \cap Bytes(f) = {}
      /\ Rising(wqf) <=> Rising(wq) /\ Rising(f) /\ \A x \in Bytes(wq), y \in Bytes(f) : x < y
    BY <1>3, Joined
<1>5. /\ qc \in Seq(Nat) /\ Bytes(qc) = Bytes(q) \cup Bytes(c)
      /\ Distinct(qc) <=> Distinct(q) /\ Distinct(c) /\ Bytes(q) \cap Bytes(c) = {}
      /\ Rising(qc) <=> Rising(q) /\ Rising(c) /\ \A x \in Bytes(q), y \in Bytes(c) : x < y
    BY Joined
<1> HIDE DEF cd, cde, wq, wqf, qc
<1>6. /\ old \in Seq(Nat) /\ Bytes(old) = Bytes(wqf) \cup Bytes(cde)
      /\ Distinct(old) <=> Distinct(wqf) /\ Distinct(cde) /\ Bytes(wqf) \cap Bytes(cde) = {}
      /\ Rising(old) <=> Rising(wqf) /\ Rising(cde) /\ \A x \in Bytes(wqf), y \in Bytes(cde) : x < y
    BY <1>2, <1>4, Joined
<1>7. /\ wqc \in Seq(Nat) /\ Bytes(wqc) = Bytes(w) \cup Bytes(qc)
      /\ Distinct(wqc) <=> Distinct(w) /\ Distinct(qc) /\ Bytes(w) \cap Bytes(qc) = {}
      /\ Rising(wqc) <=> Rising(w) /\ Rising(qc) /\ \A x \in Bytes(w), y \in Bytes(qc) : x < y
    BY <1>5, Joined
<1>8. /\ wqcf \in Seq(Nat) /\ Bytes(wqcf) = Bytes(wqc) \cup Bytes(f)
      /\ Distinct(wqcf) <=> Distinct(wqc) /\ Distinct(f) /\ Bytes(wqc) \cap Bytes(f) = {}
      /\ Rising(wqcf) <=> Rising(wqc) /\ Rising(f) /\ \A x \in Bytes(wqc), y \in Bytes(f) : x < y
    BY <1>7, Joined
<1> HIDE DEF wqc, wqcf
<1>9. /\ new \in Seq(Nat) /\ Bytes(new) = Bytes(wqcf) \cup Bytes(e)
      /\ Distinct(new) <=> Distinct(wqcf) /\ Distinct(e) /\ Bytes(wqcf) \cap Bytes(e) = {}
      /\ Rising(new) <=> Rising(wqcf) /\ Rising(e) /\ \A x \in Bytes(wqcf), y \in Bytes(e) : x < y
    BY <1>8, Joined
<1>10. Distinct(old)
    BY DEF old, wqf, wq, cde, cd
<1> HIDE DEF old, new
<1>11. Distinct(new) /\ Bytes(new) = Bytes(old) \ Bytes(d) /\ Bytes(d) \subseteq Bytes(old)
    BY <1>1, <1>2, <1>3, <1>4, <1>5, <1>6, <1>7, <1>8, <1>9, <1>10
<1>12. ASSUME f = << >> \/ c = << >>, Rising(old) PROVE Rising(new)
    <2>1. Bytes(f) = {} \/ Bytes(c) = {}
        BY <1>12 DEF Bytes
    <2> QED
        BY <1>1, <1>2, <1>3, <1>4, <1>5, <1>6, <1>7, <1>8, <1>9, <1>12, <2>1
<1> QED
    BY <1>9, <1>11, <1>12 DEF cd, cde, wq, wqf, qc, wqc, wqcf, old, new

(* The same where the two parts were f.                                    *)
LEMMA HandedOver ==
    ASSUME NEW w \in Seq(Nat), NEW q \in Seq(Nat),
           NEW c \in Seq(Nat), NEW d \in Seq(Nat), NEW e \in Seq(Nat),
           Distinct(w \o q \o (c \o d) \o e)
    PROVE  LET old == w \o q \o (c \o d) \o e
               new == w \o (q \o c) \o << >> \o e
           IN  /\ new \in Seq(Nat) /\ Distinct(new)
               /\ Bytes(new) = Bytes(old) \ Bytes(d) /\ Bytes(d) \subseteq Bytes(old)
               /\ Rising(old) => Rising(new)
<1> DEFINE cd == c \o d
           wq == w \o q
           wqcd == wq \o cd
           old == wqcd \o e
           qc == q \o c
           wqc == w \o qc
           wqcn == wqc \o << >>
           new == wqcn \o e
<1>1. /\ cd \in Seq(Nat) /\ Bytes(cd) = Bytes(c) \cup Bytes(d)
      /\ Distinct(cd) <=> Distinct(c) /\ Distinct(d) /\ Bytes(c) \cap Bytes(d) = {}
      /\ Rising(cd) <=> Rising(c) /\ Rising(d) /\ \A x \in Bytes(c), y \in Bytes(d) : x < y
    BY Joined
<1>2. /\ wq \in Seq(Nat) /\ Bytes(wq) = Bytes(w) \cup Bytes(q)
      /\ Distinct(wq) <=> Distinct(w) /\ Distinct(q) /\ Bytes(w) \cap Bytes(q) = {}
      /\ Rising(wq) <=> Rising(w) /\ Rising(q) /\ \A x \in Bytes(w), y \in Bytes(q) : x < y
    BY Joined
<1>3. /\ qc \in Seq(Nat) /\ Bytes(qc) = Bytes(q) \cup Bytes(c)
      /\ Distinct(qc) <=> Distinct(q) /\ Distinct(c) /\ Bytes(q) \cap Bytes(c) = {}
      /\ Rising(qc) <=> Rising(q) /\ Rising(c) /\ \A x \in Bytes(q), y \in Bytes(c) : x < y
    BY Joined
<1> HIDE DEF cd, wq, qc
<1>4. /\ wqcd \in Seq(Nat) /\ Bytes(wqcd) = Bytes(wq) \cup Bytes(cd)
      /\ Distinct(wqcd) <=> Distinct(wq) /\ Distinct(cd) /\ Bytes(wq) \cap Bytes(cd) = {}
      /\ Rising(wqcd) <=> Rising(wq) /\ Rising(cd) /\ \A x \in Bytes(wq), y \in Bytes(cd) : x < y
    BY <1>1, <1>2, Joined
<1>5. /\ wqc \in Seq(Nat) /\ Bytes(wqc) = Bytes(w) \cup Bytes(qc)
      /\ Distinct(wqc) <=> Distinct(w) /\ Distinct(qc) /\ Bytes(w) \cap Bytes(qc) = {}
      /\ Rising(wqc) <=> Rising(w) /\ Rising(qc) /\ \A x \in Bytes(w), y \in Bytes(qc) : x < y
    BY <1>3, Joined
<1>6. wqcn = wqc
    BY <1>5, ConcatEmptySeq
<1> HIDE DEF wqcd, wqcn, wqc
<1>7. /\ old \in Seq(Nat) /\ Bytes(old) = Bytes(wqcd) \cup Bytes(e)
      /\ Distinct(old) <=> Distinct(wqcd) /\ Distinct(e) /\ Bytes(wqcd) \cap Bytes(e) = {}
      /\ Rising(old) <=> Rising(wqcd) /\ Rising(e) /\ \A x \in Bytes(wqcd), y \in Bytes(e) : x < y
    BY <1>4, Joined
<1>8. /\ new \in Seq(Nat) /\ Bytes(new) = Bytes(wqc) \cup Bytes(e)
      /\ Distinct(new) <=> Distinct(wqc) /\ Distinct(e) /\ Bytes(wqc) \cap Bytes(e) = {}
      /\ Rising(new) <=> Rising(wqc) /\ Rising(e) /\ \A x \in Bytes(wqc), y \in Bytes(e) : x < y
    BY <1>5, <1>6, Joined
<1>9. Distinct(old)
    BY DEF old, wqcd, wq, cd
<1> HIDE DEF old, new
<1>10. Distinct(new) /\ Bytes(new) = Bytes(old) \ Bytes(d) /\ Bytes(d) \subseteq Bytes(old)
    BY <1>1, <1>2, <1>3, <1>4, <1>5, <1>7, <1>8, <1>9
<1>11. Rising(old) => Rising(new)
    BY <1>1, <1>2, <1>3, <1>4, <1>5, <1>7, <1>8
<1> QED
    BY <1>8, <1>10, <1>11 DEF cd, wq, wqcd, qc, wqc, wqcn, old, new

(* A sequence cut in two.                                                  *)
LEMMA InTwo ==
    ASSUME NEW s \in Seq(Nat), NEW n \in Nat, Len(s) = n, NEW k \in 0 .. n
    PROVE  LET c == SubSeq(s, 1, k)
               d == SubSeq(s, k + 1, n)
           IN  /\ c \in Seq(Nat) /\ Len(c) = k
               /\ d \in Seq(Nat) /\ Len(d) = n - k /\ \A i \in 1 .. n - k : d[i] = s[k + i]
               /\ s = c \o d
<1> DEFINE c == SubSeq(s, 1, k)
           d == SubSeq(s, k + 1, n)
<1>1. \A i \in 1 .. n : s[i] \in Nat
    BY ElementOfSeq
<1>2. k \in Nat /\ 1 \in Int /\ k \in Int /\ k + 1 \in Int /\ n \in Int
    OBVIOUS
<1>3. (\A i \in 1 .. k : s[i] \in Nat) /\ \A i \in k + 1 .. n : s[i] \in Nat
    BY <1>1
<1>4. /\ c \in Seq(Nat) /\ Len(c) = IF 1 <= k THEN k - 1 + 1 ELSE 0
      /\ \A i \in 1 .. k - 1 + 1 : c[i] = s[1 + i - 1]
    BY <1>2, <1>3, SubSeqProperties
<1>5. /\ d \in Seq(Nat) /\ Len(d) = IF k + 1 <= n THEN n - (k + 1) + 1 ELSE 0
      /\ \A i \in 1 .. n - (k + 1) + 1 : d[i] = s[(k + 1) + i - 1]
    <2>1. /\ d \in Seq(Nat) /\ Len(d) = IF k + 1 <= n THEN n - (k + 1) + 1 ELSE 0
        BY <1>2, <1>3, SubSeqProperties
    <2>2. \A i \in 1 .. n - (k + 1) + 1 : d[i] = s[(k + 1) + i - 1]
        BY <1>2, <1>3, SubSeqProperties
    <2> QED
        BY <2>1, <2>2
<1> HIDE DEF c, d
<1>6. Len(c) = k /\ Len(d) = n - k /\ k + (n - k) = n
    BY <1>4, <1>5
<1>7. ASSUME NEW i \in 1 .. k PROVE c[i] = s[i]
    <2>1. i \in 1 .. k - 1 + 1 /\ 1 + i - 1 = i
        OBVIOUS
    <2> QED
        BY <1>4, <2>1
<1>8. ASSUME NEW i \in 1 .. n - k PROVE d[i] = s[k + i]
    <2>1. i \in 1 .. n - (k + 1) + 1 /\ (k + 1) + i - 1 = k + i
        OBVIOUS
    <2> QED
        BY <1>5, <2>1
<1>9. /\ c \o d \in Seq(Nat) /\ Len(c \o d) = n
      /\ \A i \in 1 .. n : (c \o d)[i] = IF i <= k THEN c[i] ELSE d[i - k]
    <2>1. /\ c \o d \in Seq(Nat) /\ Len(c \o d) = Len(c) + Len(d)
          /\ \A i \in 1 .. Len(c) + Len(d) :
                 (c \o d)[i] = IF i <= Len(c) THEN c[i] ELSE d[i - Len(c)]
        BY <1>4, <1>5, ConcatProperties
    <2> QED
        BY <1>6, <2>1
<1>10. ASSUME NEW i \in 1 .. n PROVE s[i] = (c \o d)[i]
    <2>1. CASE i <= k
        BY <1>7, <1>9, <2>1, SMTT(60)
    <2>2. CASE ~(i <= k)
        <3>1. i - k \in 1 .. n - k /\ k + (i - k) = i
            BY <2>2
        <3> QED
            BY <1>8, <1>9, <2>2, <3>1
    <2> QED
        BY <2>1, <2>2
<1>11. s = c \o d
    BY <1>9, <1>10, SeqEqual
<1> QED
    BY <1>4, <1>5, <1>6, <1>8, <1>11 DEF c, d

(* What the driver takes, what it refuses, and when.                       *)
LEMMA WriteIs ==
    ASSUME NEW q \in Seq(Nat), NEW bytes \in Seq(Nat), Len(q) <= DriverSize
    PROVE  \E c, d \in Seq(Nat) :
               /\ bytes = c \o d
               /\ Written(q, bytes) = q \o c /\ Refused(q, bytes) = Bytes(d)
               /\ Len(q \o c) <= DriverSize
               /\ Refused(q, bytes) # {} => Len(q) + Len(bytes) > DriverSize
               /\ Len(bytes) <= DriverSize - Len(q) + 1 => \A x, y \in Refused(q, bytes) : x = y
               /\ q # << >> \/ bytes # << >> => q \o c # << >>
<1> DEFINE free == DriverSize - Len(q)
           n == Len(bytes)
           s == Smaller(n, free)
           c == SubSeq(bytes, 1, s)
           d == SubSeq(bytes, s + 1, n)
<1>1. /\ DriverSize \in Nat \ {0} /\ Len(q) \in Nat /\ free \in Nat /\ n \in Nat /\ s \in 0 .. n /\ s <= free
      /\ free + Len(q) = DriverSize /\ s \in Nat
      /\ s = n \/ (s = free /\ free < n)
    BY LenProperties, TuxTransmitAssumption DEF Smaller
<1>2. /\ c \in Seq(Nat) /\ Len(c) = s
      /\ d \in Seq(Nat) /\ Len(d) = n - s /\ \A k \in 1 .. n - s : d[k] = bytes[s + k]
      /\ bytes = c \o d
    <2>1. Len(bytes) = n /\ n \in Nat /\ s \in 0 .. n
        BY <1>1
    <2> HIDE DEF s, n, free
    <2> QED
        BY <2>1, InTwo, ZenonT(60)
<1>3. Len(c) = s /\ c \in Seq(Nat) /\ d \in Seq(Nat)
    BY <1>2
<1>4. Len(d) = n - s /\ d \in Seq(Nat) /\ \A k \in 1 .. n - s : d[k] = bytes[s + k]
    BY <1>2
<1>5. bytes = c \o d
    BY <1>2
<1>6. Written(q, bytes) = q \o c
    BY DEF Written
<1>7. Refused(q, bytes) = Bytes(d)
    <2>1. DOMAIN d = 1 .. n - s
        BY <1>4, LenProperties
    <2> HIDE DEF d
    <2>2. Refused(q, bytes) = {bytes[k] : k \in free + 1 .. n}
        BY DEF Refused
    <2> HIDE DEF s, n, free
    <2>3. CASE s = n
        <3>1. free + 1 .. n = {} /\ 1 .. n - s = {}
            BY <1>1, <2>3
        <3> QED
            BY <2>1, <2>2, <3>1 DEF Bytes
    <2>4. CASE s = free
        <3>1. ASSUME NEW x \in Refused(q, bytes) PROVE x \in Bytes(d)
            <4>1. PICK k \in s + 1 .. n : x = bytes[k]
                BY <2>2, <2>4, <3>1
            <4>2. k - s \in 1 .. n - s /\ s + (k - s) = k
                BY <1>1, <4>1
            <4> QED
                BY <1>4, <2>1, <4>1, <4>2 DEF Bytes
        <3>2. ASSUME NEW x \in Bytes(d) PROVE x \in Refused(q, bytes)
            <4>1. PICK k \in 1 .. n - s : x = d[k]
                BY <2>1, <3>2 DEF Bytes
            <4>2. s + k \in s + 1 .. n
                BY <1>1, <4>1
            <4> QED
                BY <1>4, <2>2, <2>4, <4>1, <4>2
        <3> QED
            BY <3>1, <3>2
    <2> QED
        BY <1>1, <2>3, <2>4
<1> HIDE DEF c, d, s
<1>8. Len(q \o c) = Len(q) + s /\ q \o c \in Seq(Nat)
    BY <1>3, ConcatProperties
<1>9. Refused(q, bytes) # {} => free < n
    <2>1. free >= n => free + 1 .. n = {}
        BY <1>1
    <2> HIDE DEF n, free
    <2>2. Refused(q, bytes) = {bytes[k] : k \in free + 1 .. n}
        BY DEF Refused, n, free
    <2> QED
        BY <1>1, <2>1, <2>2
<1>10. n <= free + 1 => \A x, y \in Refused(q, bytes) : x = y
    <2>1. n <= free + 1 => \A k, l \in free + 1 .. n : k = l
        BY <1>1
    <2> HIDE DEF n, free
    <2>2. Refused(q, bytes) = {bytes[k] : k \in free + 1 .. n}
        BY DEF Refused, n, free
    <2> QED
        BY <2>1, <2>2
<1>11. q # << >> \/ bytes # << >> => q \o c # << >>
    <2>1. q # << >> => Len(q) > 0
        BY <1>1, EmptySeq
    <2>2. bytes # << >> => n > 0
        BY <1>1, EmptySeq
    <2>3. q # << >> \/ bytes # << >> => Len(q \o c) > 0
        BY <1>1, <1>8, <2>1, <2>2
    <2> QED
        BY <2>3, EmptySeq
<1>12. Len(q \o c) <= DriverSize /\ (Refused(q, bytes) # {} => Len(q) + Len(bytes) > DriverSize)
    BY <1>1, <1>8, <1>9
<1> QED
    BY <1>3, <1>4, <1>5, <1>6, <1>7, <1>10, <1>11, <1>12

(* Four sequences, one behind the other.                                   *)
LEMMA FourJoined ==
    ASSUME NEW w \in Seq(Nat), NEW f \in Seq(Nat), NEW h \in Seq(Nat), NEW q \in Seq(Nat)
    PROVE  /\ w \o f \o h \o q \in Seq(Nat)
           /\ Len(w \o f \o h \o q) = Len(w) + Len(f) + Len(h) + Len(q)
           /\ Bytes(w \o f \o h \o q) = Bytes(w) \cup Bytes(f) \cup Bytes(h) \cup Bytes(q)
<1> DEFINE wf == w \o f
           wfh == wf \o h
           whole == wfh \o q
<1>1. wf \in Seq(Nat) /\ Len(wf) = Len(w) + Len(f) /\ Bytes(wf) = Bytes(w) \cup Bytes(f)
    BY Joined
<1> HIDE DEF wf
<1>2. wfh \in Seq(Nat) /\ Len(wfh) = Len(wf) + Len(h) /\ Bytes(wfh) = Bytes(wf) \cup Bytes(h)
    BY <1>1, Joined
<1> HIDE DEF wfh
<1>3. whole \in Seq(Nat) /\ Len(whole) = Len(wfh) + Len(q) /\ Bytes(whole) = Bytes(wfh) \cup Bytes(q)
    BY <1>2, Joined
<1> QED
    BY <1>1, <1>2, <1>3 DEF whole, wfh, wf

(* A sequence of bytes of a set.                                           *)
LEMMA OfBytes ==
    ASSUME NEW s \in Seq(Nat), NEW S, Bytes(s) \subseteq S
    PROVE  s \in Seq(S)
<1>1. Len(s) \in Nat /\ s \in [1 .. Len(s) -> Nat] /\ DOMAIN s = 1 .. Len(s)
    BY LenProperties
<1>2. \A k \in 1 .. Len(s) : s[k] \in S
    BY <1>1 DEF Bytes
<1>3. [k \in 1 .. Len(s) |-> s[k]] \in Seq(S)
    BY <1>1, <1>2, IsASeq
<1>4. s = [k \in 1 .. Len(s) |-> s[k]]
    BY <1>1
<1> QED
    BY <1>3, <1>4

(* Where no byte is twice, there are as many places as bytes.              *)
LEMMA LengthIs ==
    ASSUME NEW s \in Seq(Nat), Distinct(s), NEW n \in Nat, NEW gone \in SUBSET (1 .. n),
           Bytes(s) = (1 .. n) \ gone
    PROVE  /\ IsFiniteSet(gone) /\ Cardinality(gone) \in Nat /\ Len(s) = n - Cardinality(gone)
<1> DEFINE m == Len(s)
<1>1. m \in Nat /\ s \in [1 .. m -> Nat] /\ DOMAIN s = 1 .. m
    BY LenProperties
<1>2. IsFiniteSet(1 .. n) /\ Cardinality(1 .. n) = n
    BY FS_Interval
<1>3. IsFiniteSet(gone) /\ Cardinality(gone) \in Nat
    BY <1>2, FS_Subset, FS_CardinalityType
<1>4. Cardinality(Bytes(s)) = n - Cardinality(gone)
    <2>1. /\ IsFiniteSet((1 .. n) \ gone)
          /\ Cardinality((1 .. n) \ gone) = Cardinality(1 .. n) - Cardinality((1 .. n) \cap gone)
        BY <1>2, FS_Difference
    <2>2. (1 .. n) \cap gone = gone
        OBVIOUS
    <2> QED
        BY <1>2, <2>1, <2>2
<1> HIDE DEF m
<1>5. s \in Bijection(1 .. m, Bytes(s))
    <2>1. s \in [1 .. m -> Bytes(s)]
        BY <1>1 DEF Bytes
    <2>2. \A x \in Bytes(s) : \E k \in 1 .. m : s[k] = x
        BY <1>1 DEF Bytes
    <2>3. IsInjective(s)
        BY <1>1 DEF Distinct, IsInjective
    <2> QED
        BY <2>1, <2>2, <2>3, Zenon DEF Bijection, Injection, Surjection
<1>6. IsFiniteSet(1 .. m) /\ Cardinality(1 .. m) = m
    <2>1. IsFiniteSet(1 .. m) /\ Cardinality(1 .. m) = IF 1 > m THEN 0 ELSE m - 1 + 1
        BY <1>1, FS_Interval
    <2> QED
        BY <1>1, <2>1
<1>7. Cardinality(Bytes(s)) = m
    BY <1>5, <1>6, FS_Bijection DEF ExistsBijection
<1> QED
    BY <1>3, <1>4, <1>7 DEF m

(* Bytes are put in the ring whatever set they are of.                     *)
LEMMA PutType ==
    ASSUME NEW S, NEW b \in [Places -> S], NEW end \in Places, NEW bytes \in Seq(S)
    PROVE  Put(b, end, bytes) \in [Places -> S]
<1> DEFINE at(k) == (k - end + TUXCTL_BUFSIZE) % TUXCTL_BUFSIZE
           after == [k \in Places |-> IF at(k) < Len(bytes) THEN bytes[at(k) + 1] ELSE b[k]]
<1>1. Put(b, end, bytes) = after
    BY DEF Put
<1>2. ASSUME NEW k \in Places PROVE at(k) \in Nat
    BY TuxRingAssumption DEF Places
<1>3. Len(bytes) \in Nat /\ \A k \in 1 .. Len(bytes) : bytes[k] \in S
    BY LenProperties, ElementOfSeq
<1> HIDE DEF at
<1>4. ASSUME NEW k \in Places PROVE (IF at(k) < Len(bytes) THEN bytes[at(k) + 1] ELSE b[k]) \in S
    <2>1. at(k) < Len(bytes) => at(k) + 1 \in 1 .. Len(bytes)
        BY <1>2, <1>3
    <2> QED
        BY <1>3, <2>1
<1>5. after \in [Places -> S]
    BY <1>4
<1> QED
    BY <1>1, <1>5

(* What is on its way are bytes that were put.                             *)
LEMMA ArePut ==
    ASSUME NEW w \in Seq(Nat), NEW f \in Seq(Nat), NEW h \in Seq(Nat), NEW q \in Seq(Nat),
           NEW n \in Nat, n <= MaxBytes, NEW gone,
           Bytes(w \o f \o h \o q) = (1 .. n) \ gone
    PROVE  w \in Seq(1 .. MaxBytes) /\ f \in Seq(1 .. MaxBytes) /\ h \in Seq(1 .. MaxBytes)
<1>1. Bytes(w) \subseteq 1 .. n /\ Bytes(f) \subseteq 1 .. n /\ Bytes(h) \subseteq 1 .. n
    BY FourJoined
<1>2. 1 .. n \subseteq 1 .. MaxBytes
    BY TuxTransmitAssumption
<1> QED
    BY <1>1, <1>2, OfBytes

(* The state's parts are sequences of numbers.                             *)
LEMMA Parts ==
    ASSUME TypeOK
    PROVE  /\ tx_buf \in [Places -> Nat] /\ tx_start \in Places /\ tx_end \in Places
           /\ wire \in Seq(Nat) /\ fifo \in Seq(Nat) /\ buf \in Seq(Nat) /\ Queued \in Seq(Nat)
           /\ Len(Queued) = buf_used(tx_start, tx_end)
           /\ OnTheWay \in Seq(Nat) /\ put \in Nat /\ put <= MaxBytes
<1>1. ASSUME NEW s \in Seq(1 .. MaxBytes) PROVE s \in Seq(Nat)
    <2>1. 1 .. MaxBytes \subseteq Nat
        OBVIOUS
    <2> QED
        BY <2>1, SeqMonotonic
<1>2. tx_buf \in [Places -> Nat] /\ tx_start \in Places /\ tx_end \in Places
    BY TuxTransmitAssumption DEF TypeOK
<1>3. Queued \in Seq(Nat) /\ Len(Queued) = buf_used(tx_start, tx_end)
    <2>1. buf_used(tx_start, tx_end) \in 0 .. TUXCTL_BUFSIZE
        BY <1>2, UsedIs, TuxRingAssumption
    <2> QED
        BY <1>2, <2>1, TakenIs DEF Queued
<1>4. wire \in Seq(Nat) /\ fifo \in Seq(Nat) /\ buf \in Seq(Nat)
    BY <1>1 DEF TypeOK
<1>5. put \in Nat /\ put <= MaxBytes
    BY TuxTransmitAssumption DEF TypeOK
<1> QED
    BY <1>2, <1>3, <1>4, <1>5, FourJoined DEF OnTheWay

(* write_wakeup takes bytes out of the ring b, and q gets those there is   *)
(* room for, although an ioctl holds f: no byte is twice, only refused     *)
(* ones are gone, and the order changes only if f is overtaken.            *)
LEMMA WakeupIs ==
    ASSUME NEW w \in Seq(Nat), NEW q \in Seq(Nat), Len(q) <= DriverSize, NEW f \in Seq(Nat),
           NEW b \in [Places -> Nat], NEW start \in Places, NEW end \in Places,
           Distinct(w \o q \o f \o Taken(b, start, buf_used(start, end)))
    PROVE  LET used == buf_used(start, end)
               old == w \o q \o f \o Taken(b, start, used)
               n == TakeCount(DriverSize - Len(q), used)
               bytes == Taken(b, start, n)
               fifo2 == Written(q, bytes)
               start2 == Moved(start, n)
               gone == Refused(q, bytes)
               rest == Taken(b, start2, buf_used(start2, end))
               new == w \o fifo2 \o f \o rest
           IN  /\ start2 \in Places /\ fifo2 \in Seq(Nat) /\ Len(fifo2) <= DriverSize
               /\ rest \in Seq(Nat) /\ Distinct(new)
               /\ Bytes(new) = Bytes(old) \ gone /\ gone \subseteq Bytes(old)
               /\ f = << >> \/ n = 0 => (Rising(old) => Rising(new))
               /\ n \in Nat
               /\ gone # {} => Len(q) + used > DriverSize
               /\ \A x, y \in gone : x = y
               /\ start2 # end => fifo2 # << >>
<1> DEFINE used == buf_used(start, end)
           whole == Taken(b, start, used)
           old == w \o q \o f \o whole
           free == DriverSize - Len(q)
           n == TakeCount(free, used)
           bytes == Taken(b, start, n)
           fifo2 == Written(q, bytes)
           start2 == Moved(start, n)
           gone == Refused(q, bytes)
           rest == Taken(b, start2, buf_used(start2, end))
           new == w \o fifo2 \o f \o rest
<1>1. /\ TUXCTL_BUFSIZE \in Nat \ {0, 1} /\ DriverSize \in Nat \ {0} /\ Len(q) \in Nat
      /\ used \in 0 .. TUXCTL_BUFSIZE - 1 /\ (used = 0 <=> start = end)
    BY TuxRingAssumption, TuxTransmitAssumption, UsedIs, LenProperties
<1>2. /\ free \in Nat /\ n \in 0 .. used /\ n <= free + 1 /\ (used > 0 => n > 0) /\ n \in Nat
      /\ n \in 0 .. TUXCTL_BUFSIZE /\ used \in 0 .. TUXCTL_BUFSIZE /\ used - n \in 0 .. TUXCTL_BUFSIZE
    BY <1>1 DEF TakeCount, Smaller
<1>3. start2 \in Places /\ buf_used(start2, end) = used - n
    <2> HIDE DEF n, used
    <2>1. start2 \in Places
        BY <1>2, MovedIs
    <2>2. \A k \in 0 .. used : buf_used(Moved(start, k), end) = used - k
        BY UsedIs DEF used
    <2> QED
        BY <1>2, <2>1, <2>2
<1>4. bytes \in Seq(Nat) /\ Len(bytes) = n
    <2> HIDE DEF n
    <2> QED
        BY <1>2, TakenIs
<1>5. rest \in Seq(Nat) /\ Len(rest) = used - n /\ whole = bytes \o rest
    <2> HIDE DEF n, used
    <2>1. rest = Taken(b, start2, used - n)
        BY <1>3
    <2>2. rest \in Seq(Nat) /\ Len(rest) = used - n
        BY <1>2, <1>3, <2>1, TakenIs
    <2>3. Taken(b, start, used) = Taken(b, start, n) \o Taken(b, Moved(start, n), used - n)
        BY <1>1, <1>2, TakenInTwo, ZenonT(60)
    <2> QED
        BY <2>1, <2>2, <2>3
<1>6. Distinct(old)
    OBVIOUS
<1> HIDE DEF whole, rest, bytes, n, used, start2, fifo2, gone
<1>7. PICK c \in Seq(Nat), d \in Seq(Nat) :
          /\ bytes = c \o d
          /\ fifo2 = q \o c /\ gone = Bytes(d)
          /\ Len(q \o c) <= DriverSize
          /\ gone # {} => Len(q) + Len(bytes) > DriverSize
          /\ Len(bytes) <= free + 1 => \A x, y \in gone : x = y
          /\ q # << >> \/ bytes # << >> => q \o c # << >>
    BY <1>4, WriteIs DEF fifo2, gone
<1>8. old = w \o q \o f \o (c \o d \o rest)
    BY <1>5, <1>7
<1>9. new = w \o (q \o c) \o f \o rest
    BY <1>7
<1> HIDE DEF old, new
<1>11. /\ new \in Seq(Nat) /\ Distinct(new)
       /\ Bytes(new) = Bytes(old) \ Bytes(d) /\ Bytes(d) \subseteq Bytes(old)
       /\ (f = << >> \/ c = << >>) /\ Rising(old) => Rising(new)
    <2>1. rest \in Seq(Nat) /\ Distinct(w \o q \o f \o (c \o d \o rest))
        BY <1>5, <1>6, <1>8
    <2>2. LET before == w \o q \o f \o (c \o d \o rest)
              after == w \o (q \o c) \o f \o rest
          IN  /\ after \in Seq(Nat) /\ Distinct(after)
              /\ Bytes(after) = Bytes(before) \ Bytes(d) /\ Bytes(d) \subseteq Bytes(before)
              /\ (f = << >> \/ c = << >>) /\ Rising(before) => Rising(after)
        BY <2>1, Overtaken
    <2> QED
        BY <1>8, <1>9, <2>2
<1>12. n = 0 => c = << >>
    <2>1. Len(c) \in Nat /\ Len(d) \in Nat /\ Len(c) + Len(d) = n
        BY <1>4, <1>7, ConcatProperties, LenProperties
    <2> QED
        BY <2>1, EmptySeq
<1>13. fifo2 \in Seq(Nat) /\ Len(fifo2) <= DriverSize
    BY <1>7, ConcatProperties
<1>14. start2 # end => fifo2 # << >>
    <2>1. ASSUME start2 # end PROVE n > 0
        <3>1. CASE used = 0
            <4>1. n = 0 /\ start = end
                BY <1>1, <1>2, <3>1
            <4>2. start2 = start
                BY <4>1, <1>1, MovedIs, TuxRingAssumption DEF start2, Places
            <4> QED
                BY <2>1, <4>1, <4>2
        <3> QED
            BY <1>1, <1>2, <3>1
    <2>2. n > 0 => bytes # << >>
        BY <1>4, EmptySeq
    <2> QED
        BY <1>7, <2>1, <2>2
<1>15. gone # {} => Len(q) + used > DriverSize
    BY <1>1, <1>2, <1>4, <1>7, SMTT(60)
<1> QED
    BY <1>2, <1>3, <1>4, <1>5, <1>7, <1>11, <1>12, <1>13, <1>14, <1>15
       DEF whole, rest, bytes, n, used, start2, fifo2, gone, old, new

(* New bytes t behind all the others.                                      *)
LEMMA PutBehind ==
    ASSUME NEW w \in Seq(Nat), NEW f \in Seq(Nat), NEW h \in Seq(Nat), NEW q \in Seq(Nat), NEW t \in Seq(Nat),
           Distinct(w \o f \o h \o q), Distinct(t), Rising(t),
           \A x \in Bytes(w \o f \o h \o q), y \in Bytes(t) : x < y
    PROVE  LET old == w \o f \o h \o q
               new == w \o f \o h \o (q \o t)
           IN  /\ new \in Seq(Nat) /\ Distinct(new)
               /\ Bytes(new) = Bytes(old) \cup Bytes(t)
               /\ Rising(old) => Rising(new)
<1> DEFINE wf == w \o f
           wfh == wf \o h
           old == wfh \o q
           qt == q \o t
           new == wfh \o qt
<1>1. /\ wf \in Seq(Nat) /\ Bytes(wf) = Bytes(w) \cup Bytes(f)
    BY Joined
<1> HIDE DEF wf
<1>2. /\ wfh \in Seq(Nat) /\ Bytes(wfh) = Bytes(wf) \cup Bytes(h)
    BY <1>1, Joined
<1>3. /\ qt \in Seq(Nat) /\ Bytes(qt) = Bytes(q) \cup Bytes(t)
      /\ Distinct(qt) <=> Distinct(q) /\ Distinct(t) /\ Bytes(q) \cap Bytes(t) = {}
      /\ Rising(qt) <=> Rising(q) /\ Rising(t) /\ \A x \in Bytes(q), y \in Bytes(t) : x < y
    BY Joined
<1>4. Distinct(old) /\ Distinct(t) /\ Rising(t) /\ \A x \in Bytes(old), y \in Bytes(t) : x < y
    BY DEF wf
<1> HIDE DEF wfh, qt
<1>5. /\ old \in Seq(Nat) /\ Bytes(old) = Bytes(wfh) \cup Bytes(q)
      /\ Distinct(old) <=> Distinct(wfh) /\ Distinct(q) /\ Bytes(wfh) \cap Bytes(q) = {}
      /\ Rising(old) <=> Rising(wfh) /\ Rising(q) /\ \A x \in Bytes(wfh), y \in Bytes(q) : x < y
    BY <1>2, Joined
<1>6. /\ new \in Seq(Nat) /\ Bytes(new) = Bytes(wfh) \cup Bytes(qt)
      /\ Distinct(new) <=> Distinct(wfh) /\ Distinct(qt) /\ Bytes(wfh) \cap Bytes(qt) = {}
      /\ Rising(new) <=> Rising(wfh) /\ Rising(qt) /\ \A x \in Bytes(wfh), y \in Bytes(qt) : x < y
    BY <1>2, <1>3, Joined
<1> HIDE DEF old, new
<1>7. Bytes(old) \subseteq Nat /\ Bytes(t) \subseteq Nat
    <2>1. \A s \in Seq(Nat) : Bytes(s) \subseteq Nat
        <3> TAKE s \in Seq(Nat)
        <3>1. DOMAIN s = 1 .. Len(s) /\ \A k \in 1 .. Len(s) : s[k] \in Nat
            BY LenProperties, ElementOfSeq
        <3> QED
            BY <3>1 DEF Bytes
    <2> QED
        BY <1>5, <2>1
<1>8. \A x \in Bytes(old) : x \notin Bytes(t)
    BY <1>4, <1>7
<1>9. Distinct(new) /\ Bytes(new) = Bytes(old) \cup Bytes(t)
    BY <1>3, <1>4, <1>5, <1>6, <1>8
<1>10. Rising(old) => Rising(new)
    BY <1>3, <1>4, <1>5, <1>6
<1> QED
    BY <1>6, <1>9, <1>10 DEF wf, wfh, qt, old, new

(* The bytes after those that were put.                                    *)
LEMMA Following ==
    ASSUME NEW n \in Nat, NEW m \in Nat
    PROVE  LET t == [k \in 1 .. m |-> n + k]
           IN  /\ t \in Seq(Nat) /\ t \in Seq(n + 1 .. n + m) /\ Len(t) = m
               /\ Bytes(t) = n + 1 .. n + m /\ Distinct(t) /\ Rising(t)
<1> DEFINE t == [k \in 1 .. m |-> n + k]
<1>1. t \in Seq(Nat)
    <2>1. \A k \in 1 .. m : n + k \in Nat
        OBVIOUS
    <2> QED
        BY <2>1, IsASeq
<1>2. t \in Seq(n + 1 .. n + m)
    <2>1. \A k \in 1 .. m : n + k \in n + 1 .. n + m
        OBVIOUS
    <2> QED
        BY <2>1, IsASeq
<1>3. DOMAIN t = 1 .. m /\ \A k \in 1 .. m : t[k] = n + k
    OBVIOUS
<1>4. Len(t) = m
    BY <1>1, <1>3, LenProperties
<1> HIDE DEF t
<1>5. Bytes(t) = n + 1 .. n + m
    <2>1. \A x \in n + 1 .. n + m : x - n \in 1 .. m /\ n + (x - n) = x
        OBVIOUS
    <2>2. \A x \in n + 1 .. n + m : x \in Bytes(t)
        BY <1>3, <2>1 DEF Bytes
    <2>3. \A k \in 1 .. m : n + k \in n + 1 .. n + m
        OBVIOUS
    <2>4. \A x \in Bytes(t) : x \in n + 1 .. n + m
        BY <1>3, <2>3 DEF Bytes
    <2> QED
        BY <2>2, <2>4
<1>6. Distinct(t) /\ Rising(t)
    BY <1>3 DEF Distinct, Rising
<1> QED
    BY <1>1, <1>2, <1>4, <1>5, <1>6 DEF t

(* How many bytes there are of those put.                                  *)
LEMMA CountedNow ==
    ASSUME TypeOK, ByteInv
    PROVE  /\ IsFiniteSet(lost) /\ Cardinality(lost) \in Nat
           /\ Len(wire) \in Nat /\ Len(fifo) \in Nat /\ Len(buf) \in Nat /\ Len(Queued) \in Nat
           /\ Len(wire) + Len(fifo) + Len(buf) + Len(Queued) = put - Cardinality(lost)
           /\ Len(OnTheWay) = put - Cardinality(lost)
<1>1. wire \in Seq(Nat) /\ fifo \in Seq(Nat) /\ buf \in Seq(Nat) /\ Queued \in Seq(Nat) /\ put \in Nat
    BY Parts
<1>2. OnTheWay \in Seq(Nat) /\ Len(OnTheWay) = Len(wire) + Len(fifo) + Len(buf) + Len(Queued)
    BY <1>1, FourJoined DEF OnTheWay
<1>3. Distinct(OnTheWay) /\ lost \in SUBSET (1 .. put) /\ Bytes(OnTheWay) = (1 .. put) \ lost
    BY DEF ByteInv
<1>4. IsFiniteSet(lost) /\ Cardinality(lost) \in Nat /\ Len(OnTheWay) = put - Cardinality(lost)
    BY <1>1, <1>2, <1>3, LengthIs
<1> QED
    BY <1>1, <1>2, <1>4, LenProperties

(* What putting a command of n bytes does.                                 *)
LEMMA EnqueueIs ==
    ASSUME TypeOK, ByteInv, PeakInv, NEW n \in Nat, Enqueue(n)
    PROVE  LET whole == wire \o fifo \o buf \o Taken(tx_buf', tx_start, buf_used(tx_start, tx_end'))
           IN  /\ tx_buf' \in [Places -> 0 .. MaxBytes] /\ tx_end' \in Places
               /\ put' \in Nat /\ put' <= MaxBytes /\ put <= put'
               /\ peak' \in 0 .. MaxBytes /\ peak <= peak'
               /\ put' - Len(wire) - Cardinality(lost) <= peak'
               /\ whole \in Seq(Nat) /\ Distinct(whole)
               /\ Bytes(whole) = (1 .. put') \ lost /\ lost \subseteq 1 .. put'
               /\ Rising(OnTheWay) => Rising(whole)
<1> DEFINE m == Accepted(n)
           used == buf_used(tx_start, tx_end)
           t == [k \in 1 .. m |-> put + k]
<1>1. /\ TUXCTL_BUFSIZE \in Nat \ {0, 1} /\ MaxBytes \in Nat
      /\ tx_buf \in [Places -> 0 .. MaxBytes] /\ peak \in 0 .. MaxBytes /\ lost \subseteq 1 .. MaxBytes
    BY TuxRingAssumption, TuxTransmitAssumption DEF TypeOK
<1>2. /\ tx_buf \in [Places -> Nat] /\ tx_start \in Places /\ tx_end \in Places
      /\ wire \in Seq(Nat) /\ fifo \in Seq(Nat) /\ buf \in Seq(Nat) /\ Queued \in Seq(Nat)
      /\ OnTheWay \in Seq(Nat) /\ put \in Nat
    BY Parts
<1>3. m \in Nat /\ m <= n /\ m <= Room(tx_start, tx_end) /\ m \in 0 .. Room(tx_start, tx_end) /\ m \in 0 .. TUXCTL_BUFSIZE
    <2>1. used \in 0 .. TUXCTL_BUFSIZE - 1 /\ Room(tx_start, tx_end) = TUXCTL_BUFSIZE - 1 - used
        BY <1>2, UsedIs
    <2> HIDE DEF used
    <2> QED
        BY <1>1, <2>1 DEF Accepted, Smaller
<1>4. /\ put + n <= MaxBytes /\ tx_buf' = Put(tx_buf, tx_end, t) /\ tx_end' = Moved(tx_end, m) /\ put' = put + m
      /\ peak' = IF put + m - Len(wire) - Cardinality(lost) > peak THEN put + m - Len(wire) - Cardinality(lost) ELSE peak
    BY DEF Enqueue
<1> HIDE DEF m
<1>5. /\ t \in Seq(Nat) /\ t \in Seq(put + 1 .. put + m) /\ Len(t) = m
      /\ Bytes(t) = put + 1 .. put + m /\ Distinct(t) /\ Rising(t)
    BY <1>2, <1>3, Following
<1> HIDE DEF t
<1>6. tx_buf' \in [Places -> 0 .. MaxBytes]
    <2>1. put + 1 .. put + m \subseteq 0 .. MaxBytes
        BY <1>1, <1>2, <1>3, <1>4
    <2>2. t \in Seq(0 .. MaxBytes)
        BY <1>5, <2>1, SeqMonotonic
    <2> QED
        BY <1>1, <1>2, <1>4, <2>2, PutType
<1>7. tx_end' \in Places /\ buf_used(tx_start, tx_end') = used + m
    <2>1. Moved(tx_end, m) \in Places
        BY <1>2, <1>3, MovedIs
    <2>2. \A k \in 0 .. Room(tx_start, tx_end) : buf_used(tx_start, Moved(tx_end, k)) = used + k
        BY <1>2, UsedIs
    <2> QED
        BY <1>3, <1>4, <2>1, <2>2
<1>8. Taken(tx_buf', tx_start, buf_used(tx_start, tx_end')) = Queued \o t
    <2>1. Taken(Put(tx_buf, tx_end, t), tx_start, used + m) = Taken(tx_buf, tx_start, used) \o t
        BY <1>2, <1>3, <1>5, PutIs
    <2> QED
        BY <1>4, <1>7, <2>1 DEF Queued
<1>9. /\ Distinct(OnTheWay) /\ Bytes(OnTheWay) = (1 .. put) \ lost /\ lost \subseteq 1 .. put
      /\ put - Len(wire) - Cardinality(lost) <= peak
    BY DEF ByteInv, PeakInv
<1> DEFINE new == wire \o fifo \o buf \o (Queued \o t)
<1>10. new \in Seq(Nat) /\ Distinct(new) /\ Bytes(new) = Bytes(OnTheWay) \cup Bytes(t) /\ (Rising(OnTheWay) => Rising(new))
    <2>1. \A x \in Bytes(wire \o fifo \o buf \o Queued), y \in Bytes(t) : x < y
        BY <1>2, <1>3, <1>5, <1>9 DEF OnTheWay
    <2>2. Distinct(wire \o fifo \o buf \o Queued)
        BY <1>9 DEF OnTheWay
    <2>3. wire \in Seq(Nat) /\ fifo \in Seq(Nat) /\ buf \in Seq(Nat) /\ Queued \in Seq(Nat)
        BY <1>2
    <2>4. t \in Seq(Nat) /\ Distinct(t) /\ Rising(t)
        BY <1>5
    <2>5. LET old == wire \o fifo \o buf \o Queued
          IN  /\ new \in Seq(Nat) /\ Distinct(new)
              /\ Bytes(new) = Bytes(old) \cup Bytes(t)
              /\ Rising(old) => Rising(new)
        BY <2>1, <2>2, <2>3, <2>4, PutBehind
    <2> QED
        BY <2>5 DEF OnTheWay
<1> HIDE DEF new
<1>11. Bytes(new) = (1 .. put') \ lost /\ lost \subseteq 1 .. put'
    <2>1. /\ (1 .. put) \cup (put + 1 .. put + m) = 1 .. put + m
          /\ \A x \in put + 1 .. put + m : x \notin 1 .. put
        BY <1>2, <1>3, SMTT(60)
    <2>2. put' = put + m /\ Bytes(t) = put + 1 .. put + m
        BY <1>4, <1>5
    <2> QED
        BY <1>9, <1>10, <2>1, <2>2
<1>12. /\ Len(wire) \in Nat /\ Cardinality(lost) \in Nat /\ put - Len(wire) - Cardinality(lost) >= 0
    <2>1. /\ Cardinality(lost) \in Nat /\ Len(wire) \in Nat /\ Len(fifo) \in Nat /\ Len(buf) \in Nat /\ Len(Queued) \in Nat
          /\ Len(wire) + Len(fifo) + Len(buf) + Len(Queued) = put - Cardinality(lost)
        BY CountedNow
    <2> QED
        BY <1>2, <2>1, SMTT(60)
<1>13. /\ put' \in Nat /\ put' <= MaxBytes /\ put <= put' /\ peak' \in 0 .. MaxBytes /\ peak <= peak'
       /\ put' - Len(wire) - Cardinality(lost) <= peak'
    <2>1. put \in Nat /\ MaxBytes \in Nat /\ peak \in 0 .. MaxBytes /\ n \in Nat
        BY <1>1, <1>2
    <2> HIDE DEF Accepted
    <2> QED
        BY <2>1, <1>3, <1>4, <1>12, SMTT(60)
<1> QED
    BY <1>6, <1>7, <1>8, <1>10, <1>11, <1>13 DEF new

(* No more of a set is finite than of the whole.                           *)
LEMMA MoreLost ==
    ASSUME NEW n \in Nat, NEW S, NEW T, S \subseteq T, T \subseteq 1 .. n
    PROVE  Cardinality(S) \in Nat /\ Cardinality(T) \in Nat /\ Cardinality(S) <= Cardinality(T)
<1>1. IsFiniteSet(1 .. n)
    BY FS_Interval
<1>2. IsFiniteSet(T)
    BY <1>1, FS_Subset
<1> QED
    BY <1>2, FS_Subset, FS_CardinalityType

(* What an interrupt's write_wakeup does.                                  *)
LEMMA WakeupStep ==
    ASSUME NEW w \in Seq(Nat), NEW q \in Seq(Nat), Len(q) <= DriverSize, buf \in Seq(Nat),
           NEW b \in [Places -> Nat], tx_start \in Places, NEW end \in Places,
           NEW n \in Nat, lost \subseteq 1 .. n, overtaken \in BOOLEAN,
           Distinct(w \o q \o buf \o Taken(b, tx_start, buf_used(tx_start, end))),
           Bytes(w \o q \o buf \o Taken(b, tx_start, buf_used(tx_start, end))) = (1 .. n) \ lost,
           ~overtaken => Rising(w \o q \o buf \o Taken(b, tx_start, buf_used(tx_start, end))),
           Wakeup(b, tx_start, end, q)
    PROVE  LET new == w \o fifo' \o buf \o Taken(b, tx_start', buf_used(tx_start', end))
           IN  /\ tx_start' \in Places /\ fifo' \in Seq(Nat) /\ Len(fifo') <= DriverSize
               /\ overtaken' \in BOOLEAN
               /\ Distinct(new) /\ Bytes(new) = (1 .. n) \ lost' /\ lost' \subseteq 1 .. n
               /\ ~overtaken' => Rising(new)
               /\ Cardinality(lost) \in Nat /\ Cardinality(lost') \in Nat /\ Cardinality(lost) <= Cardinality(lost')
               /\ lost' # lost => Len(q) + buf_used(tx_start, end) > DriverSize
               /\ \A x, y \in lost' \ lost : x = y
               /\ tx_start' # end => fifo' # << >>
<1> DEFINE used == buf_used(tx_start, end)
           old == w \o q \o buf \o Taken(b, tx_start, used)
           m == TakeCount(DriverSize - Len(q), used)
           bytes == Taken(b, tx_start, m)
           gone == Refused(q, bytes)
           new == w \o fifo' \o buf \o Taken(b, tx_start', buf_used(tx_start', end))
<1>1. tx_start' = Moved(tx_start, m) /\ fifo' = Written(q, bytes) /\ lost' = lost \cup gone
    BY DEF Wakeup
<1>2. overtaken' = (overtaken \/ (buf # << >> /\ m > 0))
    BY DEF Wakeup
<1>3. Distinct(old) /\ Bytes(old) = (1 .. n) \ lost /\ (~overtaken => Rising(old))
    OBVIOUS
<1>4. LET fifo2 == Written(q, bytes)
          start2 == Moved(tx_start, m)
          rest == Taken(b, start2, buf_used(start2, end))
          after == w \o fifo2 \o buf \o rest
      IN  /\ start2 \in Places /\ fifo2 \in Seq(Nat) /\ Len(fifo2) <= DriverSize
          /\ rest \in Seq(Nat) /\ Distinct(after)
          /\ Bytes(after) = Bytes(old) \ gone /\ gone \subseteq Bytes(old)
          /\ buf = << >> \/ m = 0 => (Rising(old) => Rising(after))
          /\ m \in Nat
          /\ gone # {} => Len(q) + used > DriverSize
          /\ \A x, y \in gone : x = y
          /\ start2 # end => fifo2 # << >>
    BY <1>3, WakeupIs, SMTT(60)
<1> HIDE DEF old, m, bytes, gone, used
<1>5. /\ tx_start' \in Places /\ fifo' \in Seq(Nat) /\ Len(fifo') <= DriverSize
      /\ Distinct(new) /\ Bytes(new) = Bytes(old) \ gone /\ gone \subseteq Bytes(old)
      /\ buf = << >> \/ m = 0 => (Rising(old) => Rising(new))
      /\ m \in Nat
      /\ gone # {} => Len(q) + used > DriverSize
      /\ \A x, y \in gone : x = y
      /\ tx_start' # end => fifo' # << >>
    BY <1>1, <1>4
<1> HIDE DEF new
<1>6. Bytes(new) = (1 .. n) \ lost' /\ lost' \subseteq 1 .. n
    BY <1>1, <1>3, <1>5
<1>7. overtaken' \in BOOLEAN
    BY <1>2, Zenon
<1>8. ~overtaken' => ~overtaken /\ ~(buf # << >> /\ m > 0)
    BY <1>2, Zenon
<1>9. ~(buf # << >> /\ m > 0) => buf = << >> \/ m = 0
    BY <1>5
<1>10. ~overtaken' => Rising(new)
    BY <1>3, <1>5, <1>8, <1>9
<1>11. Cardinality(lost) \in Nat /\ Cardinality(lost') \in Nat /\ Cardinality(lost) <= Cardinality(lost')
    BY <1>1, <1>6, MoreLost
<1>12. (lost' # lost => Len(q) + used > DriverSize) /\ \A x, y \in lost' \ lost : x = y
    BY <1>1, <1>5
<1> QED
    BY <1>5, <1>6, <1>7, <1>10, <1>11, <1>12 DEF new, used

(* The first byte of the driver's buffer goes to the line.                 *)
LEMMA SentOn ==
    ASSUME NEW s \in Seq(Nat), NEW t \in Seq(Nat), t # << >>
    PROVE  /\ Append(s, Head(t)) \in Seq(Nat) /\ Len(Append(s, Head(t))) = Len(s) + 1
           /\ Tail(t) \in Seq(Nat) /\ Len(Tail(t)) = Len(t) - 1
           /\ Append(s, Head(t)) \o Tail(t) = s \o t
<1>1. Len(s) \in Nat /\ Len(t) \in Nat /\ Len(t) > 0
    BY LenProperties, EmptySeq
<1>2. /\ Head(t) \in Nat /\ Tail(t) \in Seq(Nat) /\ Len(Tail(t)) = Len(t) - 1 /\ Head(t) = t[1]
      /\ \A k \in 1 .. Len(t) - 1 : Tail(t)[k] = t[k + 1]
    BY HeadTailProperties
<1>3. /\ Append(s, Head(t)) \in Seq(Nat) /\ Len(Append(s, Head(t))) = Len(s) + 1
      /\ \A k \in 1 .. Len(s) : Append(s, Head(t))[k] = s[k]
      /\ Append(s, Head(t))[Len(s) + 1] = t[1]
    BY <1>2, AppendProperties
<1> DEFINE a == Append(s, Head(t))
           r == Tail(t)
<1>4. /\ a \in Seq(Nat) /\ Len(a) = Len(s) + 1 /\ (\A k \in 1 .. Len(s) : a[k] = s[k]) /\ a[Len(s) + 1] = t[1]
      /\ r \in Seq(Nat) /\ Len(r) = Len(t) - 1 /\ \A k \in 1 .. Len(t) - 1 : r[k] = t[k + 1]
    BY <1>2, <1>3
<1> HIDE DEF a, r
<1>5. /\ a \o r \in Seq(Nat) /\ Len(a \o r) = Len(a) + Len(r)
      /\ \A k \in 1 .. Len(a) + Len(r) : (a \o r)[k] = IF k <= Len(a) THEN a[k] ELSE r[k - Len(a)]
    BY <1>4, ConcatProperties
<1>6. /\ s \o t \in Seq(Nat) /\ Len(s \o t) = Len(s) + Len(t)
      /\ \A k \in 1 .. Len(s) + Len(t) : (s \o t)[k] = IF k <= Len(s) THEN s[k] ELSE t[k - Len(s)]
    BY ConcatProperties
<1> DEFINE m == Len(s)
           n == Len(t)
           u == a \o r
           v == s \o t
<1>7. /\ m \in Nat /\ n \in Nat /\ n > 0
      /\ u \in Seq(Nat) /\ Len(u) = m + n /\ v \in Seq(Nat) /\ Len(v) = m + n
      /\ \A k \in 1 .. m + n : u[k] = IF k <= m + 1 THEN a[k] ELSE r[k - (m + 1)]
      /\ \A k \in 1 .. m + n : v[k] = IF k <= m THEN s[k] ELSE t[k - m]
      /\ \A k \in 1 .. m : a[k] = s[k]
      /\ a[m + 1] = t[1]
      /\ \A k \in 1 .. n - 1 : r[k] = t[k + 1]
    <2>1. Len(a) + Len(r) = m + n
        BY <1>1, <1>4
    <2> QED
        BY <1>1, <1>4, <1>5, <1>6, <2>1
<1> HIDE DEF m, n, u, v
<1>8. ASSUME NEW k \in 1 .. m + n PROVE u[k] = v[k]
    <2>1. CASE k <= m
        <3>1. k \in 1 .. m /\ k <= m + 1
            BY <1>7, <2>1
        <3> QED
            BY <1>7, <2>1, <3>1
    <2>2. CASE k = m + 1
        <3>1. ~(k <= m) /\ k <= m + 1 /\ k - m = 1
            BY <1>7, <2>2
        <3> QED
            BY <1>7, <2>2, <3>1
    <2>3. CASE ~(k <= m + 1)
        <3>1. ~(k <= m) /\ k - (m + 1) \in 1 .. n - 1 /\ (k - (m + 1)) + 1 = k - m
            BY <1>7, <2>3
        <3> QED
            BY <1>7, <2>3, <3>1
    <2> QED
        <3>1. m \in Nat
            BY <1>7
        <3>2. k <= m \/ k = m + 1 \/ ~(k <= m + 1)
            BY <3>1
        <3> QED
            BY <2>1, <2>2, <2>3, <3>2
<1>9. u = v
    BY <1>7, <1>8, SeqEqual
<1> QED
    BY <1>2, <1>3, <1>9 DEF u, v, a, r

(* What is taken out of the ring is where it was, with nothing before it.  *)
LEMMA TakenOut ==
    ASSUME NEW s \in Seq(Nat), NEW t \in Seq(Nat), NEW u \in Seq(Nat)
    PROVE  s \o << >> \o (t \o u) = s \o t \o u
<1>1. s \o << >> = s
    BY ConcatEmptySeq
<1>2. s \o (t \o u) = (s \o t) \o u
    BY ConcatAssociative, SMTT(60)
<1> QED
    BY <1>1, <1>2

(* Nothing is put at first.                                                *)
LEMMA SendInit == Init => SendInv
<1> SUFFICES ASSUME Init PROVE SendInv
    OBVIOUS
<1>1. 0 \in Places /\ TUXCTL_BUFSIZE \in Nat \ {0, 1} /\ MaxBytes \in Nat /\ DriverSize \in Nat \ {0}
    BY TuxRingAssumption, TuxTransmitAssumption DEF Places
<1>2. /\ tx_buf = [k \in Places |-> 0] /\ tx_start = 0 /\ tx_end = 0
      /\ pc = "idle" /\ room = 0 /\ buf = << >> /\ fifo = << >> /\ wire = << >>
      /\ put = 0 /\ lost = {} /\ peak = 0 /\ overtaken = FALSE
    BY DEF Init
<1>3. Len(<< >>) = 0 /\ << >> \in Seq(1 .. MaxBytes) /\ << >> \in Seq(Nat)
    BY EmptySeq
<1>4. TypeOK
    <2>1. tx_buf \in [Places -> 0 .. MaxBytes]
        BY <1>1, <1>2
    <2>2. 0 \in 0 .. DriverSize /\ 0 \in 0 .. MaxBytes /\ 0 <= TUXCTL_BUFSIZE - 1 /\ 0 <= DriverSize
        BY <1>1
    <2> QED
        BY <1>1, <1>2, <1>3, <2>1, <2>2 DEF TypeOK
<1>5. Queued = << >>
    <2>1. Queued \in Seq(Nat) /\ Len(Queued) = buf_used(tx_start, tx_end)
        BY <1>4, Parts
    <2>2. buf_used(tx_start, tx_end) = 0
        BY <1>1, <1>2, UsedIs
    <2> QED
        BY <2>1, <2>2, EmptySeq
<1>6. OnTheWay = << >>
    BY <1>2, <1>3, <1>5, ConcatEmptySeq DEF OnTheWay
<1>7. ByteInv
    BY <1>2, <1>6 DEF ByteInv, Bytes, Distinct, Rising
<1>8. Cardinality({}) = 0
    BY FS_EmptySet
<1> QED
    BY <1>2, <1>3, <1>4, <1>7, <1>8 DEF SendInv, WriteInv, PeakInv, NoLossWhenItFits, TakerInv

(* An ioctl puts a command.                                                *)
LEMMA PutCommandInv == ASSUME SendInv, NEW n \in PutSizes, PutCommand(n) PROVE SendInv'
<1>1. TypeOK /\ ByteInv /\ WriteInv /\ PeakInv /\ TakerInv
    BY DEF SendInv
<1>2. n \in Nat
    BY TuxTransmitAssumption
<1>3. /\ pc' = "put" /\ pc = "idle" /\ Enqueue(n)
      /\ tx_start' = tx_start /\ room' = room /\ buf' = buf /\ fifo' = fifo /\ wire' = wire
      /\ lost' = lost /\ overtaken' = overtaken
    BY DEF PutCommand
<1> DEFINE whole == wire \o fifo \o buf \o Taken(tx_buf', tx_start, buf_used(tx_start, tx_end'))
<1>4. /\ tx_buf' \in [Places -> 0 .. MaxBytes] /\ tx_end' \in Places
      /\ put' \in Nat /\ put' <= MaxBytes /\ put <= put'
      /\ peak' \in 0 .. MaxBytes /\ peak <= peak'
      /\ put' - Len(wire) - Cardinality(lost) <= peak'
      /\ whole \in Seq(Nat) /\ Distinct(whole)
      /\ Bytes(whole) = (1 .. put') \ lost /\ lost \subseteq 1 .. put'
      /\ Rising(OnTheWay) => Rising(whole)
    BY <1>1, <1>2, <1>3, EnqueueIs
<1>5. OnTheWay' = whole
    BY <1>3 DEF OnTheWay, Queued
<1> HIDE DEF whole
<1>6. put' \in 0 .. MaxBytes
    BY <1>4, TuxTransmitAssumption
<1>7. TypeOK'
    BY <1>1, <1>3, <1>4, <1>6 DEF TypeOK
<1>8. ByteInv'
    <2>1. ~overtaken' => Rising(whole)
        BY <1>1, <1>3, <1>4 DEF ByteInv
    <2> QED
        BY <1>3, <1>4, <1>5, <2>1 DEF ByteInv, Bytes, Distinct, Rising
<1>9. WriteInv' /\ TakerInv'
    BY <1>1, <1>3 DEF WriteInv, TakerInv
<1>10. PeakInv'
    <2>1. lost # {} => peak > DriverSize
        BY <1>1 DEF PeakInv, NoLossWhenItFits
    <2>2. peak \in Nat /\ DriverSize \in Nat /\ peak' \in Nat /\ peak <= peak'
        BY <1>1, <1>4, TuxTransmitAssumption DEF TypeOK
    <2>3. put' - Len(wire') - Cardinality(lost') <= peak'
        BY <1>3, <1>4
    <2>4. lost' # {} => peak' > DriverSize
        BY <1>3, <2>1, <2>2
    <2> QED
        BY <2>3, <2>4 DEF PeakInv, NoLossWhenItFits
<1> QED
    BY <1>7, <1>8, <1>9, <1>10 DEF SendInv

(* An ioctl asks for the driver's room.                                    *)
LEMMA ReadRoomInv == ASSUME SendInv, ReadRoom PROVE SendInv'
<1>1. TypeOK /\ ByteInv /\ WriteInv /\ PeakInv /\ TakerInv
    BY DEF SendInv
<1>2. /\ pc = "put" /\ pc' = "room" /\ room' = DriverSize - Len(fifo)
      /\ tx_buf' = tx_buf /\ tx_start' = tx_start /\ tx_end' = tx_end
      /\ buf' = buf /\ fifo' = fifo /\ wire' = wire /\ put' = put /\ lost' = lost
      /\ peak' = peak /\ overtaken' = overtaken
    BY DEF ReadRoom, ring, write_room
<1>3. room' \in 0 .. DriverSize
    BY <1>1, <1>2, LenProperties, TuxTransmitAssumption DEF TypeOK
<1>4. OnTheWay' = OnTheWay
    BY <1>2 DEF OnTheWay, Queued
<1>5. TypeOK'
    BY <1>1, <1>2, <1>3 DEF TypeOK
<1>6. ByteInv'
    BY <1>1, <1>2, <1>4 DEF ByteInv, Bytes, Distinct, Rising
<1> QED
    BY <1>1, <1>2, <1>5, <1>6 DEF SendInv, WriteInv, PeakInv, NoLossWhenItFits, TakerInv

(* An ioctl takes bytes out of the ring.                                   *)
LEMMA TakeBytesInv == ASSUME SendInv, TakeBytes PROVE SendInv'
<1>1. TypeOK /\ ByteInv /\ WriteInv /\ PeakInv /\ TakerInv
    BY DEF SendInv
<1> DEFINE used == buf_used(tx_start, tx_end)
           n == TakeCount(room, used)
           rest == Taken(tx_buf, tx_start', used - n)
<1>2. /\ pc = "room" /\ pc' = "write" /\ buf' = Taken(tx_buf, tx_start, n) /\ tx_start' = Moved(tx_start, n)
      /\ tx_buf' = tx_buf /\ tx_end' = tx_end /\ room' = room /\ fifo' = fifo /\ wire' = wire
      /\ put' = put /\ lost' = lost /\ peak' = peak /\ overtaken' = overtaken
    BY DEF TakeBytes
<1>3. /\ tx_buf \in [Places -> Nat] /\ tx_start \in Places /\ tx_end \in Places
      /\ wire \in Seq(Nat) /\ fifo \in Seq(Nat) /\ buf = << >> /\ put \in Nat /\ put <= MaxBytes
    BY <1>1, <1>2, Parts DEF WriteInv
<1>4. /\ TUXCTL_BUFSIZE \in Nat \ {0, 1} /\ used \in 0 .. TUXCTL_BUFSIZE - 1 /\ (used = 0 <=> tx_start = tx_end)
      /\ room \in Nat
    BY <1>1, <1>3, UsedIs, TuxRingAssumption, TuxTransmitAssumption DEF TypeOK
<1>5. /\ n \in 0 .. used /\ n <= room + 1 /\ (used > 0 => n > 0) /\ n <= TUXCTL_BUFSIZE - 1 /\ n \in Nat
      /\ n \in 0 .. TUXCTL_BUFSIZE /\ used - n \in 0 .. TUXCTL_BUFSIZE
    <2> HIDE DEF used
    <2> QED
        BY <1>4 DEF TakeCount, Smaller
<1> HIDE DEF n
<1>6. tx_start' \in Places /\ buf_used(tx_start', tx_end) = used - n
    <2>1. \A k \in 0 .. used : buf_used(Moved(tx_start, k), tx_end) = used - k
        BY <1>3, UsedIs
    <2> HIDE DEF used
    <2> QED
        BY <1>2, <1>3, <1>5, <2>1, MovedIs
<1> HIDE DEF used
<1>7. buf' \in Seq(Nat) /\ Len(buf') = n
    BY <1>2, <1>3, <1>5, TakenIs
<1>8. rest \in Seq(Nat) /\ Taken(tx_buf, tx_start, used) = buf' \o rest
    <2>1. rest \in Seq(Nat)
        BY <1>3, <1>5, <1>6, TakenIs
    <2>2. Taken(tx_buf, tx_start, used) = Taken(tx_buf, tx_start, n) \o Taken(tx_buf, Moved(tx_start, n), used - n)
        BY <1>3, <1>4, <1>5, TakenInTwo
    <2> QED
        BY <1>2, <2>1, <2>2
<1>9. Queued = buf' \o rest /\ Queued' = rest
    BY <1>2, <1>6, <1>8 DEF Queued, used
<1> HIDE DEF rest
<1>10. OnTheWay' = OnTheWay
    <2> DEFINE s == wire \o fifo
    <2>1. s \in Seq(Nat)
        BY <1>3, ConcatProperties
    <2>2. OnTheWay = s \o << >> \o (buf' \o rest) /\ OnTheWay' = s \o buf' \o rest
        BY <1>2, <1>3, <1>9 DEF OnTheWay
    <2> HIDE DEF s
    <2>3. s \o << >> \o (buf' \o rest) = s \o buf' \o rest
        BY <1>7, <1>8, <2>1, TakenOut
    <2> QED
        BY <2>2, <2>3
<1>11. buf' \in Seq(1 .. MaxBytes)
    <2>1. Bytes(buf') \subseteq Bytes(OnTheWay')
        <3>1. OnTheWay' = wire \o fifo \o buf' \o rest
            BY <1>2, <1>9 DEF OnTheWay
        <3> QED
            BY <1>3, <1>7, <1>8, <3>1, FourJoined
    <2>2. Bytes(OnTheWay) \subseteq 1 .. MaxBytes
        <3>1. 1 .. put \subseteq 1 .. MaxBytes
            BY <1>3, TuxTransmitAssumption
        <3> QED
            BY <1>1, <3>1 DEF ByteInv
    <2>3. Bytes(buf') \subseteq 1 .. MaxBytes
        BY <1>10, <2>1, <2>2
    <2> QED
        BY <1>7, <2>3, OfBytes
<1>12. TypeOK'
    BY <1>1, <1>2, <1>5, <1>6, <1>7, <1>11 DEF TypeOK
<1>13. ByteInv'
    BY <1>1, <1>2, <1>10 DEF ByteInv, Bytes, Distinct, Rising
<1>14. TakerInv'
    <2>1. ASSUME tx_start' # tx_end PROVE n > 0
        <3>1. CASE used = 0
            <4>1. n = 0 /\ tx_start = tx_end
                BY <1>4, <1>5, <3>1
            <4>2. tx_start' = tx_start
                BY <1>2, <1>3, <1>4, <4>1, MovedIs DEF Places
            <4> QED
                BY <2>1, <4>1, <4>2
        <3> QED
            BY <1>4, <1>5, <3>1
    <2>2. n > 0 => buf' # << >>
        BY <1>7, EmptySeq
    <2> QED
        BY <1>2, <2>1, <2>2 DEF TakerInv
<1>15. WriteInv'
    BY <1>2, <1>5, <1>7 DEF WriteInv
<1> QED
    BY <1>1, <1>2, <1>12, <1>13, <1>14, <1>15 DEF SendInv, PeakInv, NoLossWhenItFits

(* What an ioctl's write loses, and when.                                  *)
LEMMA WriteLoses ==
    ASSUME SendInv, WriteBytes
    PROVE  \E c, d \in Seq(Nat) :
               /\ buf = c \o d /\ fifo' = fifo \o c /\ lost' = lost \cup Bytes(d)
               /\ Len(fifo') <= DriverSize
               /\ Bytes(d) # {} => Len(fifo) + Len(buf) > DriverSize
               /\ room <= write_room => \A x, y \in lost' \ lost : x = y
               /\ fifo # << >> \/ buf # << >> => fifo' # << >>
               /\ fifo' \in Seq(Nat) /\ Bytes(fifo') \subseteq Bytes(fifo) \cup Bytes(buf)
<1>1. TypeOK /\ WriteInv
    BY DEF SendInv
<1>2. pc = "write" /\ fifo' = Written(fifo, buf) /\ lost' = lost \cup Refused(fifo, buf)
    BY DEF WriteBytes
<1>3. fifo \in Seq(Nat) /\ buf \in Seq(Nat) /\ Len(fifo) <= DriverSize
    BY <1>1, Parts DEF TypeOK
<1>4. PICK c \in Seq(Nat), d \in Seq(Nat) :
          /\ buf = c \o d
          /\ Written(fifo, buf) = fifo \o c /\ Refused(fifo, buf) = Bytes(d)
          /\ Len(fifo \o c) <= DriverSize
          /\ Refused(fifo, buf) # {} => Len(fifo) + Len(buf) > DriverSize
          /\ Len(buf) <= DriverSize - Len(fifo) + 1 => \A x, y \in Refused(fifo, buf) : x = y
          /\ fifo # << >> \/ buf # << >> => fifo \o c # << >>
    BY <1>3, WriteIs
<1>5. room <= write_room => Len(buf) <= DriverSize - Len(fifo) + 1
    BY <1>1, <1>2, <1>3, LenProperties, TuxTransmitAssumption DEF WriteInv, TypeOK, write_room
<1>6. room <= write_room => \A x, y \in lost' \ lost : x = y
    BY <1>2, <1>4, <1>5
<1>7. fifo \o c \in Seq(Nat) /\ Bytes(fifo \o c) = Bytes(fifo) \cup Bytes(c)
    BY <1>3, Joined
<1>8. Bytes(buf) = Bytes(c) \cup Bytes(d)
    BY <1>4, Joined
<1> QED
    BY <1>2, <1>4, <1>6, <1>7, <1>8

(* An ioctl writes to the driver.                                          *)
LEMMA WriteBytesInv == ASSUME SendInv, WriteBytes PROVE SendInv'
<1>1. TypeOK /\ ByteInv /\ WriteInv /\ PeakInv /\ TakerInv
    BY DEF SendInv
<1>2. /\ pc = "write" /\ pc' = "idle" /\ buf' = << >>
      /\ tx_buf' = tx_buf /\ tx_start' = tx_start /\ tx_end' = tx_end /\ room' = room /\ wire' = wire
      /\ put' = put /\ peak' = peak /\ overtaken' = overtaken
    BY DEF WriteBytes, ring
<1>3. wire \in Seq(Nat) /\ fifo \in Seq(Nat) /\ buf \in Seq(Nat) /\ Queued \in Seq(Nat) /\ put \in Nat /\ put <= MaxBytes
    BY <1>1, Parts
<1>4. Bytes(fifo) \cup Bytes(buf) \subseteq Bytes(OnTheWay)
    BY <1>3, FourJoined DEF OnTheWay
<1>5. PICK c \in Seq(Nat), d \in Seq(Nat) :
          /\ buf = c \o d /\ fifo' = fifo \o c /\ lost' = lost \cup Bytes(d)
          /\ Len(fifo') <= DriverSize
          /\ Bytes(d) # {} => Len(fifo) + Len(buf) > DriverSize
          /\ room <= write_room => \A x, y \in lost' \ lost : x = y
          /\ fifo # << >> \/ buf # << >> => fifo' # << >>
          /\ fifo' \in Seq(Nat) /\ Bytes(fifo') \subseteq Bytes(fifo) \cup Bytes(buf)
    BY WriteLoses
<1> DEFINE q == Queued
<1>6. /\ q \in Seq(Nat) /\ OnTheWay = wire \o fifo \o (c \o d) \o q
      /\ OnTheWay' = wire \o (fifo \o c) \o << >> \o q
    BY <1>2, <1>5, <1>3 DEF OnTheWay, Queued
<1> HIDE DEF q
<1>7. Distinct(wire \o fifo \o (c \o d) \o q)
    BY <1>1, <1>6 DEF ByteInv
<1>8. LET old == wire \o fifo \o (c \o d) \o q
          new == wire \o (fifo \o c) \o << >> \o q
      IN  /\ new \in Seq(Nat) /\ Distinct(new)
          /\ Bytes(new) = Bytes(old) \ Bytes(d) /\ Bytes(d) \subseteq Bytes(old)
          /\ Rising(old) => Rising(new)
    BY <1>3, <1>6, <1>7, HandedOver, SMTT(60)
<1> DEFINE new == OnTheWay'
<1>9. /\ new \in Seq(Nat) /\ Distinct(new) /\ Bytes(new) = Bytes(OnTheWay) \ Bytes(d)
      /\ Bytes(d) \subseteq Bytes(OnTheWay) /\ (Rising(OnTheWay) => Rising(new))
    BY <1>6, <1>8
<1> HIDE DEF new
<1>10. Bytes(new) = (1 .. put') \ lost' /\ lost' \subseteq 1 .. put'
    BY <1>1, <1>2, <1>5, <1>9 DEF ByteInv
<1>11. ByteInv'
    <2>1. ~overtaken' => Rising(new)
        BY <1>1, <1>2, <1>9 DEF ByteInv
    <2> QED
        BY <1>9, <1>10, <2>1 DEF ByteInv, Bytes, Distinct, Rising, new
<1>12. fifo' \in Seq(1 .. MaxBytes)
    <2>1. fifo' \in Seq(Nat) /\ Bytes(fifo') \subseteq Bytes(OnTheWay)
        BY <1>4, <1>5
    <2>2. 1 .. put \subseteq 1 .. MaxBytes
        BY <1>3, TuxTransmitAssumption
    <2>3. Bytes(fifo') \subseteq 1 .. MaxBytes
        BY <1>1, <2>1, <2>2 DEF ByteInv
    <2> QED
        BY <2>1, <2>3, OfBytes
<1>13. lost' \subseteq 1 .. MaxBytes
    <2>1. 1 .. put \subseteq 1 .. MaxBytes
        BY <1>3, TuxTransmitAssumption
    <2> QED
        BY <1>2, <1>10, <2>1
<1>14. TypeOK'
    <2>1. << >> \in Seq(1 .. MaxBytes) /\ Len(<< >>) = 0
        BY EmptySeq
    <2> QED
        BY <1>1, <1>2, <1>5, <1>12, <1>13, <2>1, TuxRingAssumption DEF TypeOK
<1>15. PeakInv'
    <2>1. Cardinality(lost) \in Nat /\ Cardinality(lost') \in Nat /\ Cardinality(lost) <= Cardinality(lost')
        <3>1. lost \subseteq lost' /\ lost' \subseteq 1 .. put
            BY <1>2, <1>5, <1>10
        <3> QED
            BY <1>3, <3>1, MoreLost
    <2>2. /\ Len(wire) \in Nat /\ Len(fifo) \in Nat /\ Len(buf) \in Nat /\ Len(Queued) \in Nat
          /\ Len(wire) + Len(fifo) + Len(buf) + Len(Queued) = put - Cardinality(lost)
        BY <1>1, CountedNow
    <2>3. put - Len(wire) - Cardinality(lost) <= peak /\ (lost # {} => peak > DriverSize) /\ peak \in Nat
        BY <1>1, TuxTransmitAssumption DEF PeakInv, NoLossWhenItFits, TypeOK
    <2>4. put - Len(wire) - Cardinality(lost') <= peak
        BY <1>3, <2>1, <2>2, <2>3, SMTT(60)
    <2>5. Len(fifo) + Len(buf) > DriverSize => peak > DriverSize
        BY <1>3, <2>1, <2>2, <2>3, TuxTransmitAssumption, SMTT(60)
    <2>6. lost' # {} => peak > DriverSize
        BY <1>5, <2>3, <2>5
    <2> QED
        BY <1>2, <2>4, <2>6 DEF PeakInv, NoLossWhenItFits
<1>16. TakerInv'
    BY <1>1, <1>2, <1>5 DEF TakerInv
<1> QED
    BY <1>2, <1>11, <1>14, <1>15, <1>16 DEF SendInv, WriteInv

(* The driver has sent a byte, and may wake the line discipline.           *)
LEMMA SerialInv == ASSUME SendInv, SerialInterrupt
                   PROVE  SendInv' /\ \A x, y \in lost' \ lost : x = y
<1>1. TypeOK /\ ByteInv /\ WriteInv /\ PeakInv /\ TakerInv
    BY DEF SendInv
<1> DEFINE q == Tail(fifo)
           w == Append(wire, Head(fifo))
           used == buf_used(tx_start, tx_end)
<1>2. /\ fifo # << >> /\ wire' = w
      /\ tx_buf' = tx_buf /\ tx_end' = tx_end /\ pc' = pc /\ room' = room /\ buf' = buf
      /\ put' = put /\ peak' = peak
    BY DEF SerialInterrupt
<1>3. IF CanAccept(q) THEN Wakeup(tx_buf, tx_start, tx_end, q)
      ELSE fifo' = q /\ tx_start' = tx_start /\ lost' = lost /\ overtaken' = overtaken
    BY DEF SerialInterrupt
<1>4. /\ tx_buf \in [Places -> Nat] /\ tx_start \in Places /\ tx_end \in Places
      /\ wire \in Seq(Nat) /\ fifo \in Seq(Nat) /\ buf \in Seq(Nat) /\ Queued \in Seq(Nat)
      /\ Len(Queued) = used /\ put \in Nat /\ put <= MaxBytes
    BY <1>1, Parts
<1>5. /\ w \in Seq(Nat) /\ Len(w) = Len(wire) + 1 /\ q \in Seq(Nat) /\ Len(q) = Len(fifo) - 1
      /\ w \o q = wire \o fifo
    BY <1>2, <1>4, SentOn
<1> HIDE DEF q, w, used
<1>6. /\ Cardinality(lost) \in Nat /\ Len(wire) \in Nat /\ Len(fifo) \in Nat /\ Len(buf) \in Nat
      /\ used \in Nat /\ Len(wire) + Len(fifo) + Len(buf) + used = put - Cardinality(lost)
    BY <1>1, <1>4, CountedNow
<1>7. DriverSize \in Nat \ {0} /\ Len(q) \in Nat /\ Len(q) <= DriverSize /\ Len(fifo) <= DriverSize /\ peak \in Nat
    <2>1. Len(q) \in Nat
        BY <1>5, LenProperties
    <2>2. DriverSize \in Nat \ {0} /\ MaxBytes \in Nat /\ Len(fifo) <= DriverSize /\ peak \in 0 .. MaxBytes
        BY <1>1, TuxTransmitAssumption DEF TypeOK
    <2> QED
        BY <1>5, <1>6, <2>1, <2>2
<1>8. overtaken \in BOOLEAN /\ lost \subseteq 1 .. put
    BY <1>1 DEF TypeOK, ByteInv
<1>9. OnTheWay = w \o q \o buf \o Taken(tx_buf, tx_start, used)
    BY <1>5 DEF OnTheWay, Queued, used
<1> DEFINE new == w \o fifo' \o buf \o Taken(tx_buf, tx_start', buf_used(tx_start', tx_end))
<1>10. OnTheWay' = new
    BY <1>2 DEF OnTheWay, Queued
<1> HIDE DEF new
<1>11. /\ tx_start' \in Places /\ fifo' \in Seq(Nat) /\ Len(fifo') <= DriverSize
       /\ overtaken' \in BOOLEAN
       /\ Distinct(new) /\ Bytes(new) = (1 .. put) \ lost' /\ lost' \subseteq 1 .. put
       /\ ~overtaken' => Rising(new)
       /\ Cardinality(lost') \in Nat /\ Cardinality(lost) <= Cardinality(lost')
       /\ lost' # lost => Len(q) + used > DriverSize
       /\ \A x, y \in lost' \ lost : x = y
       /\ tx_start' # tx_end => fifo' # << >>
    <2>1. /\ Distinct(OnTheWay) /\ Bytes(OnTheWay) = (1 .. put) \ lost
          /\ ~overtaken => Rising(OnTheWay)
        BY <1>1 DEF ByteInv
    <2>2. CASE CanAccept(q)
        <3>1. Wakeup(tx_buf, tx_start, tx_end, q)
            BY <1>3, <2>2
        <3>2. /\ Distinct(w \o q \o buf \o Taken(tx_buf, tx_start, buf_used(tx_start, tx_end)))
              /\ Bytes(w \o q \o buf \o Taken(tx_buf, tx_start, buf_used(tx_start, tx_end))) = (1 .. put) \ lost
              /\ ~overtaken => Rising(w \o q \o buf \o Taken(tx_buf, tx_start, buf_used(tx_start, tx_end)))
            BY <1>9, <2>1 DEF used
        <3>3. LET after == w \o fifo' \o buf \o Taken(tx_buf, tx_start', buf_used(tx_start', tx_end))
              IN  /\ tx_start' \in Places /\ fifo' \in Seq(Nat) /\ Len(fifo') <= DriverSize
                  /\ overtaken' \in BOOLEAN
                  /\ Distinct(after) /\ Bytes(after) = (1 .. put) \ lost' /\ lost' \subseteq 1 .. put
                  /\ ~overtaken' => Rising(after)
                  /\ Cardinality(lost) \in Nat /\ Cardinality(lost') \in Nat /\ Cardinality(lost) <= Cardinality(lost')
                  /\ lost' # lost => Len(q) + buf_used(tx_start, tx_end) > DriverSize
                  /\ \A x, y \in lost' \ lost : x = y
                  /\ tx_start' # tx_end => fifo' # << >>
            BY <1>4, <1>5, <1>7, <1>8, <3>1, <3>2, WakeupStep
        <3> QED
            BY <3>3 DEF new, used
    <2>3. CASE ~CanAccept(q)
        <3>1. fifo' = q /\ tx_start' = tx_start /\ lost' = lost /\ overtaken' = overtaken
            BY <1>3, <2>3
        <3>2. new = OnTheWay
            BY <1>9, <3>1 DEF new, used
        <3>3. q # << >>
            <4>1. Len(q) > 0
                BY <1>7, <2>3, TuxTransmitAssumption DEF CanAccept
            <4> QED
                BY <4>1, EmptySeq
        <3>4. tx_start' \in Places /\ fifo' \in Seq(Nat) /\ Len(fifo') <= DriverSize /\ fifo' # << >>
            BY <1>4, <1>5, <1>7, <3>1, <3>3
        <3>5. /\ Cardinality(lost') \in Nat /\ Cardinality(lost) <= Cardinality(lost')
              /\ \A x, y \in lost' \ lost : x = y
            BY <1>6, <3>1
        <3>6. overtaken' \in BOOLEAN
            BY <1>8, <3>1
        <3>7. /\ Distinct(new) /\ Bytes(new) = (1 .. put) \ lost' /\ lost' \subseteq 1 .. put
              /\ ~overtaken' => Rising(new)
            BY <1>8, <2>1, <3>1, <3>2
        <3> QED
            BY <3>1, <3>4, <3>5, <3>6, <3>7
    <2> QED
        BY <2>2, <2>3
<1>12. ByteInv'
    BY <1>2, <1>10, <1>11 DEF ByteInv, Bytes, Distinct, Rising
<1>13. wire' \in Seq(1 .. MaxBytes) /\ fifo' \in Seq(1 .. MaxBytes)
    <2> DEFINE rest == Taken(tx_buf, tx_start', buf_used(tx_start', tx_end))
    <2>1. rest \in Seq(Nat)
        <3>1. buf_used(tx_start', tx_end) \in 0 .. TUXCTL_BUFSIZE
            <4>1. buf_used(tx_start', tx_end) \in 0 .. TUXCTL_BUFSIZE - 1
                BY <1>4, <1>11, UsedIs
            <4> QED
                BY <4>1, TuxRingAssumption
        <3> QED
            BY <1>4, <1>11, <3>1, TakenIs
    <2>2. Bytes(w \o fifo' \o buf \o rest) = (1 .. put) \ lost'
        BY <1>11 DEF new
    <2> HIDE DEF rest
    <2> QED
        BY <1>2, <1>4, <1>5, <1>11, <2>1, <2>2, ArePut, ZenonT(60)
<1>14. TypeOK'
    <2>1. lost' \subseteq 1 .. MaxBytes
        BY <1>4, <1>11, TuxTransmitAssumption
    <2> QED
        BY <1>1, <1>2, <1>11, <1>13, <2>1 DEF TypeOK
<1>15. WriteInv' /\ TakerInv'
    BY <1>1, <1>2, <1>11 DEF WriteInv, TakerInv
<1>16. PeakInv'
    <2>1. put - Len(wire) - Cardinality(lost) <= peak /\ (lost # {} => peak > DriverSize)
        BY <1>1 DEF PeakInv, NoLossWhenItFits
    <2>2. put - Len(w) - Cardinality(lost') <= peak
        <3>1. Cardinality(lost') \in Nat /\ Cardinality(lost) <= Cardinality(lost')
            BY <1>11
        <3>2. put \in Nat /\ Len(w) = Len(wire) + 1 /\ Len(wire) \in Nat
            BY <1>4, <1>5, <1>6
        <3>3. Cardinality(lost) \in Nat /\ peak \in Nat
            BY <1>6, <1>7
        <3> HIDE DEF w
        <3> QED
            BY <2>1, <3>1, <3>2, <3>3
    <2>3. Len(q) + used > DriverSize => peak > DriverSize
        <3>1. Len(fifo) + Len(buf) + used <= peak
            BY <1>4, <1>6, <1>7, <2>1, SMTT(60)
        <3>2. Len(q) = Len(fifo) - 1
            BY <1>5
        <3> QED
            BY <1>6, <1>7, <3>1, <3>2
    <2>4. lost' # {} => peak > DriverSize
        BY <1>11, <2>1, <2>3
    <2> QED
        BY <1>2, <2>2, <2>4 DEF PeakInv, NoLossWhenItFits
<1> QED
    BY <1>11, <1>12, <1>14, <1>15, <1>16 DEF SendInv

(* A reset is answered with two commands.                                  *)
LEMMA ResetInv == ASSUME SendInv, ResetInterrupt
                  PROVE  SendInv' /\ \A x, y \in lost' \ lost : x = y
<1>1. TypeOK /\ ByteInv /\ WriteInv /\ PeakInv /\ TakerInv
    BY DEF SendInv
<1>2. /\ Enqueue(ResetSize) /\ Wakeup(tx_buf', tx_start, tx_end', fifo)
      /\ pc' = pc /\ room' = room /\ buf' = buf /\ wire' = wire
    BY DEF ResetInterrupt
<1> DEFINE b == tx_buf'
           end == tx_end'
           used == buf_used(tx_start, end)
           old == wire \o fifo \o buf \o Taken(b, tx_start, used)
           new == wire \o fifo' \o buf \o Taken(b, tx_start', buf_used(tx_start', end))
<1>3. /\ tx_buf' \in [Places -> 0 .. MaxBytes] /\ tx_end' \in Places
      /\ put' \in Nat /\ put' <= MaxBytes /\ put <= put'
      /\ peak' \in 0 .. MaxBytes /\ peak <= peak'
      /\ put' - Len(wire) - Cardinality(lost) <= peak'
      /\ old \in Seq(Nat) /\ Distinct(old)
      /\ Bytes(old) = (1 .. put') \ lost /\ lost \subseteq 1 .. put'
      /\ Rising(OnTheWay) => Rising(old)
    BY <1>1, <1>2, EnqueueIs, TuxTransmitAssumption
<1>4. /\ tx_start \in Places /\ wire \in Seq(Nat) /\ fifo \in Seq(Nat) /\ buf \in Seq(Nat)
    BY <1>1, Parts
<1>5. b \in [Places -> Nat] /\ end \in Places
    BY <1>3, TuxTransmitAssumption
<1>6. Len(fifo) <= DriverSize /\ overtaken \in BOOLEAN /\ (~overtaken => Rising(old))
    BY <1>1, <1>3 DEF TypeOK, ByteInv
<1>7. Wakeup(b, tx_start, end, fifo)
    BY <1>2
<1>8. OnTheWay' = new
    BY <1>2 DEF OnTheWay, Queued
<1> HIDE DEF b, end
<1>9. /\ tx_start' \in Places /\ fifo' \in Seq(Nat) /\ Len(fifo') <= DriverSize
      /\ overtaken' \in BOOLEAN
      /\ Distinct(new) /\ Bytes(new) = (1 .. put') \ lost' /\ lost' \subseteq 1 .. put'
      /\ ~overtaken' => Rising(new)
      /\ Cardinality(lost) \in Nat /\ Cardinality(lost') \in Nat /\ Cardinality(lost) <= Cardinality(lost')
      /\ lost' # lost => Len(fifo) + used > DriverSize
      /\ \A x, y \in lost' \ lost : x = y
      /\ tx_start' # end => fifo' # << >>
    <2>1. put' \in Nat /\ lost \subseteq 1 .. put' /\ overtaken \in BOOLEAN /\ Len(fifo) <= DriverSize
        BY <1>3, <1>6
    <2>2. /\ Distinct(wire \o fifo \o buf \o Taken(b, tx_start, buf_used(tx_start, end)))
          /\ Bytes(wire \o fifo \o buf \o Taken(b, tx_start, buf_used(tx_start, end))) = (1 .. put') \ lost
          /\ ~overtaken => Rising(wire \o fifo \o buf \o Taken(b, tx_start, buf_used(tx_start, end)))
        BY <1>3, <1>6
    <2>3. LET after == wire \o fifo' \o buf \o Taken(b, tx_start', buf_used(tx_start', end))
          IN  /\ tx_start' \in Places /\ fifo' \in Seq(Nat) /\ Len(fifo') <= DriverSize
              /\ overtaken' \in BOOLEAN
              /\ Distinct(after) /\ Bytes(after) = (1 .. put') \ lost' /\ lost' \subseteq 1 .. put'
              /\ ~overtaken' => Rising(after)
              /\ Cardinality(lost) \in Nat /\ Cardinality(lost') \in Nat /\ Cardinality(lost) <= Cardinality(lost')
              /\ lost' # lost => Len(fifo) + buf_used(tx_start, end) > DriverSize
              /\ \A x, y \in lost' \ lost : x = y
              /\ tx_start' # end => fifo' # << >>
        BY <1>4, <1>5, <1>7, <2>1, <2>2, WakeupStep
    <2> QED
        BY <2>3
<1> DEFINE ring1 == Taken(b, tx_start, used)
           ring2 == Taken(b, tx_start', buf_used(tx_start', end))
<1>10. ring1 \in Seq(Nat) /\ Len(ring1) = used /\ used \in Nat /\ ring2 \in Seq(Nat)
    <2>1. used \in 0 .. TUXCTL_BUFSIZE /\ buf_used(tx_start', end) \in 0 .. TUXCTL_BUFSIZE
        <3>1. used \in 0 .. TUXCTL_BUFSIZE - 1 /\ buf_used(tx_start', end) \in 0 .. TUXCTL_BUFSIZE - 1
            BY <1>4, <1>5, <1>9, UsedIs
        <3> QED
            BY <3>1, TuxRingAssumption
    <2>2. used \in Nat
        BY <2>1, TuxRingAssumption
    <2> HIDE DEF used
    <2> QED
        BY <1>4, <1>5, <1>9, <2>1, <2>2, TakenIs
<1>11. /\ Len(wire) \in Nat /\ Len(fifo) \in Nat /\ Len(buf) \in Nat
       /\ Len(wire) + Len(fifo) + Len(buf) + used = put' - Cardinality(lost)
    <2>1. Len(old) = put' - Cardinality(lost)
        <3>1. lost \in SUBSET (1 .. put')
            BY <1>3
        <3> QED
            BY <1>3, <3>1, LengthIs
    <2> HIDE DEF ring1, used
    <2>2. old = wire \o fifo \o buf \o ring1
        BY DEF ring1
    <2> HIDE DEF old
    <2>3. Len(old) = Len(wire) + Len(fifo) + Len(buf) + Len(ring1)
        <3>1. ring1 \in Seq(Nat)
            BY <1>10
        <3> QED
            BY <1>4, <2>2, <3>1, FourJoined
    <2> QED
        BY <1>4, <1>10, <2>1, <2>3, LenProperties
<1>12. wire' \in Seq(1 .. MaxBytes) /\ fifo' \in Seq(1 .. MaxBytes) /\ buf' \in Seq(1 .. MaxBytes)
    <2>1. Bytes(wire \o fifo' \o buf \o ring2) = (1 .. put') \ lost'
        BY <1>9
    <2> HIDE DEF ring2
    <2>2. fifo' \in Seq(1 .. MaxBytes)
        <3>1. put' \in Nat /\ put' <= MaxBytes /\ ring2 \in Seq(Nat) /\ fifo' \in Seq(Nat)
            BY <1>3, <1>9, <1>10
        <3> QED
            BY <1>4, <2>1, <3>1, ArePut
    <2> QED
        BY <1>1, <1>2, <2>2 DEF TypeOK
<1> HIDE DEF old, new, used, ring1, ring2
<1>13. ByteInv'
    BY <1>8, <1>9 DEF ByteInv, Bytes, Distinct, Rising
<1>14. TypeOK'
    <2>1. lost' \subseteq 1 .. MaxBytes /\ put' \in 0 .. MaxBytes
        BY <1>3, <1>9, TuxTransmitAssumption
    <2> QED
        BY <1>1, <1>2, <1>3, <1>9, <1>12, <2>1 DEF TypeOK
<1>15. WriteInv' /\ TakerInv'
    BY <1>1, <1>2, <1>9 DEF WriteInv, TakerInv, end
<1>16. PeakInv'
    <2>1. peak \in Nat /\ peak' \in Nat /\ DriverSize \in Nat /\ (lost # {} => peak > DriverSize)
        BY <1>1, <1>3, TuxTransmitAssumption DEF PeakInv, NoLossWhenItFits, TypeOK
    <2>2. put' - Len(wire) - Cardinality(lost') <= peak'
        <3>1. put' \in Nat /\ put' - Len(wire) - Cardinality(lost) <= peak'
            BY <1>3
        <3>2. Cardinality(lost) \in Nat /\ Cardinality(lost') \in Nat /\ Cardinality(lost) <= Cardinality(lost')
            BY <1>9
        <3> QED
            BY <1>11, <2>1, <3>1, <3>2, SMTT(60)
    <2>3. Len(fifo) + used > DriverSize => peak' > DriverSize
        <3>1. put' \in Nat /\ put' - Len(wire) - Cardinality(lost) <= peak' /\ used \in Nat /\ Cardinality(lost) \in Nat
            BY <1>3, <1>9, <1>10
        <3> QED
            BY <1>11, <2>1, <3>1, SMTT(60)
    <2>4. lost' # {} => peak' > DriverSize
        BY <1>3, <1>9, <2>1, <2>3, SMTT(60)
    <2> QED
        BY <1>2, <2>2, <2>4 DEF PeakInv, NoLossWhenItFits
<1> QED
    BY <1>9, <1>13, <1>14, <1>15, <1>16 DEF SendInv

(* No step breaks it.                                                      *)
LEMMA SendStep == SendInv /\ [Next]_vars => SendInv'
<1> SUFFICES ASSUME SendInv, [Next]_vars PROVE SendInv'
    OBVIOUS
<1>1. CASE \E n \in PutSizes : PutCommand(n)
    BY <1>1, PutCommandInv
<1>2. CASE ReadRoom
    BY <1>2, ReadRoomInv
<1>3. CASE TakeBytes
    BY <1>3, TakeBytesInv
<1>4. CASE WriteBytes
    BY <1>4, WriteBytesInv
<1>5. CASE SerialInterrupt
    BY <1>5, SerialInv
<1>6. CASE ResetInterrupt
    BY <1>6, ResetInv
<1>7. CASE UNCHANGED vars
    <2>1. OnTheWay' = OnTheWay
        BY <1>7 DEF vars, OnTheWay, Queued
    <2>2. TypeOK' /\ WriteInv' /\ PeakInv' /\ TakerInv'
        BY <1>7 DEF SendInv, vars, TypeOK, WriteInv, PeakInv, NoLossWhenItFits, TakerInv
    <2>3. ByteInv'
        BY <1>7, <2>1 DEF SendInv, vars, ByteInv, Bytes, Distinct, Rising
    <2> QED
        BY <2>2, <2>3 DEF SendInv
<1> QED
    BY <1>1, <1>2, <1>3, <1>4, <1>5, <1>6, <1>7 DEF Next, IoctlSteps

(* The invariant says what is promised.                                    *)
LEMMA SendSafe == SendInv => SendSafety
<1> SUFFICES ASSUME SendInv PROVE SendSafety
    OBVIOUS
<1>1. TypeOK /\ ByteInv /\ WriteInv /\ PeakInv /\ TakerInv
    BY DEF SendInv
<1>2. InOrder
    <2>1. Len(OnTheWay) = put - Cardinality(lost)
        BY <1>1, CountedNow
    <2> QED
        BY <1>1, <2>1 DEF ByteInv, InOrder, Bytes, Rising
<1>3. NoneStranded
    BY <1>1 DEF TakerInv, WriteInv, NoneStranded
<1> QED
    BY <1>1, <1>2, <1>3 DEF SendSafety, PeakInv

(* A set of one at most.                                                   *)
LEMMA OneAtMost ==
    ASSUME NEW S, \A x, y \in S : x = y
    PROVE  Cardinality(S) <= 1
<1>1. CASE S = {}
    BY <1>1, FS_EmptySet
<1>2. CASE S # {}
    <2>1. PICK x \in S : TRUE
        BY <1>2
    <2>2. S = {x}
        BY <2>1
    <2> QED
        BY <2>2, FS_Singleton
<1> QED
    BY <1>1, <1>2

(* What a step loses.                                                      *)
LEMMA LossStep ==
    ASSUME SendInv, [Next]_vars
    PROVE  Cardinality(lost' \ lost) <= 1 \/ (pc = "write" /\ room > write_room)
<1>1. CASE lost' = lost
    <2>1. lost' \ lost = {}
        BY <1>1
    <2> QED
        BY <2>1, FS_EmptySet
<1>2. CASE SerialInterrupt
    BY <1>2, SerialInv, OneAtMost
<1>3. CASE ResetInterrupt
    BY <1>3, ResetInv, OneAtMost
<1>4. CASE WriteBytes
    <2>1. room <= write_room => \A x, y \in lost' \ lost : x = y
        BY <1>4, WriteLoses
    <2>2. pc = "write"
        BY <1>4 DEF WriteBytes
    <2>3. room <= write_room \/ room > write_room
        <3>1. TypeOK /\ room \in Nat /\ DriverSize \in Nat
            BY TuxTransmitAssumption DEF SendInv, TypeOK
        <3>2. Len(fifo) \in Nat
            BY <3>1, LenProperties DEF TypeOK
        <3> QED
            BY <3>1, <3>2 DEF write_room
    <2> QED
        BY <2>1, <2>2, <2>3, OneAtMost
<1>5. CASE \E n \in PutSizes : PutCommand(n)
    BY <1>1, <1>5 DEF PutCommand
<1>6. CASE ReadRoom \/ TakeBytes
    BY <1>1, <1>6 DEF ReadRoom, TakeBytes
<1>7. CASE UNCHANGED vars
    BY <1>1, <1>7 DEF vars
<1> QED
    BY <1>2, <1>3, <1>4, <1>5, <1>6, <1>7 DEF Next, IoctlSteps

(* A step of the whole is one of the transmitting half or leaves it alone. *)
LEMMA TransmitMoves == [MCNext]_all => [Next]_vars
<1> SUFFICES ASSUME [MCNext]_all PROVE [Next]_vars
    OBVIOUS
<1>1. CASE Transmitting(Next)
    BY <1>1 DEF Transmitting
<1>2. CASE Receiving
    BY <1>2 DEF Receiving
<1>3. CASE In("current", Current!Next, <<ofPoll, ofAck>>)
    BY <1>3 DEF In
<1>4. CASE In("poll", Poll!Next, ofAck)
    BY <1>4 DEF In
<1>5. CASE In("ack", WithAck!Next, ofPoll)
    BY <1>5 DEF In
<1>6. CASE UNCHANGED all
    BY <1>6 DEF all
<1> QED
    BY <1>1, <1>2, <1>3, <1>4, <1>5, <1>6 DEF MCNext

(* For rings, drivers and commands of every size and wherever interrupts   *)
(* come between the steps of an ioctl: bytes leave in the order they were  *)
(* put unless one wakeup overtook another, none is lost that would have    *)
(* fit, and none waits in the ring that nobody will send                   *)
(* (tuxctl-ld.c:189-265).                                                  *)
THEOREM SendSafetyHolds == MCSpec => []SendSafety
<1>1. MCInit => SendInv
    BY SendInit DEF MCInit
<1>2. SendInv /\ [MCNext]_all => SendInv'
    BY SendStep, TransmitMoves
<1> QED
    BY <1>1, <1>2, SendSafe, PTL DEF MCSpec

(* A wakeup loses one byte at most unless the room it was told has gone    *)
(* before it writes (tuxctl-ld.c:197-214).                                 *)
THEOREM LossBoundedHolds == MCSpec => LossBounded
<1>1. MCInit => SendInv
    BY SendInit DEF MCInit
<1>2. SendInv /\ [MCNext]_all => SendInv'
    BY SendStep, TransmitMoves
<1>3. SendInv /\ [MCNext]_all => [Cardinality(lost' \ lost) <= 1 \/ (pc = "write" /\ room > write_room)]_vars
    BY LossStep, TransmitMoves
<1> QED
    BY <1>1, <1>2, <1>3, PTL DEF MCSpec, LossBounded

-----------------------------------------------------------------------------
(***************************************************************************)
(* Proof of DriverSafety.  Each driver has an invariant that says what may *)
(* be on the line in both directions and what the driver and the LEDs are  *)
(* once it has been taken: CurrentInv, PollInv and AckInv.                 *)
(***************************************************************************)

\* No element of a sequence is in a set, and its last element that is one is x.
NoneIn(s, P) == \A k \in DOMAIN s : s[k] \notin P
LastIs(s, P, x) ==
    \A k \in DOMAIN s : s[k] \in P /\ (\A j \in DOMAIN s : j > k => s[j] \notin P) => s[k] = x

(* What is put behind a sequence.                                          *)
LEMMA Behind ==
    ASSUME NEW S, NEW s \in Seq(S), NEW t \in Seq(S), NEW P
    PROVE  /\ s \o t \in Seq(S)
           /\ NoneIn(s \o t, P) <=> NoneIn(s, P) /\ NoneIn(t, P)
           /\ \A x : LastIs(s, P, x) /\ NoneIn(t, P) => LastIs(s \o t, P, x)
           /\ \A x : LastIs(t, P, x) /\ ~NoneIn(t, P) => LastIs(s \o t, P, x)
<1> DEFINE st == s \o t
           n == Len(s)
           m == Len(t)
<1>1. /\ n \in Nat /\ m \in Nat /\ DOMAIN s = 1 .. n /\ DOMAIN t = 1 .. m
      /\ st \in Seq(S) /\ DOMAIN st = 1 .. n + m
      /\ \A k \in 1 .. n : st[k] = s[k]
      /\ \A k \in 1 .. m : st[n + k] = t[k]
    <2>1. st \in Seq(S) /\ Len(st) = n + m /\ n \in Nat /\ m \in Nat
        BY ConcatProperties, LenProperties
    <2>2. \A k \in 1 .. n + m : st[k] = IF k <= n THEN s[k] ELSE t[k - n]
        BY ConcatProperties
    <2>3. \A k \in 1 .. m : n + k \in 1 .. n + m /\ ~(n + k <= n) /\ (n + k) - n = k
        BY <2>1
    <2>4. DOMAIN s = 1 .. n /\ DOMAIN t = 1 .. m /\ DOMAIN st = 1 .. n + m
        BY <2>1, LenProperties
    <2> HIDE DEF st, n, m
    <2>5. \A k \in 1 .. n : st[k] = s[k]
        BY <2>1, <2>2
    <2>6. \A k \in 1 .. m : st[n + k] = t[k]
        BY <2>2, <2>3
    <2> QED
        BY <2>1, <2>4, <2>5, <2>6
<1> HIDE DEF st, n, m
<1>2. /\ \A k \in 1 .. n : k \in 1 .. n + m
      /\ \A k \in 1 .. m : n + k \in 1 .. n + m
      /\ \A k \in 1 .. n + m : k \in 1 .. n \/ \E j \in 1 .. m : k = n + j
    <2>1. ASSUME NEW k \in 1 .. n + m, k \notin 1 .. n PROVE k - n \in 1 .. m /\ k = n + (k - n)
        BY <1>1, <2>1
    <2> QED
        BY <1>1, <2>1
<1>3. NoneIn(st, P) <=> NoneIn(s, P) /\ NoneIn(t, P)
    <2>1. ASSUME NoneIn(st, P) PROVE NoneIn(s, P) /\ NoneIn(t, P)
        <3>1. ASSUME NEW k \in 1 .. n PROVE s[k] \notin P
            BY <1>1, <1>2, <2>1 DEF NoneIn
        <3>2. ASSUME NEW k \in 1 .. m PROVE t[k] \notin P
            BY <1>1, <1>2, <2>1 DEF NoneIn
        <3> QED
            BY <1>1, <3>1, <3>2 DEF NoneIn
    <2>2. ASSUME NoneIn(s, P), NoneIn(t, P), NEW k \in 1 .. n + m PROVE st[k] \notin P
        BY <1>1, <1>2, <2>2 DEF NoneIn
    <2> QED
        BY <1>1, <2>1, <2>2 DEF NoneIn
<1>4. ASSUME NEW x, LastIs(s, P, x), NoneIn(t, P) PROVE LastIs(st, P, x)
    <2> SUFFICES ASSUME NEW k \in 1 .. n + m, st[k] \in P, \A j \in 1 .. n + m : j > k => st[j] \notin P
                 PROVE  st[k] = x
        BY <1>1 DEF LastIs
    <2>1. k \in 1 .. n
        BY <1>1, <1>2, <1>4 DEF NoneIn
    <2>2. \A j \in 1 .. n : j > k => s[j] \notin P
        BY <1>1, <1>2
    <2> QED
        BY <1>1, <1>4, <2>1, <2>2 DEF LastIs
<1>5. ASSUME NEW x, LastIs(t, P, x), ~NoneIn(t, P) PROVE LastIs(st, P, x)
    <2> SUFFICES ASSUME NEW k \in 1 .. n + m, st[k] \in P, \A j \in 1 .. n + m : j > k => st[j] \notin P
                 PROVE  st[k] = x
        BY <1>1 DEF LastIs
    <2>1. PICK i \in 1 .. m : t[i] \in P
        BY <1>1, <1>5 DEF NoneIn
    <2>2. ~(k < n + i)
        BY <1>1, <1>2, <2>1
    <2>3. PICK j \in 1 .. m : k = n + j
        BY <1>1, <1>2, <2>2
    <2>4. \A l \in 1 .. m : l > j => t[l] \notin P
        BY <1>1, <1>2, <2>3
    <2> QED
        BY <1>1, <1>5, <2>3, <2>4 DEF LastIs
<1> QED
    BY <1>1, <1>3, <1>4, <1>5 DEF st

(* What is left of a sequence whose first elements have gone.              *)
LEMMA Gone ==
    ASSUME NEW S, NEW s \in Seq(S), NEW n \in 0 .. Len(s)
    PROVE  LET t == SubSeq(s, n + 1, Len(s))
           IN  /\ t \in Seq(S) /\ Len(t) = Len(s) - n
               /\ \A k \in 1 .. Len(s) - n : n + k \in 1 .. Len(s) /\ t[k] = s[n + k]
               /\ \A P : NoneIn(s, P) => NoneIn(t, P)
               /\ \A P, x : LastIs(s, P, x) => LastIs(t, P, x)
<1> DEFINE t == SubSeq(s, n + 1, Len(s))
           m == Len(s)
<1>1. m \in Nat /\ DOMAIN s = 1 .. m /\ n \in Nat /\ n <= m
    BY LenProperties
<1>2. t \in Seq(S) /\ Len(t) = m - n /\ \A k \in 1 .. m - n : t[k] = s[n + k]
    <2>1. n + 1 \in 1 .. m + 1 /\ m \in n .. m
        BY <1>1
    <2>2. /\ t \in Seq(S)
          /\ Len(t) = IF n + 1 <= m THEN m - (n + 1) + 1 ELSE 0
          /\ \A k \in 1 .. m - (n + 1) + 1 : t[k] = s[n + 1 + k - 1]
        BY <1>1, <2>1, SubSeqProperties
    <2>3. m - (n + 1) + 1 = m - n /\ \A k \in 1 .. m - n : n + 1 + k - 1 = n + k
        BY <1>1
    <2> HIDE DEF t, m
    <2>4. Len(t) = m - n
        BY <1>1, <2>2
    <2>5. ASSUME NEW k \in 1 .. m - n PROVE t[k] = s[n + k]
        <3>1. k \in 1 .. m - (n + 1) + 1 /\ n + 1 + k - 1 = n + k
            BY <2>3
        <3>2. t[k] = s[n + 1 + k - 1]
            BY <2>2, <3>1
        <3> QED
            BY <3>1, <3>2
    <2> QED
        BY <2>2, <2>4, <2>5
<1>3. DOMAIN t = 1 .. m - n
    BY <1>2, LenProperties
<1> HIDE DEF t, m
<1>4. /\ \A k \in 1 .. m - n : n + k \in 1 .. m
      /\ \A k \in 1 .. m : k > n => k - n \in 1 .. m - n /\ n + (k - n) = k
    BY <1>1
<1>5. ASSUME NEW P, NoneIn(s, P) PROVE NoneIn(t, P)
    BY <1>1, <1>2, <1>3, <1>4, <1>5 DEF NoneIn
<1>6. ASSUME NEW P, NEW x, LastIs(s, P, x) PROVE LastIs(t, P, x)
    <2> SUFFICES ASSUME NEW k \in 1 .. m - n, t[k] \in P, \A j \in 1 .. m - n : j > k => t[j] \notin P
                 PROVE  t[k] = x
        BY <1>3 DEF LastIs
    <2>1. ASSUME NEW j \in 1 .. m, j > n + k PROVE s[j] \notin P
        <3>1. j - n \in 1 .. m - n /\ n + (j - n) = j /\ j - n > k
            BY <1>1, <1>4, <2>1
        <3>2. t[j - n] = s[j]
            BY <1>2, <3>1
        <3> QED
            BY <3>1, <3>2
    <2>2. n + k \in 1 .. m /\ s[n + k] = t[k]
        BY <1>2, <1>4
    <2> QED
        BY <1>1, <1>6, <2>1, <2>2 DEF LastIs
<1> QED
    BY <1>2, <1>4, <1>5, <1>6 DEF t, m

(* The first element, and the others.                                      *)
LEMMA FirstGone ==
    ASSUME NEW S, NEW s \in Seq(S), s # << >>
    PROVE  /\ Tail(s) \in Seq(S) /\ Head(s) \in S
           /\ \A P : NoneIn(s, P) <=> Head(s) \notin P /\ NoneIn(Tail(s), P)
           /\ \A P, x : LastIs(s, P, x) => LastIs(Tail(s), P, x)
           /\ \A P, x : LastIs(s, P, x) /\ Head(s) \in P /\ NoneIn(Tail(s), P) => Head(s) = x
<1> DEFINE t == Tail(s)
           m == Len(s)
<1>1. /\ m \in Nat \ {0} /\ DOMAIN s = 1 .. m /\ Head(s) = s[1]
      /\ t \in Seq(S) /\ DOMAIN t = 1 .. m - 1
      /\ \A k \in 1 .. m - 1 : t[k] = s[k + 1]
    <2>1. m \in Nat /\ m # 0 /\ DOMAIN s = 1 .. m
        BY LenProperties, EmptySeq
    <2>2. t \in Seq(S) /\ Len(t) = m - 1 /\ Head(s) = s[1]
        BY HeadTailProperties
    <2>3. \A k \in 1 .. m - 1 : t[k] = s[k + 1]
        BY <2>2, HeadTailProperties
    <2> QED
        BY <2>1, <2>2, <2>3, LenProperties
<1>2. Head(s) \in S
    BY <1>1, ElementOfSeq
<1> HIDE DEF t, m
<1>3. /\ \A k \in 1 .. m - 1 : k + 1 \in 1 .. m
      /\ \A k \in 1 .. m : k = 1 \/ (k - 1 \in 1 .. m - 1 /\ (k - 1) + 1 = k)
      /\ 1 \in 1 .. m
    BY <1>1
<1>4. \A k \in 1 .. m : k = 1 \/ \E j \in 1 .. m - 1 : k = j + 1
    BY <1>3
<1>5. ASSUME NEW P PROVE NoneIn(s, P) <=> Head(s) \notin P /\ NoneIn(t, P)
    BY <1>1, <1>3, <1>4 DEF NoneIn
<1>6. ASSUME NEW P, NEW x, LastIs(s, P, x) PROVE LastIs(t, P, x)
    <2> SUFFICES ASSUME NEW k \in 1 .. m - 1, t[k] \in P, \A j \in 1 .. m - 1 : j > k => t[j] \notin P
                 PROVE  t[k] = x
        BY <1>1 DEF LastIs
    <2>1. ASSUME NEW j \in 1 .. m, j > k + 1 PROVE s[j] \notin P
        <3>1. j - 1 \in 1 .. m - 1 /\ (j - 1) + 1 = j /\ j - 1 > k
            BY <1>1, <2>1
        <3>2. t[j - 1] = s[j]
            BY <1>1, <3>1
        <3> QED
            BY <3>1, <3>2
    <2>2. k + 1 \in 1 .. m /\ s[k + 1] = t[k]
        BY <1>1, <1>3
    <2> QED
        BY <1>1, <1>6, <2>1, <2>2 DEF LastIs
<1>7. ASSUME NEW P, NEW x, LastIs(s, P, x), Head(s) \in P, NoneIn(t, P) PROVE Head(s) = x
    <2>1. ASSUME NEW j \in 1 .. m, j > 1 PROVE s[j] \notin P
        <3>1. PICK i \in 1 .. m - 1 : j = i + 1
            BY <1>1, <1>4, <2>1
        <3>2. t[i] = s[j]
            BY <1>1, <3>1
        <3> QED
            BY <1>1, <1>7, <3>2 DEF NoneIn
    <2> QED
        BY <1>1, <1>3, <1>7, <2>1 DEF LastIs
<1> QED
    BY <1>1, <1>2, <1>5, <1>6, <1>7 DEF t

(* Sequences of one, two and three elements.                               *)
LEMMA Few ==
    ASSUME NEW S, NEW a \in S, NEW b \in S, NEW c \in S
    PROVE  /\ <<a>> \in Seq(S) /\ <<a, b>> \in Seq(S) /\ <<a, b, c>> \in Seq(S)
           /\ \A P : NoneIn(<<a>>, P) <=> a \notin P
           /\ \A P : NoneIn(<<a, b>>, P) <=> a \notin P /\ b \notin P
           /\ \A P : NoneIn(<<a, b, c>>, P) <=> a \notin P /\ b \notin P /\ c \notin P
           /\ \A P : LastIs(<<a>>, P, a)
           /\ \A P : c \in P => LastIs(<<a, b, c>>, P, c)
<1>1. <<a>> \in Seq(S) /\ <<a, b>> \in Seq(S) /\ <<a, b, c>> \in Seq(S)
    OBVIOUS
<1>2. DOMAIN <<a>> = {1} /\ DOMAIN <<a, b>> = {1, 2} /\ DOMAIN <<a, b, c>> = {1, 2, 3}
    OBVIOUS
<1>3. \A P : NoneIn(<<a>>, P) <=> a \notin P
    BY <1>2 DEF NoneIn
<1>4. \A P : NoneIn(<<a, b>>, P) <=> a \notin P /\ b \notin P
    BY <1>2 DEF NoneIn
<1>5. \A P : NoneIn(<<a, b, c>>, P) <=> a \notin P /\ b \notin P /\ c \notin P
    BY <1>2 DEF NoneIn
<1>6. \A P : LastIs(<<a>>, P, a)
    BY <1>2 DEF LastIs
<1>7. ASSUME NEW P, c \in P PROVE LastIs(<<a, b, c>>, P, c)
    BY <1>2, <1>7 DEF LastIs
<1> QED
    BY <1>1, <1>3, <1>4, <1>5, <1>6, <1>7

(* What one element is put behind.                                         *)
LEMMA OneBehind ==
    ASSUME NEW S, NEW s \in Seq(S), NEW a \in S
    PROVE  /\ s \o <<a>> \in Seq(S)
           /\ \A P : NoneIn(s \o <<a>>, P) <=> NoneIn(s, P) /\ a \notin P
           /\ \A P, x : LastIs(s, P, x) /\ a \notin P => LastIs(s \o <<a>>, P, x)
           /\ \A P : a \in P => LastIs(s \o <<a>>, P, a)
<1>1. <<a>> \in Seq(S)
    BY Few
<1>2. \A P : (NoneIn(<<a>>, P) <=> a \notin P) /\ LastIs(<<a>>, P, a)
    BY Few
<1> QED
    BY <1>1, <1>2, Behind

(* What an empty sequence holds.                                           *)
LEMMA NothingIn == \A P, x : NoneIn(<< >>, P) /\ LastIs(<< >>, P, x)
    BY DEF NoneIn, LastIs

(* The bits of a word whose digits are A, B, C and D.                      *)
LEMMA WordOf ==
    ASSUME NEW A \in SUBSET (0 .. 3), NEW B \in SUBSET (4 .. 7), NEW C \in SUBSET (8 .. 11), NEW D \in SUBSET (12 .. 15)
    PROVE  LET word == {16, 17, 18, 19, 26} \cup A \cup B \cup C \cup D
           IN  /\ Tux!On(word) = Tux!LEDs
               /\ Tux!Digit(word, 0) = Tux!Digit(A, 0) /\ Tux!Digit(word, 1) = Tux!Digit(B, 1)
               /\ Tux!Digit(word, 2) = Tux!Digit(C, 2) /\ Tux!Digit(word, 3) = Tux!Digit(D, 3)
               /\ \A k \in Tux!LEDs : Tux!Point(word, k) = (k = 2)
<1> DEFINE word == {16, 17, 18, 19, 26} \cup A \cup B \cup C \cup D
<1>1. Tux!On(word) = Tux!LEDs
    <2>1. Tux!LEDs = {0, 1, 2, 3}
        BY DEF Tux!LEDs
    <2>2. \A k \in {0, 1, 2, 3} : 16 + k \in word
        OBVIOUS
    <2> QED
        BY <2>1, <2>2 DEF Tux!On
<1>2. /\ word \cap (0 .. 3) = A \cap (0 .. 3) /\ word \cap (4 .. 7) = B \cap (4 .. 7)
      /\ word \cap (8 .. 11) = C \cap (8 .. 11) /\ word \cap (12 .. 15) = D \cap (12 .. 15)
    OBVIOUS
<1>3. /\ Tux!Digit(word, 0) = Tux!Digit(A, 0) /\ Tux!Digit(word, 1) = Tux!Digit(B, 1)
      /\ Tux!Digit(word, 2) = Tux!Digit(C, 2) /\ Tux!Digit(word, 3) = Tux!Digit(D, 3)
    <2>1. /\ 4 * 0 = 0 /\ 4 * 0 + 3 = 3 /\ 4 * 1 = 4 /\ 4 * 1 + 3 = 7
          /\ 4 * 2 = 8 /\ 4 * 2 + 3 = 11 /\ 4 * 3 = 12 /\ 4 * 3 + 3 = 15
        OBVIOUS
    <2> HIDE DEF word
    <2> QED
        BY <1>2, <2>1 DEF Tux!Digit
<1>4. ASSUME NEW k \in Tux!LEDs PROVE Tux!Point(word, k) = (k = 2)
    BY <1>4 DEF Tux!Point, Tux!LEDs
<1> QED
    BY <1>1, <1>3, <1>4

(* Where a digit's bits are.                                               *)
LEMMA NibbleIn ==
    ASSUME NEW n
    PROVE  /\ Tux!Nibble(n, 0) \in SUBSET (0 .. 3) /\ Tux!Nibble(n, 1) \in SUBSET (4 .. 7)
           /\ Tux!Nibble(n, 2) \in SUBSET (8 .. 11) /\ Tux!Nibble(n, 3) \in SUBSET (12 .. 15)
<1> DEFINE bits == {b \in 0 .. 3 : (n \div 2^b) % 2 = 1}
<1>1. bits \subseteq 0 .. 3
    OBVIOUS
<1>2. \A k : Tux!Nibble(n, k) = {4 * k + b : b \in bits}
    BY DEF Tux!Nibble
<1> HIDE DEF bits
<1> QED
    BY <1>1, <1>2

(* LEDs that show a time's word show the time.                             *)
LEMMA TimeShows ==
    ASSUME NEW t, NEW leds, NEW w,
           w = {16, 17, 18, 19, 26} \cup Tux!Nibble((t % 60) % 10, 0) \cup Tux!Nibble((t % 60) \div 10, 1)
                   \cup Tux!Nibble((t \div 60) % 10, 2) \cup Tux!Nibble((t \div 60) \div 10, 3)
    PROVE  /\ Tux!On(w) = Tux!LEDs
           /\ (\A k \in Tux!LEDs : leds[k] = Tux!Shown(w, k)) => Tux!TimeOn(leds, t)
<1> DEFINE s == t % 60
           m == t \div 60
           A == Tux!Nibble(s % 10, 0)
           B == Tux!Nibble(s \div 10, 1)
           C == Tux!Nibble(m % 10, 2)
           D == Tux!Nibble(m \div 10, 3)
<1>1. w = {16, 17, 18, 19, 26} \cup A \cup B \cup C \cup D
    OBVIOUS
<1>2. A \in SUBSET (0 .. 3) /\ B \in SUBSET (4 .. 7) /\ C \in SUBSET (8 .. 11) /\ D \in SUBSET (12 .. 15)
    BY NibbleIn
<1> HIDE DEF A, B, C, D, s, m
<1>3. LET word == {16, 17, 18, 19, 26} \cup A \cup B \cup C \cup D
      IN  /\ Tux!On(word) = Tux!LEDs
          /\ Tux!Digit(word, 0) = Tux!Digit(A, 0) /\ Tux!Digit(word, 1) = Tux!Digit(B, 1)
          /\ Tux!Digit(word, 2) = Tux!Digit(C, 2) /\ Tux!Digit(word, 3) = Tux!Digit(D, 3)
          /\ \A k \in Tux!LEDs : Tux!Point(word, k) = (k = 2)
    BY <1>2, WordOf, ZenonT(60)
<1>4. /\ Tux!On(w) = Tux!LEDs
      /\ Tux!Digit(w, 0) = Tux!Digit(Tux!Nibble(s % 10, 0), 0) /\ Tux!Digit(w, 1) = Tux!Digit(Tux!Nibble(s \div 10, 1), 1)
      /\ Tux!Digit(w, 2) = Tux!Digit(Tux!Nibble(m % 10, 2), 2) /\ Tux!Digit(w, 3) = Tux!Digit(Tux!Nibble(m \div 10, 3), 3)
      /\ \A k \in Tux!LEDs : Tux!Point(w, k) = (k = 2)
    BY <1>1, <1>3, ZenonT(60) DEF A, B, C, D
<1>5. ASSUME \A k \in Tux!LEDs : leds[k] = Tux!Shown(w, k) PROVE Tux!TimeOn(leds, t)
    <2>1. ASSUME NEW k \in {0, 1, 2, 3} PROVE ~leds[k].blank /\ leds[k].digit = Tux!Digit(w, k) /\ leds[k].point = (k = 2)
        <3>1. k \in Tux!LEDs
            BY <2>1 DEF Tux!LEDs
        <3>2. leds[k] = [digit |-> Tux!Digit(w, k), point |-> Tux!Point(w, k), blank |-> FALSE]
            BY <1>5, <3>1 DEF Tux!Shown
        <3>3. leds[k].digit = Tux!Digit(w, k) /\ leds[k].point = Tux!Point(w, k) /\ leds[k].blank = FALSE
            BY <3>2
        <3> QED
            BY <1>4, <3>1, <3>3
    <2> DEFINE IsDigit(k, n) == ~leds[k].blank /\ leds[k].digit = Tux!Digit(Tux!Nibble(n, k), k) /\ leds[k].point = (k = 2)
    <2>2. IsDigit(3, m \div 10) /\ IsDigit(2, m % 10) /\ IsDigit(1, s \div 10) /\ IsDigit(0, s % 10)
        BY <1>4, <2>1
    <2> QED
        BY <2>2 DEF Tux!TimeOn, s, m
<1> QED
    BY <1>4, <1>5

(* Bytes for the lowest LEDs go to the LEDs they were written for.         *)
LEMMA TuxCardinality == \A S : Tux!Cardinality(S) = Cardinality(S)
    BY DEF Tux!Cardinality, Cardinality

(* LED_SET gives the lowest n LEDs the first n bytes.                      *)
LEMMA SetShows ==
    ASSUME NEW leds, NEW n \in 0 .. 4, NEW bytes, NEW k \in 0 .. n - 1
    PROVE  /\ Tux!Set(leds, Tux!LedSet(0 .. n - 1, bytes))[k] = bytes[1 + k]
           /\ 1 + k \in 1 .. n /\ Cardinality(0 .. n - 1) = n
<1> DEFINE mask == 0 .. n - 1
<1>1. {j \in mask : j < k} = 0 .. k - 1 /\ k \in Nat /\ n \in Nat /\ k < n
    OBVIOUS
<1>2. Cardinality(0 .. n - 1) = n
    BY <1>1, FS_Interval
<1>3. Cardinality(0 .. k - 1) = k
    BY <1>1, FS_Interval
<1>4. k \in Tux!LEDs
    BY DEF Tux!LEDs
<1> HIDE DEF mask
<1>5. Tux!Place(k, mask) = 1 + Cardinality({j \in mask : j < k})
    BY TuxCardinality DEF Tux!Place
<1>6. Tux!LedSet(mask, bytes).mask = mask /\ Tux!LedSet(mask, bytes).bytes = bytes
    BY DEF Tux!LedSet
<1>7. k \in mask
    BY DEF mask
<1>8. Tux!Set(leds, Tux!LedSet(mask, bytes))[k] = bytes[Tux!Place(k, mask)]
    BY <1>4, <1>6, <1>7 DEF Tux!Set
<1>9. Tux!Place(k, mask) = 1 + k
    BY <1>1, <1>3, <1>5
<1>10. 1 + k \in 1 .. n
    BY <1>1
<1> QED
    BY <1>2, <1>8, <1>9, <1>10 DEF mask

(* The kinds of packets.                                                   *)
ResetPacket == Tux!Packet("RESET", {})
Events == {Tux!Event(b) : b \in SUBSET Tux!Buttons}
Packets == {Tux!Ack, ResetPacket} \cup Events

(* Packets are told apart by their kind.                                   *)
LEMMA PacketKinds ==
    /\ Tux!Ack.kind = "ACK" /\ ResetPacket.kind = "RESET"
    /\ \A b \in SUBSET Tux!Buttons : Tux!Event(b) \in Events
    /\ \A p \in Events : p.kind = "BIOC_EVENT"
    /\ \A p \in Packets : (p \in Events <=> p.kind = "BIOC_EVENT") /\ (p = Tux!Ack <=> p.kind = "ACK") /\ (p = ResetPacket <=> p.kind = "RESET")
<1>1. Tux!Ack.kind = "ACK" /\ ResetPacket.kind = "RESET"
    BY DEF Tux!Ack, ResetPacket, Tux!Packet
<1>2. \A p \in Events : p.kind = "BIOC_EVENT"
    BY DEF Events, Tux!Event, Tux!Packet
<1>3. \A p \in Packets : (p \in Events <=> p.kind = "BIOC_EVENT") /\ (p = Tux!Ack <=> p.kind = "ACK") /\ (p = ResetPacket <=> p.kind = "RESET")
    BY <1>1, <1>2 DEF Packets
<1>4. \A b \in SUBSET Tux!Buttons : Tux!Event(b) \in Events
    BY DEF Events
<1> QED
    BY <1>1, <1>2, <1>3, <1>4

CurrentWords == Words \cup {Current!TimeWord(t) : t \in Times} \cup {{}}
CurrentSet(word) == Current!LedSet(Current!On(word), Current!LedBytes(word))
CurrentSets == {CurrentSet(word) : word \in CurrentWords}
BiocOn == Tux!Command("BIOC_ON")
LedUsr == Tux!Command("LED_USR")
CurrentCommands == {BiocOn, LedUsr} \cup CurrentSets

CurrentTypes ==
    /\ toDevice \in Seq(CurrentCommands) /\ toHost \in Seq(Packets)
    /\ driver \in {"idle", "save", "send"} /\ arg \in CurrentWords /\ stored \in CurrentWords
    /\ pressed \subseteq Tux!Buttons /\ reported \subseteq Tux!Buttons /\ restarts \in Nat

\* The last event says which buttons were reported, and when there is none the driver does.
CurrentButtons ==
    /\ LastIs(toHost, Events, Tux!Event(reported))
    /\ NoneIn(toHost, Events) => button_info = {Current!Direction[b] : b \in reported}

\* A controller that was reset has told so, or what it lacks is on its way.
CurrentRestarts ==
    restarts > 0 =>
        \/ ~NoneIn(toHost, {ResetPacket})
        \/ /\ device.bioc \/ ~NoneIn(toDevice, {BiocOn})
           /\ device.usr \/ ~NoneIn(toDevice, {LedUsr})

CurrentShows(word) ==
    Current!Lowest(Current!On(word)) =>
        \A k \in Current!On(word) : device.leds[k] = Current!Shown(word, k) \/ (restarts > 0 /\ device.leds[k] = Current!Dark)

\* The LEDs saved are the last ones sent, unless they are about to be.
CurrentLeds ==
    /\ driver = "send" => stored = arg
    /\ driver # "send" => LastIs(toDevice, CurrentSets, CurrentSet(stored))
    /\ driver # "send" /\ NoneIn(toDevice, CurrentSets) => CurrentShows(stored)

CurrentInv == CurrentTypes /\ CurrentButtons /\ CurrentRestarts /\ CurrentLeds

(* The commands of the current driver are told apart by their op.          *)
LEMMA CurrentKinds ==
    /\ BiocOn \notin CurrentSets /\ LedUsr \notin CurrentSets /\ BiocOn # LedUsr
    /\ \A c \in CurrentCommands : /\ c \in CurrentSets <=> c.op = "LED_SET"
                                  /\ c = BiocOn <=> c.op = "BIOC_ON"
                                  /\ c = LedUsr <=> c.op = "LED_USR"
                                  /\ c.op # "POLL_LEDS"
    /\ \A word \in CurrentWords : CurrentSet(word) \in CurrentSets
<1>1. BiocOn.op = "BIOC_ON" /\ LedUsr.op = "LED_USR"
    BY DEF BiocOn, LedUsr, Tux!Command
<1>2. \A c \in CurrentSets : c.op = "LED_SET"
    BY DEF CurrentSets, CurrentSet, Current!LedSet
<1>3. \A word \in CurrentWords : CurrentSet(word) \in CurrentSets
    BY DEF CurrentSets
<1> QED
    BY <1>1, <1>2, <1>3 DEF CurrentCommands

(* The bits that the driver makes of a packet about the buttons b.         *)
LEMMA CurrentBits ==
    ASSUME NEW b \in SUBSET Tux!Buttons
    PROVE  Current!ButtonBits(Tux!Event(b).data) = {Current!Direction[x] : x \in b}
<1> DEFINE bits == Tux!Event(b).data
<1>1. bits = {Tux!Bit[x] : x \in Tux!Buttons \ b}
    BY DEF Tux!Event, Tux!Packet
<1>2. Tux!Bit["up"] = 0 /\ Tux!Bit["left"] = 1 /\ Tux!Bit["down"] = 2 /\ Tux!Bit["right"] = 3
    BY DEF Tux!Bit
<1>3. /\ Current!Direction["up"] = 4 /\ Current!Direction["down"] = 5
      /\ Current!Direction["left"] = 6 /\ Current!Direction["right"] = 7
    BY DEF Current!Direction
<1>4. Tux!Buttons = {"up", "left", "down", "right"}
    BY DEF Tux!Buttons
<1> HIDE DEF bits
<1>5. (0 \in bits <=> "up" \notin b) /\ (1 \in bits <=> "left" \notin b) /\ (2 \in bits <=> "down" \notin b) /\ (3 \in bits <=> "right" \notin b)
    BY <1>1, <1>2, <1>4
<1> DEFINE of == {Current!Direction[x] : x \in b}
           made == Current!ButtonBits(bits)
<1>6. of \subseteq {4, 5, 6, 7}
    BY <1>3, <1>4
<1>7. (4 \in of <=> "up" \in b) /\ (6 \in of <=> "left" \in b) /\ (5 \in of <=> "down" \in b) /\ (7 \in of <=> "right" \in b)
    BY <1>3, <1>4
<1>8. made \subseteq {4, 5, 6, 7}
    BY DEF Current!ButtonBits
<1>9. (4 \in made <=> 0 \notin bits) /\ (6 \in made <=> 1 \notin bits) /\ (5 \in made <=> 2 \notin bits) /\ (7 \in made <=> 3 \notin bits)
    BY DEF Current!ButtonBits
<1> HIDE DEF of, made
<1>10. \A x \in {4, 5, 6, 7} : x \in of <=> x \in made
    BY <1>5, <1>7, <1>9
<1>11. \A x : x \in of <=> x \in made
    BY <1>6, <1>8, <1>10
<1>12. of = made
    BY <1>11
<1> QED
    BY <1>12 DEF of, made, bits

(* There is one Cardinality.                                               *)
LEMMA CurrentCardinality == \A S : Current!Cardinality(S) = Cardinality(S)
    BY DEF Current!Cardinality, Cardinality

(* The LEDs that a command of the current driver sets show its word.       *)
LEMMA CurrentSetShows ==
    ASSUME NEW word, NEW leds, Current!Lowest(Current!On(word)), NEW k \in Current!On(word)
    PROVE  Current!Set(leds, CurrentSet(word))[k] = Current!Shown(word, k)
<1> DEFINE mask == Current!On(word)
           bytes == Current!LedBytes(word)
<1>1. PICK n \in 0 .. 4 : mask = 0 .. n - 1
    BY DEF Current!Lowest
<1>2. CurrentSet(word) = Tux!LedSet(mask, bytes)
    BY DEF CurrentSet, Current!LedSet, Tux!LedSet
<1>3. \A c : Current!Set(leds, c) = Tux!Set(leds, c)
    <2>1. \A j, m : Current!Place(j, m) = Tux!Place(j, m)
        BY CurrentCardinality, TuxCardinality DEF Current!Place, Tux!Place
    <2> QED
        BY <2>1 DEF Current!Set, Tux!Set, Current!LEDs, Tux!LEDs
<1>4. bytes = [j \in 1 .. Cardinality(mask) |-> IF j - 1 \in mask THEN Current!Shown(word, j - 1) ELSE Current!Junk]
    BY CurrentCardinality DEF Current!LedBytes
<1>a. k \in mask
    OBVIOUS
<1> HIDE DEF mask, bytes
<1>5. Tux!Set(leds, Tux!LedSet(mask, bytes))[k] = bytes[1 + k] /\ 1 + k \in 1 .. n /\ Cardinality(mask) = n
    <2>1. k \in 0 .. n - 1
        BY <1>1, <1>a
    <2>2. /\ Tux!Set(leds, Tux!LedSet(0 .. n - 1, bytes))[k] = bytes[1 + k]
          /\ 1 + k \in 1 .. n /\ Cardinality(0 .. n - 1) = n
        BY <2>1, SetShows, ZenonT(60)
    <2> QED
        BY <1>1, <2>2
<1>6. bytes[1 + k] = IF (1 + k) - 1 \in mask THEN Current!Shown(word, (1 + k) - 1) ELSE Current!Junk
    BY <1>4, <1>5
<1>7. (1 + k) - 1 = k
    BY <1>1, <1>a
<1> QED
    BY <1>2, <1>3, <1>5, <1>6, <1>7, <1>a

(* A time that the current driver was told can be read from the LEDs.      *)
LEMMA CurrentTime ==
    ASSUME NEW t, NEW leds
    PROVE  /\ Current!On(Current!TimeWord(t)) = Current!LEDs /\ Current!Lowest(Current!LEDs)
           /\ (\A k \in Current!LEDs : leds[k] = Current!Shown(Current!TimeWord(t), k)) => Current!TimeOn(leds, t)
<1> DEFINE w == Current!TimeWord(t)
<1>1. w = {16, 17, 18, 19, 26} \cup Tux!Nibble((t % 60) % 10, 0) \cup Tux!Nibble((t % 60) \div 10, 1)
                   \cup Tux!Nibble((t \div 60) % 10, 2) \cup Tux!Nibble((t \div 60) \div 10, 3)
    BY DEF Current!TimeWord, Current!tux_led_load, Current!Nibble, Tux!Nibble
<1> HIDE DEF w
<1>2. Tux!On(w) = Tux!LEDs /\ ((\A k \in Tux!LEDs : leds[k] = Tux!Shown(w, k)) => Tux!TimeOn(leds, t))
    BY <1>1, TimeShows
<1>3. Current!LEDs = Tux!LEDs /\ Current!On(w) = Tux!On(w) /\ Tux!LEDs = 0 .. 4 - 1
    BY DEF Current!LEDs, Tux!LEDs, Current!On, Tux!On
<1>4. \A k : Current!Shown(w, k) = Tux!Shown(w, k)
    BY DEF Current!Shown, Current!Digit, Current!Point, Tux!Shown, Tux!Digit, Tux!Point
<1>5. Current!TimeOn(leds, t) <=> Tux!TimeOn(leds, t)
    <2>1. \A k, n : Current!Digit(Current!Nibble(n, k), k) = Tux!Digit(Tux!Nibble(n, k), k)
        BY DEF Current!Digit, Current!Nibble, Tux!Digit, Tux!Nibble
    <2> QED
        BY <2>1 DEF Current!TimeOn, Tux!TimeOn
<1> QED
    BY <1>2, <1>3, <1>4, <1>5 DEF Current!Lowest, w

(* Nothing is on the line, and no LED was asked for.                       *)
LEMMA CurrentInit == Current!Init => CurrentInv
<1> SUFFICES ASSUME Current!Init PROVE CurrentInv
    OBVIOUS
<1>1. /\ toDevice = << >> /\ toHost = << >> /\ pressed = {} /\ reported = {} /\ restarts = 0
      /\ button_info = {} /\ stored = {} /\ driver = "idle" /\ arg = {}
    BY DEF Current!Init, Current!ControllerInit
<1>2. CurrentTypes
    BY <1>1 DEF CurrentTypes, CurrentWords
<1>3. CurrentButtons
    BY <1>1, NothingIn DEF CurrentButtons
<1>4. CurrentRestarts
    BY <1>1 DEF CurrentRestarts
<1>5. CurrentLeds
    <2>1. Current!On({}) = {}
        BY DEF Current!On
    <2> QED
        BY <1>1, <2>1, NothingIn DEF CurrentLeds, CurrentShows
<1> QED
    BY <1>2, <1>3, <1>4, <1>5 DEF CurrentInv

(* The controller obeys a command: the last one for the LEDs is shown.     *)
LEMMA CurrentObey ==
    ASSUME CurrentInv, Current!Obey, UNCHANGED <<button_info, stored, driver, arg>>
    PROVE  CurrentInv'
<1> DEFINE c == Head(toDevice)
<1>1. CurrentTypes /\ CurrentButtons /\ CurrentRestarts /\ CurrentLeds
    BY DEF CurrentInv
<1>2. /\ toDevice # << >> /\ toDevice' = Tail(toDevice)
      /\ device'.bioc = (device.bioc \/ c.op = "BIOC_ON") /\ device'.usr = (device.usr \/ c.op = "LED_USR")
      /\ device'.leds = IF c.op = "LED_SET" THEN Current!Set(device.leds, c) ELSE device.leds
      /\ toHost' = toHost \o Current!Answer(c)
      /\ pressed' = pressed /\ restarts' = restarts /\ reported' = reported
      /\ button_info' = button_info /\ stored' = stored /\ driver' = driver /\ arg' = arg
    BY DEF Current!Obey
<1>3. toDevice \in Seq(CurrentCommands) /\ toHost \in Seq(Packets)
    BY <1>1 DEF CurrentTypes
<1>4. /\ toDevice' \in Seq(CurrentCommands) /\ c \in CurrentCommands
      /\ \A P : NoneIn(toDevice, P) <=> c \notin P /\ NoneIn(toDevice', P)
      /\ \A P, x : LastIs(toDevice, P, x) => LastIs(toDevice', P, x)
      /\ \A P, x : LastIs(toDevice, P, x) /\ c \in P /\ NoneIn(toDevice', P) => c = x
    BY <1>2, <1>3, FirstGone
<1>5. toHost' = toHost \o <<Tux!Ack>>
    <2>1. c.op # "POLL_LEDS"
        BY <1>4, CurrentKinds
    <2> QED
        BY <1>2, <2>1 DEF Current!Answer, Current!Ack, Tux!Ack, Current!Packet, Tux!Packet
<1>6. /\ toHost' \in Seq(Packets)
      /\ \A P : NoneIn(toHost', P) <=> NoneIn(toHost, P) /\ Tux!Ack \notin P
      /\ \A P, x : LastIs(toHost, P, x) /\ Tux!Ack \notin P => LastIs(toHost', P, x)
    <2>1. Tux!Ack \in Packets
        BY DEF Packets
    <2> HIDE DEF c
    <2> QED
        BY <1>3, <1>5, <2>1, OneBehind
<1> HIDE DEF c
<1>7. CurrentTypes'
    BY <1>1, <1>2, <1>4, <1>6 DEF CurrentTypes
<1>8. Tux!Ack \notin Events /\ Tux!Ack # ResetPacket
    BY PacketKinds
<1>9. CurrentButtons'
    BY <1>1, <1>2, <1>6, <1>8 DEF CurrentButtons
<1>10. CurrentRestarts'
    <2>1. ASSUME NoneIn(toHost', {ResetPacket}), restarts > 0
          PROVE  /\ device'.bioc \/ ~NoneIn(toDevice', {BiocOn})
                 /\ device'.usr \/ ~NoneIn(toDevice', {LedUsr})
        <3>1. /\ device.bioc \/ ~NoneIn(toDevice, {BiocOn})
              /\ device.usr \/ ~NoneIn(toDevice, {LedUsr})
            BY <1>1, <1>6, <2>1 DEF CurrentRestarts
        <3> QED
            BY <1>2, <1>4, <3>1, CurrentKinds
    <2> QED
        BY <1>2, <2>1 DEF CurrentRestarts
<1>11. CurrentLeds'
    <2>1. driver # "send" => LastIs(toDevice', CurrentSets, CurrentSet(stored))
        BY <1>1, <1>4 DEF CurrentLeds
    <2>2. ASSUME driver # "send", NoneIn(toDevice', CurrentSets) PROVE CurrentShows(stored)'
        <3>1. CASE c \in CurrentSets
            <4>1. c = CurrentSet(stored)
                BY <1>1, <1>4, <2>2, <3>1 DEF CurrentLeds
            <4>2. device'.leds = Current!Set(device.leds, CurrentSet(stored))
                BY <1>2, <1>4, <3>1, <4>1, CurrentKinds
            <4> QED
                BY <1>2, <4>2, CurrentSetShows DEF CurrentShows
        <3>2. CASE c \notin CurrentSets
            <4>1. device'.leds = device.leds
                BY <1>2, <1>4, <3>2, CurrentKinds
            <4>2. CurrentShows(stored)
                BY <1>1, <1>4, <2>2, <3>2 DEF CurrentLeds
            <4> QED
                BY <1>2, <4>1, <4>2 DEF CurrentShows
        <3> QED
            BY <3>1, <3>2
    <2> QED
        BY <1>1, <1>2, <2>1, <2>2 DEF CurrentLeds
<1> QED
    BY <1>7, <1>9, <1>10, <1>11 DEF CurrentInv

(* A reset loses commands, and tells so.                                   *)
LEMMA CurrentReset ==
    ASSUME CurrentInv, Current!PressReset, UNCHANGED <<button_info, stored, driver, arg>>
    PROVE  CurrentInv'
<1>1. CurrentTypes /\ CurrentButtons /\ CurrentRestarts /\ CurrentLeds
    BY DEF CurrentInv
<1>2. toDevice \in Seq(CurrentCommands) /\ toHost \in Seq(Packets) /\ restarts \in Nat
    BY <1>1 DEF CurrentTypes
<1>3. PICK n \in 0 .. Len(toDevice) : toDevice' = SubSeq(toDevice, n + 1, Len(toDevice))
    BY DEF Current!PressReset
<1>4. /\ restarts' = restarts + 1 /\ device' = Current!Off
      /\ pressed' = pressed /\ reported' = reported
      /\ button_info' = button_info /\ stored' = stored /\ driver' = driver /\ arg' = arg
      /\ toHost' = Append(toHost, Current!Packet("RESET", {}))
    BY DEF Current!PressReset
<1>5. toHost' = toHost \o <<ResetPacket>>
    <2>1. Append(toHost, ResetPacket) = toHost \o <<ResetPacket>>
        BY <1>2, AppendIsConcat DEF Packets
    <2> QED
        BY <1>4, <2>1 DEF ResetPacket, Current!Packet, Tux!Packet
<1>6. /\ toDevice' \in Seq(CurrentCommands)
      /\ \A P, x : LastIs(toDevice, P, x) => LastIs(toDevice', P, x)
    BY <1>2, <1>3, Gone
<1>7. /\ toHost' \in Seq(Packets)
      /\ \A P : NoneIn(toHost', P) <=> NoneIn(toHost, P) /\ ResetPacket \notin P
      /\ \A P, x : LastIs(toHost, P, x) /\ ResetPacket \notin P => LastIs(toHost', P, x)
    <2>1. ResetPacket \in Packets
        BY DEF Packets
    <2> QED
        BY <1>2, <1>5, <2>1, OneBehind
<1>8. CurrentTypes'
    BY <1>1, <1>2, <1>4, <1>6, <1>7 DEF CurrentTypes
<1>9. CurrentButtons'
    <2>1. ResetPacket \notin Events
        BY PacketKinds
    <2> QED
        BY <1>1, <1>4, <1>7, <2>1 DEF CurrentButtons
<1>10. CurrentRestarts'
    BY <1>7 DEF CurrentRestarts
<1>11. CurrentLeds'
    <2>1. ASSUME NEW word, NEW k \in Current!On(word) PROVE device'.leds[k] = Current!Dark /\ restarts' > 0
        <3>1. k \in Current!LEDs
            BY <2>1 DEF Current!On
        <3>2. device'.leds = [j \in Current!LEDs |-> Current!Dark]
            BY <1>4 DEF Current!Off
        <3> QED
            BY <1>2, <1>4, <3>1, <3>2
    <2>2. CurrentShows(stored)'
        BY <1>4, <2>1 DEF CurrentShows
    <2> QED
        BY <1>1, <1>4, <1>6, <2>2 DEF CurrentLeds
<1> QED
    BY <1>8, <1>9, <1>10, <1>11 DEF CurrentInv

(* A button is pressed: what was reported is in the last event.            *)
LEMMA CurrentPress ==
    ASSUME CurrentInv, Current!PressButtons, UNCHANGED <<button_info, stored, driver, arg>>
    PROVE  CurrentInv'
<1>1. CurrentTypes /\ CurrentButtons /\ CurrentRestarts /\ CurrentLeds
    BY DEF CurrentInv
<1>2. /\ toDevice' = toDevice /\ device' = device /\ restarts' = restarts
      /\ button_info' = button_info /\ stored' = stored /\ driver' = driver /\ arg' = arg
    BY DEF Current!PressButtons
<1>3. pressed' \subseteq Tux!Buttons
    BY <1>1 DEF CurrentTypes, Current!PressButtons, Current!Buttons, Tux!Buttons
<1>4. CurrentLeds'
    BY <1>1, <1>2 DEF CurrentLeds, CurrentShows
<1>5. CASE device.bioc
    <2>1. toHost' = Append(toHost, Current!Event(pressed')) /\ reported' = pressed'
        BY <1>5 DEF Current!PressButtons
    <2> DEFINE e == Tux!Event(pressed')
    <2>2. e \in Events /\ e \in Packets /\ e # ResetPacket
        BY <1>3, PacketKinds DEF Packets
    <2>3. Current!Event(pressed') = e
        BY DEF Current!Event, Tux!Event, Current!Packet, Tux!Packet, Current!Bit, Tux!Bit, Current!Buttons, Tux!Buttons
    <2>4. e = Tux!Event(reported')
        BY <2>1
    <2> HIDE DEF e
    <2>5. toHost \in Seq(Packets)
        BY <1>1 DEF CurrentTypes
    <2>6. toHost' = toHost \o <<e>>
        BY <2>1, <2>2, <2>3, <2>5, AppendIsConcat
    <2>7. /\ toHost' \in Seq(Packets)
          /\ \A P : NoneIn(toHost', P) <=> NoneIn(toHost, P) /\ e \notin P
          /\ \A P : e \in P => LastIs(toHost', P, e)
        BY <2>2, <2>5, <2>6, OneBehind
    <2>8. CurrentTypes'
        BY <1>1, <1>2, <1>3, <2>1, <2>7 DEF CurrentTypes
    <2>9. CurrentButtons'
        BY <2>2, <2>4, <2>7 DEF CurrentButtons
    <2>10. CurrentRestarts'
        BY <1>1, <1>2, <2>2, <2>7 DEF CurrentRestarts
    <2> QED
        BY <1>4, <2>8, <2>9, <2>10 DEF CurrentInv
<1>6. CASE ~device.bioc
    <2>1. toHost' = toHost /\ reported' = reported
        BY <1>6 DEF Current!PressButtons
    <2> QED
        BY <1>1, <1>2, <1>3, <1>4, <2>1 DEF CurrentInv, CurrentTypes, CurrentButtons, CurrentRestarts
<1> QED
    BY <1>5, <1>6

(* The calls, and the steps of TUX_SET_LED.                                *)
LEMMA CurrentProgram ==
    ASSUME CurrentInv,
           Current!TuxInit \/ (\E word \in Words \cup {Current!TimeWord(t) : t \in Times} : Current!TuxSetLed(word))
               \/ Current!ProgramSteps
    PROVE  CurrentInv'
<1>1. CurrentTypes /\ CurrentButtons /\ CurrentRestarts /\ CurrentLeds
    BY DEF CurrentInv
<1>2. /\ toHost' = toHost /\ device' = device /\ restarts' = restarts
      /\ pressed' = pressed /\ reported' = reported /\ button_info' = button_info
    BY DEF Current!TuxInit, Current!TuxSetLed, Current!ProgramSteps, Current!SaveLed, Current!SendLed,
           Current!outside, Current!driver, Current!controller
<1>3. CurrentButtons'
    BY <1>1, <1>2 DEF CurrentButtons
<1>4. toDevice \in Seq(CurrentCommands)
    BY <1>1 DEF CurrentTypes
<1>5. CASE Current!TuxInit \/ \E word \in Words \cup {Current!TimeWord(t) : t \in Times} : Current!TuxSetLed(word)
    <2>1. PICK c \in {BiocOn, LedUsr} : toDevice' = toDevice \o <<c>>
        BY <1>5 DEF Current!TuxInit, Current!TuxSetLed, Current!Sent, BiocOn, LedUsr, Current!Command, Tux!Command
    <2>2. driver' \in {"idle", "save"} /\ arg' \in CurrentWords /\ stored' = stored /\ driver = "idle"
        BY <1>1, <1>5 DEF Current!TuxInit, Current!TuxSetLed, Current!Begin, Current!driver, CurrentTypes, CurrentWords
    <2>3. /\ toDevice' \in Seq(CurrentCommands)
          /\ \A P : NoneIn(toDevice', P) <=> NoneIn(toDevice, P) /\ c \notin P
          /\ \A P, x : LastIs(toDevice, P, x) /\ c \notin P => LastIs(toDevice', P, x)
        <3>1. c \in CurrentCommands
            BY DEF CurrentCommands
        <3> QED
            BY <1>4, <2>1, <3>1, OneBehind
    <2>4. c \notin CurrentSets
        BY CurrentKinds
    <2>5. CurrentTypes'
        BY <1>1, <1>2, <2>2, <2>3 DEF CurrentTypes
    <2>6. CurrentRestarts'
        BY <1>1, <1>2, <2>3 DEF CurrentRestarts
    <2>7. CurrentLeds'
        BY <1>1, <1>2, <2>2, <2>3, <2>4 DEF CurrentLeds, CurrentShows
    <2> QED
        BY <1>3, <2>5, <2>6, <2>7 DEF CurrentInv
<1>6. CASE Current!SaveLed
    <2>1. toDevice' = toDevice /\ arg' = arg /\ stored' = arg /\ driver' = "send"
        BY <1>6 DEF Current!SaveLed, Current!controller
    <2>2. CurrentTypes' /\ CurrentRestarts' /\ CurrentLeds'
        BY <1>1, <1>2, <2>1 DEF CurrentTypes, CurrentRestarts, CurrentLeds
    <2> QED
        BY <1>3, <2>2 DEF CurrentInv
<1>7. CASE Current!SendLed
    <2>1. /\ toDevice' = toDevice \o <<CurrentSet(arg)>> /\ arg' = arg /\ stored' = stored
          /\ driver = "send" /\ driver' = "idle"
        BY <1>7 DEF Current!SendLed, Current!Sent, Current!driver, CurrentSet
    <2>2. CurrentSet(arg) \in CurrentSets /\ CurrentSet(arg) \in CurrentCommands
        BY <1>1 DEF CurrentTypes, CurrentSets, CurrentCommands
    <2>3. /\ toDevice' \in Seq(CurrentCommands)
          /\ \A P : NoneIn(toDevice', P) <=> NoneIn(toDevice, P) /\ CurrentSet(arg) \notin P
          /\ \A P : CurrentSet(arg) \in P => LastIs(toDevice', P, CurrentSet(arg))
        BY <1>4, <2>1, <2>2, OneBehind
    <2>4. CurrentTypes'
        BY <1>1, <1>2, <2>1, <2>3 DEF CurrentTypes
    <2>5. CurrentRestarts'
        BY <1>1, <1>2, <2>3 DEF CurrentRestarts
    <2>6. CurrentLeds'
        BY <1>1, <2>1, <2>2, <2>3 DEF CurrentLeds
    <2> QED
        BY <1>3, <2>4, <2>5, <2>6 DEF CurrentInv
<1> QED
    BY <1>5, <1>6, <1>7 DEF Current!ProgramSteps

(* The interrupt takes a packet.                                           *)
LEMMA CurrentHandle == ASSUME CurrentInv, Current!Handle PROVE CurrentInv'
<1> DEFINE p == Head(toHost)
<1>1. CurrentTypes /\ CurrentButtons /\ CurrentRestarts /\ CurrentLeds
    BY DEF CurrentInv
<1>2. /\ toHost # << >> /\ toHost' = Tail(toHost)
      /\ device' = device /\ restarts' = restarts /\ pressed' = pressed /\ reported' = reported
      /\ stored' = stored /\ driver' = driver /\ arg' = arg
    BY DEF Current!Handle, Current!HandleEvent, Current!HandleReset, Current!HandleOther, Current!Received,
           Current!outside, Current!driver, Current!program
<1>3. toHost \in Seq(Packets) /\ toDevice \in Seq(CurrentCommands) /\ reported \in SUBSET Tux!Buttons
    BY <1>1 DEF CurrentTypes
<1>4. /\ toHost' \in Seq(Packets) /\ p \in Packets
      /\ \A P : NoneIn(toHost, P) <=> p \notin P /\ NoneIn(toHost', P)
      /\ \A P, x : LastIs(toHost, P, x) => LastIs(toHost', P, x)
      /\ \A P, x : LastIs(toHost, P, x) /\ p \in P /\ NoneIn(toHost', P) => p = x
    BY <1>2, <1>3, FirstGone
<1>5. CASE Current!HandleEvent
    <2>1. p.kind = "BIOC_EVENT" /\ button_info' = Current!ButtonBits(p.data) /\ toDevice' = toDevice
        BY <1>5 DEF Current!HandleEvent, Current!Received
    <2> HIDE DEF p
    <2>2. p \in Events /\ p # ResetPacket
        BY <1>4, <2>1, PacketKinds
    <2>3. CurrentTypes' /\ CurrentLeds'
        BY <1>1, <1>2, <1>4, <2>1 DEF CurrentTypes, CurrentLeds, CurrentShows
    <2>4. NoneIn(toHost', Events) => button_info' = {Current!Direction[b] : b \in reported}
        <3>1. NoneIn(toHost', Events) => p = Tux!Event(reported)
            BY <1>1, <1>4, <2>2 DEF CurrentButtons
        <3>2. Current!ButtonBits(Tux!Event(reported).data) = {Current!Direction[b] : b \in reported}
            BY <1>3, CurrentBits
        <3> QED
            BY <2>1, <3>1, <3>2
    <2>5. CurrentButtons'
        BY <1>1, <1>2, <1>4, <2>4 DEF CurrentButtons
    <2>6. CurrentRestarts'
        BY <1>1, <1>2, <1>4, <2>1, <2>2 DEF CurrentRestarts
    <2> QED
        BY <2>3, <2>5, <2>6 DEF CurrentInv
<1>6. CASE Current!HandleOther
    <2>1. p.kind = "ACK" /\ button_info' = button_info /\ toDevice' = toDevice
        BY <1>6 DEF Current!HandleOther, Current!Received, Current!driver
    <2> HIDE DEF p
    <2>2. p \notin Events /\ p # ResetPacket
        BY <1>4, <2>1, PacketKinds
    <2>3. CurrentTypes' /\ CurrentLeds'
        BY <1>1, <1>2, <1>4, <2>1 DEF CurrentTypes, CurrentLeds, CurrentShows
    <2>4. CurrentButtons'
        BY <1>1, <1>2, <1>4, <2>1, <2>2 DEF CurrentButtons
    <2>5. CurrentRestarts'
        BY <1>1, <1>2, <1>4, <2>1, <2>2 DEF CurrentRestarts
    <2> QED
        BY <2>3, <2>4, <2>5 DEF CurrentInv
<1>7. CASE Current!HandleReset
    <2>1. p.kind = "RESET" /\ button_info' = button_info /\ toDevice' = toDevice \o Current!Again
        BY <1>7 DEF Current!HandleReset, Current!Received, Current!Sent, Current!driver
    <2> HIDE DEF p
    <2>2. p \notin Events
        BY <1>4, <2>1, PacketKinds
    <2>3. Current!Again = <<BiocOn, LedUsr>>
        BY DEF Current!Again, BiocOn, LedUsr, Current!Command, Tux!Command
    <2>4. BiocOn \in CurrentCommands /\ LedUsr \in CurrentCommands
        BY DEF CurrentCommands
    <2>5. /\ <<BiocOn, LedUsr>> \in Seq(CurrentCommands)
          /\ \A P : NoneIn(<<BiocOn, LedUsr>>, P) <=> BiocOn \notin P /\ LedUsr \notin P
        BY <2>4, Few
    <2>6. /\ toDevice' \in Seq(CurrentCommands)
          /\ \A P : NoneIn(toDevice', P) <=> NoneIn(toDevice, P) /\ BiocOn \notin P /\ LedUsr \notin P
          /\ \A P, x : LastIs(toDevice, P, x) /\ BiocOn \notin P /\ LedUsr \notin P => LastIs(toDevice', P, x)
        BY <1>3, <2>1, <2>3, <2>5, Behind
    <2>7. CurrentTypes'
        BY <1>1, <1>2, <1>4, <2>6 DEF CurrentTypes
    <2>8. CurrentLeds'
        BY <1>1, <1>2, <2>6, CurrentKinds DEF CurrentLeds, CurrentShows
    <2>9. CurrentButtons'
        BY <1>1, <1>2, <1>4, <2>1, <2>2 DEF CurrentButtons
    <2>10. CurrentRestarts'
        BY <2>6 DEF CurrentRestarts
    <2> QED
        BY <2>7, <2>8, <2>9, <2>10 DEF CurrentInv
<1> QED
    BY <1>5, <1>6, <1>7 DEF Current!Handle

(* The invariant is inductive.                                             *)
LEMMA CurrentStep == CurrentInv /\ Current!Next => CurrentInv'
<1> SUFFICES ASSUME CurrentInv, Current!Next PROVE CurrentInv'
    OBVIOUS
<1>1. CASE Current!Device
    <2>1. UNCHANGED <<button_info, stored, driver, arg>> /\ Current!DeviceSteps
        BY <1>1 DEF Current!Device, Current!driver, Current!program
    <2> QED
        BY <2>1, CurrentObey, CurrentReset, CurrentPress DEF Current!DeviceSteps
<1>2. CASE Current!TuxInit \/ (\E word \in Words \cup {Current!TimeWord(t) : t \in Times} : Current!TuxSetLed(word))
               \/ Current!ProgramSteps
    BY <1>2, CurrentProgram
<1>3. CASE Current!Handle
    BY <1>3, CurrentHandle
<1> QED
    BY <1>1, <1>2, <1>3 DEF Current!Next

(* The invariant implies what the current driver promises.                 *)
LEMMA CurrentSafe == CurrentInv => Current!CurrentSafety
<1> SUFFICES ASSUME CurrentInv PROVE Current!CurrentSafety
    OBVIOUS
<1>1. CurrentTypes /\ CurrentButtons /\ CurrentRestarts /\ CurrentLeds
    BY DEF CurrentInv
<1>2. Current!ButtonsReported
    <2>1. ASSUME Current!Of("BIOC_EVENT", toHost) = {} PROVE NoneIn(toHost, Events)
        BY <2>1, PacketKinds DEF Current!Of, NoneIn
    <2> QED
        BY <1>1, <2>1 DEF CurrentButtons, Current!ButtonsReported
<1>3. Current!Quiet => toDevice = << >> /\ toHost = << >>
    BY DEF Current!Quiet
<1>4. Current!Restarted
    BY <1>1, <1>3, NothingIn DEF CurrentRestarts, Current!Restarted
<1>5. Current!Quiet /\ driver = "idle" => CurrentShows(stored)
    BY <1>1, <1>3, NothingIn DEF CurrentLeds
<1>6. Current!LedsShown
    BY <1>5 DEF CurrentShows, Current!LedsShown
<1>7. Current!TimeShown
    <2> SUFFICES ASSUME Current!Quiet, driver = "idle", restarts = 0, NEW t \in Times, stored = Current!TimeWord(t)
                 PROVE  Current!TimeOn(device.leds, t)
        BY DEF Current!TimeShown
    <2>1. Current!On(stored) = Current!LEDs /\ Current!Lowest(Current!LEDs)
        BY CurrentTime
    <2>2. \A k \in Current!LEDs : device.leds[k] = Current!Shown(stored, k)
        BY <1>5, <2>1 DEF CurrentShows
    <2> QED
        BY <2>2, CurrentTime
<1> QED
    BY <1>2, <1>4, <1>6, <1>7 DEF Current!CurrentSafety

\* How many elements of a sequence are in a set.
CountIn(s, P) == Cardinality({k \in DOMAIN s : s[k] \in P})

(* How many there are with one more, and without the first.                *)
LEMMA CountBehind ==
    ASSUME NEW S, NEW s \in Seq(S), NEW a \in S, NEW P
    PROVE  CountIn(s \o <<a>>, P) = CountIn(s, P) + (IF a \in P THEN 1 ELSE 0) /\ CountIn(s, P) \in Nat
<1> DEFINE t == s \o <<a>>
           n == Len(s)
           A == {k \in 1 .. n : s[k] \in P}
           B == {k \in 1 .. n + 1 : t[k] \in P}
<1>1. n \in Nat /\ DOMAIN s = 1 .. n /\ t \in Seq(S) /\ DOMAIN t = 1 .. n + 1 /\ t[n + 1] = a /\ \A k \in 1 .. n : t[k] = s[k]
    <2>1. t = Append(s, a)
        BY AppendIsConcat
    <2>2. Append(s, a) \in Seq(S) /\ Len(Append(s, a)) = n + 1 /\ Append(s, a)[n + 1] = a /\ \A k \in 1 .. n : Append(s, a)[k] = s[k]
        BY AppendProperties
    <2> QED
        BY <2>1, <2>2, LenProperties
<1>2. CountIn(s, P) = Cardinality(A) /\ CountIn(t, P) = Cardinality(B)
    BY <1>1 DEF CountIn
<1>3. IsFiniteSet(A) /\ Cardinality(A) \in Nat
    <2>1. IsFiniteSet(1 .. n) /\ A \subseteq 1 .. n
        BY <1>1, FS_Interval
    <2> QED
        BY <2>1, FS_Subset, FS_CardinalityType
<1> HIDE DEF t, n
<1>4. CASE a \in P
    <2>1. B = A \cup {n + 1}
        BY <1>1, <1>4
    <2>2. n + 1 \notin A
        BY <1>1
    <2> HIDE DEF A, B
    <2> QED
        BY <1>2, <1>3, <1>4, <2>1, <2>2, FS_AddElement DEF t
<1>5. CASE a \notin P
    <2>1. B = A
        BY <1>1, <1>5
    <2> HIDE DEF A, B
    <2> QED
        BY <1>2, <1>3, <1>5, <2>1 DEF t
<1> QED
    BY <1>4, <1>5

(* And without the first.                                                  *)
LEMMA CountFirst ==
    ASSUME NEW S, NEW s \in Seq(S), s # << >>, NEW P
    PROVE  CountIn(s, P) = CountIn(Tail(s), P) + (IF Head(s) \in P THEN 1 ELSE 0) /\ CountIn(Tail(s), P) \in Nat
<1> DEFINE t == Tail(s)
           m == Len(s) - 1
           A == {k \in 1 .. m + 1 : s[k] \in P}
           B == {k \in 1 .. m : t[k] \in P}
           C == {k \in A : k # 1}
<1>1. /\ m \in Nat /\ DOMAIN s = 1 .. m + 1 /\ Head(s) = s[1]
      /\ t \in Seq(S) /\ DOMAIN t = 1 .. m
      /\ \A k \in 1 .. m : t[k] = s[k + 1]
    <2>1. Len(s) \in Nat /\ Len(s) # 0 /\ DOMAIN s = 1 .. Len(s)
        BY LenProperties, EmptySeq
    <2>2. t \in Seq(S) /\ Len(t) = m /\ Head(s) = s[1] /\ \A k \in 1 .. Len(t) : t[k] = s[k + 1]
        BY HeadTailProperties
    <2>3. DOMAIN t = 1 .. m /\ m \in Nat /\ m + 1 = Len(s)
        BY <2>1, <2>2, LenProperties
    <2> QED
        BY <2>1, <2>2, <2>3
<1>2. CountIn(s, P) = Cardinality(A) /\ CountIn(t, P) = Cardinality(B)
    BY <1>1 DEF CountIn
<1>3. IsFiniteSet(B) /\ Cardinality(B) \in Nat
    <2>1. IsFiniteSet(1 .. m) /\ B \subseteq 1 .. m
        BY <1>1, FS_Interval
    <2> QED
        BY <2>1, FS_Subset, FS_CardinalityType
<1> HIDE DEF t, m
<1>4. IsFiniteSet(C) /\ Cardinality(C) = Cardinality(B)
    <2> DEFINE f == [k \in B |-> k + 1]
    <2>1. \A k \in B : k + 1 \in C /\ k \in Nat
        BY <1>1
    <2>2. \A c \in C : c - 1 \in B /\ (c - 1) + 1 = c
        <3> SUFFICES ASSUME NEW c \in C PROVE c - 1 \in B /\ (c - 1) + 1 = c
            OBVIOUS
        <3>1. c \in 1 .. m + 1 /\ c # 1 /\ s[c] \in P
            OBVIOUS
        <3>2. c - 1 \in 1 .. m /\ (c - 1) + 1 = c
            BY <1>1, <3>1
        <3>3. t[c - 1] = s[c]
            BY <1>1, <3>2
        <3> QED
            BY <3>1, <3>2, <3>3
    <2> HIDE DEF B, C
    <2>3. f \in Bijection(B, C)
        BY <2>1, <2>2 DEF Bijection, Injection, Surjection, IsInjective
    <2> HIDE DEF f
    <2> QED
        BY <1>3, <2>3, FS_Bijection DEF ExistsBijection
<1>5. CASE Head(s) \in P
    <2>1. A = C \cup {1} /\ 1 \notin C
        BY <1>1, <1>5
    <2> HIDE DEF A, B, C
    <2>2. Cardinality(A) = Cardinality(C) + 1
        BY <1>4, <2>1, FS_AddElement
    <2> QED
        BY <1>2, <1>3, <1>4, <1>5, <2>2 DEF t
<1>6. CASE Head(s) \notin P
    <2>1. A = C
        BY <1>1, <1>6
    <2> HIDE DEF A, B, C
    <2> QED
        BY <1>2, <1>3, <1>4, <1>6, <2>1 DEF t
<1> QED
    BY <1>5, <1>6

AckWords == Words \cup {WithAck!TimeWord(t) : t \in Times} \cup {{}}
AckSets == {WithAck!LedCommand(word) : word \in AckWords}
AckCommands == {BiocOn, LedUsr} \cup AckSets

AckTypes ==
    /\ toDevice \in Seq(AckCommands) /\ toHost \in Seq(Packets)
    /\ driver \in {"idle", "start", "test", "put", "mark"} /\ ack \in {0, 1} /\ early \in BOOLEAN
    /\ arg \in AckWords /\ stored \in AckWords
    /\ pressed \subseteq Tux!Buttons /\ restarts \in Nat /\ inits \in Nat

\* The LEDs are dark, or show one word.
AckLeds ==
    \/ \A k \in Tux!LEDs : device.leds[k] = Tux!Dark
    \/ \E word \in AckWords : \A k \in Tux!LEDs : device.leds[k] = WithAck!LedByte(word, k)

\* Something is on its way that will clear the flag, or that will be answered.
AckComes == (ack = 1 \/ driver = "mark") /\ ~early => toDevice # << >> \/ ~NoneIn(toHost, {Tux!Ack, ResetPacket})

\* A reset that is told will put up to three commands, and a call to start two.
Due == 3 * CountIn(toHost, {ResetPacket}) + (IF driver = "start" THEN 2 ELSE 0)
MaySend == driver = "put" \/ (ack = 0 /\ driver # "mark")
AckCount ==
    Len(toDevice) + CountIn(toHost, {Tux!Ack}) + Due <= 2 * inits + 3 * restarts + (IF MaySend THEN 0 ELSE 1)

AckInv == AckTypes /\ AckLeds /\ AckComes /\ AckCount

(* The commands of this driver are told apart by their op.                 *)
LEMMA AckKinds ==
    /\ \A c \in AckCommands : (c \in AckSets <=> c.op = "LED_SET") /\ c.op # "POLL_LEDS"
    /\ \A word \in AckWords : WithAck!LedCommand(word) \in AckSets /\ WithAck!LedCommand(word) \in AckCommands
<1>1. BiocOn.op = "BIOC_ON" /\ LedUsr.op = "LED_USR"
    BY DEF BiocOn, LedUsr, Tux!Command
<1>2. \A c \in AckSets : c.op = "LED_SET"
    BY DEF AckSets, WithAck!LedCommand, WithAck!LedSet
<1>3. \A word \in AckWords : WithAck!LedCommand(word) \in AckSets
    BY DEF AckSets
<1> QED
    BY <1>1, <1>2, <1>3 DEF AckCommands

(* All four LEDs are set.                                                  *)
LEMMA AckSetShows ==
    ASSUME NEW word, NEW leds, NEW k \in Tux!LEDs
    PROVE  WithAck!Set(leds, WithAck!LedCommand(word))[k] = WithAck!LedByte(word, k)
<1> DEFINE bytes == WithAck!LedBytes(word)
<1>1. WithAck!LEDs = 0 .. 4 - 1 /\ Tux!LEDs = 0 .. 4 - 1 /\ k \in 0 .. 4 - 1
    BY DEF WithAck!LEDs, Tux!LEDs
<1>2. WithAck!LedCommand(word) = Tux!LedSet(0 .. 4 - 1, bytes)
    BY <1>1 DEF WithAck!LedCommand, WithAck!LedSet, Tux!LedSet
<1>3. \A S : WithAck!Cardinality(S) = Cardinality(S)
    BY DEF WithAck!Cardinality, Cardinality
<1>4. \A c : WithAck!Set(leds, c) = Tux!Set(leds, c)
    <2>1. \A j, m : WithAck!Place(j, m) = Tux!Place(j, m)
        BY <1>3, TuxCardinality DEF WithAck!Place, Tux!Place
    <2> QED
        BY <2>1 DEF WithAck!Set, Tux!Set, WithAck!LEDs, Tux!LEDs
<1>5. bytes = [j \in 1 .. 4 |-> WithAck!LedByte(word, j - 1)]
    BY DEF WithAck!LedBytes
<1> HIDE DEF bytes
<1>6. 4 \in 0 .. 4
    OBVIOUS
<1>7. Tux!Set(leds, Tux!LedSet(0 .. 4 - 1, bytes))[k] = bytes[1 + k] /\ 1 + k \in 1 .. 4
    BY <1>1, <1>6, SetShows
<1>8. bytes[1 + k] = WithAck!LedByte(word, (1 + k) - 1) /\ (1 + k) - 1 = k
    BY <1>1, <1>5, <1>7
<1> QED
    BY <1>2, <1>4, <1>7, <1>8

(* LEDs that show a time's word show the time.                             *)
LEMMA Shifted ==
    ASSUME NEW bits \in SUBSET Int, NEW p \in Int, NEW q \in Int, q = 4 + p
    PROVE  {4 + x : x \in {p + b : b \in bits}} = {q + b : b \in bits}
<1> DEFINE A == {p + b : b \in bits}
           B == {q + b : b \in bits}
           C == {4 + x : x \in A}
<1>1. ASSUME NEW y \in C PROVE y \in B
    <2>1. PICK x \in A : y = 4 + x
        OBVIOUS
    <2>2. PICK b \in bits : x = p + b
        BY <2>1
    <2>3. y = q + b
        BY <2>1, <2>2
    <2> QED
        BY <2>3
<1>2. ASSUME NEW y \in B PROVE y \in C
    <2>1. PICK b \in bits : y = q + b
        BY <1>2
    <2>2. p + b \in A /\ y = 4 + (p + b)
        BY <2>1
    <2> HIDE DEF A
    <2> QED
        BY <2>2
<1> HIDE DEF B, C
<1> QED
    BY <1>1, <1>2 DEF A, B, C

(* A digit one LED further up.                                             *)
LEMMA ShiftedUp ==
    ASSUME NEW n
    PROVE  /\ {4 + b : b \in Tux!Nibble(n, 0)} = Tux!Nibble(n, 1)
           /\ {4 + b : b \in Tux!Nibble(n, 1)} = Tux!Nibble(n, 2)
           /\ {4 + b : b \in Tux!Nibble(n, 2)} = Tux!Nibble(n, 3)
<1> DEFINE bits == {b \in 0 .. 3 : (n \div 2^b) % 2 = 1}
<1>1. bits \in SUBSET Int
    OBVIOUS
<1>2. \A k : Tux!Nibble(n, k) = {4 * k + b : b \in bits}
    BY DEF Tux!Nibble
<1> HIDE DEF bits
<1>3. \A p, q \in Int : q = 4 + p => {4 + x : x \in {p + b : b \in bits}} = {q + b : b \in bits}
    BY <1>1, Shifted
<1> DEFINE K(k) == {4 * k + b : b \in bits}
<1>4. ASSUME NEW k \in 0 .. 2 PROVE {4 + x : x \in K(k)} = K(k + 1)
    <2> DEFINE p == 4 * k
               q == 4 * (k + 1)
    <2>1. p \in Int /\ q \in Int /\ q = 4 + p
        OBVIOUS
    <2> HIDE DEF p, q
    <2>2. {4 + x : x \in {p + b : b \in bits}} = {q + b : b \in bits}
        BY <1>3, <2>1
    <2> QED
        BY <2>2 DEF p, q
<1>5. \A k : Tux!Nibble(n, k) = K(k)
    BY <1>2
<1> HIDE DEF K
<1>6. \A k \in 0 .. 2 : {4 + x : x \in Tux!Nibble(n, k)} = Tux!Nibble(n, k + 1)
    BY <1>4, <1>5
<1>7. 0 \in 0 .. 2 /\ 1 \in 0 .. 2 /\ 2 \in 0 .. 2 /\ 0 + 1 = 1 /\ 1 + 1 = 2 /\ 2 + 1 = 3
    OBVIOUS
<1> QED
    BY <1>6, <1>7

(* The word of set_tux_led shows its time.                                 *)
LEMMA AckTime ==
    ASSUME NEW t, NEW leds, \A k \in Tux!LEDs : leds[k] = WithAck!LedByte(WithAck!TimeWord(t), k)
    PROVE  WithAck!TimeOn(leds, t)
<1> DEFINE w == WithAck!TimeWord(t)
           s == t % 60
           m == t \div 60
           Up(A) == {4 + b : b \in A}
<1>1. w = {16, 17, 18, 19, 26} \cup Tux!Nibble(s % 10, 0) \cup Tux!Nibble(s \div 10, 1) \cup Tux!Nibble(m % 10, 2) \cup Tux!Nibble(m \div 10, 3)
    <2> DEFINE A == Tux!Nibble(m \div 10, 0)
               B == Tux!Nibble(m % 10, 0)
               C == Tux!Nibble(s \div 10, 0)
               D == Tux!Nibble(s % 10, 0)
    <2>1. w = Up(Up(Up(A) \cup B) \cup C) \cup D \cup {16, 17, 18, 19, 26}
        BY DEF WithAck!TimeWord, WithAck!set_tux_led, WithAck!Nibble, Tux!Nibble
    <2>2. /\ Up(Up(Up(A))) = Tux!Nibble(m \div 10, 3) /\ Up(Up(B)) = Tux!Nibble(m % 10, 2) /\ Up(C) = Tux!Nibble(s \div 10, 1)
        BY ShiftedUp
    <2> HIDE DEF A, B, C, D, w, s, m
    <2>4. Up(Up(A) \cup B) = Up(Up(A)) \cup Up(B)
        OBVIOUS
    <2>5. Up(Up(Up(A)) \cup Up(B)) = Up(Up(Up(A))) \cup Up(Up(B))
        OBVIOUS
    <2>6. Up(Up(Up(A) \cup B) \cup C) = Up(Up(Up(A) \cup B)) \cup Up(C)
        OBVIOUS
    <2> HIDE DEF Up
    <2>7. w = Up(Up(Up(A))) \cup Up(Up(B)) \cup Up(C) \cup D \cup {16, 17, 18, 19, 26}
        BY <2>1, <2>4, <2>5, <2>6
    <2>8. w = Tux!Nibble(m \div 10, 3) \cup Tux!Nibble(m % 10, 2) \cup Tux!Nibble(s \div 10, 1) \cup D \cup {16, 17, 18, 19, 26}
        BY <2>2, <2>7
    <2> QED
        BY <2>8 DEF D
<1> HIDE DEF w
<1>2. Tux!On(w) = Tux!LEDs /\ ((\A k \in Tux!LEDs : leds[k] = Tux!Shown(w, k)) => Tux!TimeOn(leds, t))
    BY <1>1, TimeShows
<1>3. ASSUME NEW k \in Tux!LEDs PROVE leds[k] = Tux!Shown(w, k)
    <2>1. 3 - k \in Tux!LEDs
        BY DEF Tux!LEDs
    <2>2. 3 - k \in WithAck!On(w)
        BY <1>2, <2>1 DEF WithAck!On, Tux!On, WithAck!LEDs, Tux!LEDs
    <2>3. leds[k] = WithAck!Shown(w, k)
        BY <2>2 DEF WithAck!LedByte, w
    <2> QED
        BY <2>3 DEF WithAck!Shown, WithAck!Digit, WithAck!Point, Tux!Shown, Tux!Digit, Tux!Point
<1>4. WithAck!TimeOn(leds, t) <=> Tux!TimeOn(leds, t)
    <2>1. \A k, n : WithAck!Digit(WithAck!Nibble(n, k), k) = Tux!Digit(Tux!Nibble(n, k), k)
        BY DEF WithAck!Digit, WithAck!Nibble, Tux!Digit, Tux!Nibble
    <2> QED
        BY <2>1 DEF WithAck!TimeOn, Tux!TimeOn
<1> QED
    BY <1>2, <1>3, <1>4

(* Nothing is on the line, and the flag is clear.                          *)
LEMMA AckInit == WithAck!Init => AckInv
<1> SUFFICES ASSUME WithAck!Init PROVE AckInv
    OBVIOUS
<1>1. /\ toDevice = << >> /\ toHost = << >> /\ pressed = {} /\ restarts = 0 /\ device = WithAck!Off
      /\ stored = {} /\ driver = "idle" /\ arg = {} /\ ack = 0 /\ inits = 0 /\ early = FALSE
    BY DEF WithAck!Init, WithAck!ControllerInit
<1>2. AckTypes
    <2>1. {} \in AckWords /\ << >> \in Seq(AckCommands) /\ << >> \in Seq(Packets)
        BY DEF AckWords
    <2>2. early \in BOOLEAN
        BY <1>1
    <2> QED
        BY <1>1, <2>1, <2>2 DEF AckTypes
<1>3. AckLeds
    BY <1>1 DEF AckLeds, WithAck!Off, WithAck!Dark, WithAck!LEDs, Tux!Dark, Tux!LEDs
<1>4. AckComes
    BY <1>1 DEF AckComes
<1>5. \A P : CountIn(toHost, P) = 0
    <2>1. \A P : {k \in DOMAIN << >> : << >>[k] \in P} = {}
        OBVIOUS
    <2> QED
        BY <1>1, <2>1, FS_EmptySet DEF CountIn
<1>6. Len(toDevice) = 0
    BY <1>1
<1>7. AckCount
    BY <1>1, <1>5, <1>6 DEF AckCount, Due, MaySend
<1> QED
    BY <1>2, <1>3, <1>4, <1>7 DEF AckInv

(* The first part of a sequence.                                           *)
LEMMA PartOf ==
    ASSUME NEW S, NEW t \in Seq(S), NEW n \in 0 .. Len(t)
    PROVE  SubSeq(t, 1, n) \in Seq(S) /\ Len(SubSeq(t, 1, n)) = n
<1>1. n = 0 \/ n \in 1 .. Len(t)
    OBVIOUS
<1>2. CASE n = 0
    <2>1. SubSeq(t, 1, 0) = << >>
        OBVIOUS
    <2> QED
        BY <1>2, <2>1
<1>3. CASE n \in 1 .. Len(t)
    <2>1. 1 \in 1 .. Len(t) + 1
        BY <1>3
    <2> QED
        BY <1>3, <2>1, SubSeqProperties
<1> QED
    BY <1>1, <1>2, <1>3

(* Whatever a put takes of t, something is on its way then, and no more    *)
(* than t was added.                                                       *)
LEMMA AckFitting ==
    ASSUME toDevice \in Seq(AckCommands), NEW t \in Seq(AckCommands), Len(t) > 0,
           NEW fits \in WithAck!Fitting(t), toDevice' = toDevice \o fits
    PROVE  /\ fits \in Seq(AckCommands) /\ Len(fits) <= Len(t)
           /\ toDevice' \in Seq(AckCommands) /\ toDevice' # << >>
           /\ Len(toDevice') <= Len(toDevice) + Len(t) /\ Len(toDevice') \in Nat
<1>1. fits \in Seq(AckCommands) /\ Len(fits) <= Len(t) /\ (fits = t \/ toDevice # << >>)
    <2>1. CASE toDevice = << >>
        BY <2>1 DEF WithAck!Fitting
    <2>2. CASE toDevice # << >>
        <3>1. PICK n \in 0 .. Len(t) : fits = SubSeq(t, 1, n)
            BY <2>2 DEF WithAck!Fitting
        <3> QED
            BY <2>2, <3>1, PartOf
    <2> QED
        BY <2>1, <2>2
<1>2. /\ toDevice' \in Seq(AckCommands) /\ Len(toDevice') = Len(toDevice) + Len(fits)
      /\ Len(toDevice) \in Nat /\ Len(fits) \in Nat
    BY <1>1, ConcatProperties, LenProperties
<1>3. toDevice' # << >>
    <2>1. toDevice # << >> => Len(toDevice) > 0
        BY EmptySeq
    <2>2. Len(toDevice') > 0
        BY <1>1, <1>2, <2>1
    <2> QED
        BY <2>2
<1>4. Len(t) \in Nat
    BY LenProperties
<1>5. Len(toDevice') <= Len(toDevice) + Len(t) /\ Len(toDevice') \in Nat
    BY <1>1, <1>2, <1>4
<1> QED
    BY <1>1, <1>2, <1>3, <1>5

(* Whatever is on its way can be counted.                                  *)
LEMMA AckNumbers ==
    ASSUME AckTypes
    PROVE  Len(toDevice) \in Nat /\ \A P : CountIn(toHost, P) \in Nat
<1>1. toDevice \in Seq(AckCommands) /\ toHost \in Seq(Packets) /\ Tux!Ack \in Packets
    BY DEF AckTypes, Packets
<1> SUFFICES ASSUME NEW P PROVE CountIn(toHost, P) \in Nat
    BY <1>1
<1> QED
    BY <1>1, CountBehind

(* A command becomes its acknowledgement: nothing is counted twice.        *)
LEMMA AckObey ==
    ASSUME AckInv, WithAck!Obey, UNCHANGED <<stored, driver, arg, ack, inits, early>>
    PROVE  AckInv'
<1> DEFINE c == Head(toDevice)
<1>1. AckTypes /\ AckLeds /\ AckComes /\ AckCount
    BY DEF AckInv
<1>2. /\ toDevice # << >> /\ toDevice' = Tail(toDevice)
      /\ device'.leds = IF c.op = "LED_SET" THEN WithAck!Set(device.leds, c) ELSE device.leds
      /\ toHost' = toHost \o WithAck!Answer(c)
      /\ pressed' = pressed /\ restarts' = restarts
      /\ stored' = stored /\ driver' = driver /\ arg' = arg /\ ack' = ack /\ inits' = inits /\ early' = early
    BY DEF WithAck!Obey
<1>3. toDevice \in Seq(AckCommands) /\ toHost \in Seq(Packets)
    BY <1>1 DEF AckTypes
<1>4. toDevice' \in Seq(AckCommands) /\ c \in AckCommands /\ Len(toDevice') = Len(toDevice) - 1
    BY <1>2, <1>3
<1>5. toHost' = toHost \o <<Tux!Ack>>
    <2>1. c.op # "POLL_LEDS"
        BY <1>4, AckKinds
    <2> QED
        BY <1>2, <2>1 DEF WithAck!Answer, WithAck!Ack, Tux!Ack, WithAck!Packet, Tux!Packet
<1> HIDE DEF c
<1>6. Tux!Ack \in Packets
    BY DEF Packets
<1>7. toHost' \in Seq(Packets) /\ \A P : NoneIn(toHost', P) <=> NoneIn(toHost, P) /\ Tux!Ack \notin P
    BY <1>3, <1>5, <1>6, OneBehind
<1>8. AckTypes'
    BY <1>1, <1>2, <1>4, <1>7 DEF AckTypes
<1>9. AckLeds'
    <2>1. CASE c.op = "LED_SET"
        <3>1. PICK word \in AckWords : c = WithAck!LedCommand(word)
            BY <1>4, <2>1, AckKinds DEF AckSets
        <3>2. device'.leds = WithAck!Set(device.leds, WithAck!LedCommand(word))
            BY <1>2, <2>1, <3>1
        <3>3. \A k \in Tux!LEDs : device'.leds[k] = WithAck!LedByte(word, k)
            BY <3>2, AckSetShows
        <3> QED
            BY <3>3 DEF AckLeds
    <2>2. CASE c.op # "LED_SET"
        BY <1>1, <1>2, <2>2 DEF AckLeds
    <2> QED
        BY <2>1, <2>2
<1>10. AckComes'
    <2>1. ~NoneIn(toHost', {Tux!Ack, ResetPacket})
        BY <1>7
    <2> QED
        BY <2>1 DEF AckComes
<1>11. AckCount'
    <2>1. /\ CountIn(toHost', {Tux!Ack}) = CountIn(toHost, {Tux!Ack}) + 1
          /\ CountIn(toHost', {ResetPacket}) = CountIn(toHost, {ResetPacket})
        <3>1. Tux!Ack \notin {ResetPacket}
            BY PacketKinds
        <3>2. \A P : CountIn(toHost', P) = CountIn(toHost, P) + (IF Tux!Ack \in P THEN 1 ELSE 0) /\ CountIn(toHost, P) \in Nat
            BY <1>3, <1>5, <1>6, CountBehind
        <3> QED
            BY <3>1, <3>2
    <2>2. Due' = Due /\ MaySend' = MaySend
        BY <1>2, <2>1 DEF Due, MaySend
    <2>3. Len(toDevice) \in Nat /\ CountIn(toHost, {Tux!Ack}) \in Nat
        BY <1>1, AckNumbers
    <2>4. Len(toDevice') + CountIn(toHost', {Tux!Ack}) = Len(toDevice) + CountIn(toHost, {Tux!Ack})
        BY <1>4, <2>1, <2>3
    <2> QED
        BY <1>1, <1>2, <2>2, <2>4 DEF AckCount
<1> QED
    BY <1>8, <1>9, <1>10, <1>11 DEF AckInv

(* A reset loses commands; the three that will be put for it are due.      *)
LEMMA AckReset ==
    ASSUME AckInv, WithAck!PressReset, UNCHANGED <<stored, driver, arg, ack, inits, early>>
    PROVE  AckInv'
<1>1. AckTypes /\ AckLeds /\ AckComes /\ AckCount
    BY DEF AckInv
<1>2. toDevice \in Seq(AckCommands) /\ toHost \in Seq(Packets) /\ restarts \in Nat
    BY <1>1 DEF AckTypes
<1>3. PICK k \in 0 .. Len(toDevice) : toDevice' = SubSeq(toDevice, k + 1, Len(toDevice))
    BY DEF WithAck!PressReset
<1>4. /\ restarts' = restarts + 1 /\ device' = WithAck!Off /\ pressed' = pressed
      /\ stored' = stored /\ driver' = driver /\ arg' = arg /\ ack' = ack /\ inits' = inits /\ early' = early
      /\ toHost' = Append(toHost, WithAck!Packet("RESET", {}))
    BY DEF WithAck!PressReset
<1>5. ResetPacket \in Packets /\ toHost' = toHost \o <<ResetPacket>>
    <2>1. ResetPacket \in Packets
        BY DEF Packets
    <2>2. Append(toHost, ResetPacket) = toHost \o <<ResetPacket>>
        BY <1>2, <2>1, AppendIsConcat
    <2> QED
        BY <1>4, <2>1, <2>2 DEF ResetPacket, WithAck!Packet, Tux!Packet
<1>6. toDevice' \in Seq(AckCommands) /\ Len(toDevice') = Len(toDevice) - k
    BY <1>2, <1>3, Gone
<1>7. toHost' \in Seq(Packets) /\ \A P : NoneIn(toHost', P) <=> NoneIn(toHost, P) /\ ResetPacket \notin P
    BY <1>2, <1>5, OneBehind
<1>8. AckTypes'
    BY <1>1, <1>2, <1>4, <1>6, <1>7 DEF AckTypes
<1>9. AckLeds'
    BY <1>4 DEF AckLeds, WithAck!Off, WithAck!Dark, WithAck!LEDs, Tux!Dark, Tux!LEDs
<1>10. AckComes'
    <2>1. ~NoneIn(toHost', {Tux!Ack, ResetPacket})
        BY <1>7
    <2> QED
        BY <2>1 DEF AckComes
<1>11. AckCount'
    <2>1. /\ CountIn(toHost', {Tux!Ack}) = CountIn(toHost, {Tux!Ack})
          /\ CountIn(toHost', {ResetPacket}) = CountIn(toHost, {ResetPacket}) + 1
        <3>1. ResetPacket \notin {Tux!Ack}
            BY PacketKinds
        <3>2. \A P : CountIn(toHost', P) = CountIn(toHost, P) + (IF ResetPacket \in P THEN 1 ELSE 0) /\ CountIn(toHost, P) \in Nat
            BY <1>2, <1>5, CountBehind
        <3> QED
            BY <3>1, <3>2
    <2>2. Len(toDevice) \in Nat /\ CountIn(toHost, {Tux!Ack}) \in Nat /\ CountIn(toHost, {ResetPacket}) \in Nat
        BY <1>1, AckNumbers
    <2>3. Due' = Due + 3 /\ Due \in Nat
        BY <1>4, <2>1, <2>2, SMTT(60) DEF Due
    <2>7. MaySend' = MaySend
        BY <1>4 DEF MaySend
    <2>4. Len(toDevice') <= Len(toDevice) /\ Len(toDevice') \in Nat
        BY <1>6, <2>2
    <2>5. inits \in Nat
        BY <1>1 DEF AckTypes
    <2>6. 2 * inits' + 3 * restarts' = 2 * inits + 3 * restarts + 3
        BY <1>2, <1>4, <2>5
    <2> QED
        BY <1>1, <1>2, <2>1, <2>2, <2>3, <2>4, <2>5, <2>6, <2>7, SMTT(60) DEF AckCount
<1> QED
    BY <1>8, <1>9, <1>10, <1>11 DEF AckInv

(* Events are neither commands nor acknowledgements.                       *)
LEMMA AckPress ==
    ASSUME AckInv, WithAck!PressButtons, UNCHANGED <<stored, driver, arg, ack, inits, early>>
    PROVE  AckInv'
<1>1. AckTypes /\ AckLeds /\ AckComes /\ AckCount
    BY DEF AckInv
<1>2. /\ toDevice' = toDevice /\ device' = device /\ restarts' = restarts
      /\ stored' = stored /\ driver' = driver /\ arg' = arg /\ ack' = ack /\ inits' = inits /\ early' = early
    BY DEF WithAck!PressButtons
<1>3. pressed' \subseteq Tux!Buttons
    BY <1>1 DEF AckTypes, WithAck!PressButtons, WithAck!Buttons, Tux!Buttons
<1>4. toHost \in Seq(Packets)
    BY <1>1 DEF AckTypes
<1>5. /\ toHost' \in Seq(Packets)
      /\ CountIn(toHost', {Tux!Ack}) = CountIn(toHost, {Tux!Ack}) /\ CountIn(toHost', {ResetPacket}) = CountIn(toHost, {ResetPacket})
      /\ NoneIn(toHost', {Tux!Ack, ResetPacket}) <=> NoneIn(toHost, {Tux!Ack, ResetPacket})
    <2>1. CASE device.bioc
        <3>1. toHost' = Append(toHost, WithAck!Event(pressed'))
            BY <2>1 DEF WithAck!PressButtons
        <3> DEFINE e == Tux!Event(pressed')
        <3>2. e \in Packets /\ e # ResetPacket /\ e # Tux!Ack
            BY <1>3, PacketKinds DEF Packets
        <3>3. WithAck!Event(pressed') = e
            BY DEF WithAck!Event, Tux!Event, WithAck!Packet, Tux!Packet, WithAck!Bit, Tux!Bit, WithAck!Buttons, Tux!Buttons
        <3> HIDE DEF e
        <3>4. toHost' = toHost \o <<e>>
            BY <1>4, <3>1, <3>2, <3>3, AppendIsConcat
        <3>5. toHost' \in Seq(Packets) /\ \A P : NoneIn(toHost', P) <=> NoneIn(toHost, P) /\ e \notin P
            BY <1>4, <3>2, <3>4, OneBehind
        <3>6. \A P : CountIn(toHost', P) = CountIn(toHost, P) + (IF e \in P THEN 1 ELSE 0) /\ CountIn(toHost, P) \in Nat
            BY <1>4, <3>2, <3>4, CountBehind
        <3>7. \A P : e \notin P => CountIn(toHost', P) = CountIn(toHost, P)
            BY <3>6
        <3> QED
            BY <3>2, <3>5, <3>7
    <2>2. CASE ~device.bioc
        BY <1>4, <2>2 DEF WithAck!PressButtons
    <2> QED
        BY <2>1, <2>2
<1>6. AckTypes'
    BY <1>1, <1>2, <1>3, <1>5 DEF AckTypes
<1>7. AckLeds' /\ AckComes'
    BY <1>1, <1>2, <1>5 DEF AckLeds, AckComes
<1>8. AckCount'
    BY <1>1, <1>2, <1>5 DEF AckCount, Due, MaySend
<1> QED
    BY <1>6, <1>7, <1>8 DEF AckInv

(* The calls begin: TUX_INIT will put two commands.                        *)
LEMMA AckCalls ==
    ASSUME AckInv, WithAck!TuxInit \/ \E word \in Words \cup {WithAck!TimeWord(t) : t \in Times} : WithAck!TuxSetLed(word)
    PROVE  AckInv'
<1>1. AckTypes /\ AckLeds /\ AckComes /\ AckCount
    BY DEF AckInv
<1>2. /\ toDevice' = toDevice /\ toHost' = toHost /\ device' = device /\ restarts' = restarts /\ pressed' = pressed
      /\ ack' = ack /\ early' = early /\ driver = "idle"
    BY DEF WithAck!TuxInit, WithAck!TuxSetLed, WithAck!Begin, WithAck!controller
<1>3. AckLeds'
    BY <1>1, <1>2 DEF AckLeds
<1>4. CASE WithAck!TuxInit
    <2>1. driver' = "start" /\ stored' = {} /\ inits' = inits + 1 /\ arg' = arg
        BY <1>4 DEF WithAck!TuxInit, WithAck!Begin
    <2>2. {} \in AckWords
        BY DEF AckWords
    <2>3. AckTypes'
        BY <1>1, <1>2, <2>1, <2>2 DEF AckTypes
    <2>4. AckComes'
        BY <1>1, <1>2, <2>1 DEF AckComes
    <2>5. Due' = Due + 2 /\ Due \in Nat
        <3>1. CountIn(toHost, {ResetPacket}) \in Nat
            BY <1>1, AckNumbers
        <3> QED
            BY <1>2, <2>1, <3>1 DEF Due
    <2>6. MaySend' = MaySend
        BY <1>2, <2>1 DEF MaySend
    <2>7. inits \in Nat /\ restarts \in Nat /\ Len(toDevice) \in Nat /\ CountIn(toHost, {Tux!Ack}) \in Nat
        BY <1>1, AckNumbers DEF AckTypes
    <2>8. AckCount'
        BY <1>1, <1>2, <2>1, <2>5, <2>6, <2>7 DEF AckCount
    <2> QED
        BY <1>3, <2>3, <2>4, <2>8 DEF AckInv
<1>5. CASE \E word \in Words \cup {WithAck!TimeWord(t) : t \in Times} : WithAck!TuxSetLed(word)
    <2>1. driver' = "test" /\ stored' \in AckWords /\ inits' = inits /\ arg' \in AckWords
        BY <1>5 DEF WithAck!TuxSetLed, WithAck!Begin, AckWords
    <2>2. AckTypes'
        BY <1>1, <1>2, <2>1 DEF AckTypes
    <2>3. AckComes'
        BY <1>1, <1>2, <2>1 DEF AckComes
    <2>4. AckCount'
        BY <1>1, <1>2, <2>1 DEF AckCount, Due, MaySend
    <2> QED
        BY <1>3, <2>2, <2>3, <2>4 DEF AckInv
<1> QED
    BY <1>4, <1>5

(* What the controller is started with.                                    *)
LEMMA AckRestart ==
    /\ WithAck!Restart = <<LedUsr, BiocOn>> /\ LedUsr \in AckCommands /\ BiocOn \in AckCommands
    /\ WithAck!Restart \in Seq(AckCommands) /\ Len(WithAck!Restart) = 2
<1>1. WithAck!Restart = <<LedUsr, BiocOn>> /\ LedUsr \in AckCommands /\ BiocOn \in AckCommands
    BY DEF WithAck!Restart, BiocOn, LedUsr, WithAck!Command, Tux!Command, AckCommands
<1> QED
    BY <1>1

(* The steps of the calls: a command is put first and the flag set after   *)
(* it.                                                                     *)
LEMMA AckProgram == ASSUME AckInv, WithAck!ProgramSteps PROVE AckInv'
<1>1. AckTypes /\ AckLeds /\ AckComes /\ AckCount
    BY DEF AckInv
<1>2. /\ toHost' = toHost /\ device' = device /\ restarts' = restarts /\ pressed' = pressed
      /\ stored' = stored /\ arg' = arg /\ inits' = inits
    BY DEF WithAck!ProgramSteps, WithAck!PutRestart, WithAck!TestAck, WithAck!PutLeds, WithAck!MarkSent,
           WithAck!controller, WithAck!outside, WithAck!driver
<1>3. AckLeds'
    BY <1>1, <1>2 DEF AckLeds
<1>4. /\ toDevice \in Seq(AckCommands) /\ inits \in Nat /\ restarts \in Nat /\ ack \in {0, 1} /\ early \in BOOLEAN
      /\ Len(toDevice) \in Nat /\ CountIn(toHost, {Tux!Ack}) \in Nat /\ CountIn(toHost, {ResetPacket}) \in Nat
    BY <1>1, AckNumbers DEF AckTypes
<1>5. CASE WithAck!PutRestart
    <2>1. driver = "start" /\ driver' = "mark" /\ early' = FALSE /\ ack' = ack
        BY <1>5 DEF WithAck!PutRestart, WithAck!driver
    <2>2. PICK fits \in WithAck!Fitting(WithAck!Restart) : toDevice' = toDevice \o fits
        BY <1>5 DEF WithAck!PutRestart, WithAck!Sent
    <2>3. toDevice' \in Seq(AckCommands) /\ Len(toDevice') <= Len(toDevice) + 2 /\ Len(toDevice') \in Nat /\ toDevice' # << >>
        <3> DEFINE t == WithAck!Restart
        <3>1. t \in Seq(AckCommands) /\ Len(t) = 2 /\ fits \in WithAck!Fitting(t)
            BY AckRestart
        <3> HIDE DEF t
        <3>2. Len(t) > 0 /\ toDevice \in Seq(AckCommands)
            BY <1>4, <3>1
        <3>3. toDevice' \in Seq(AckCommands) /\ toDevice' # << >> /\ Len(toDevice') <= Len(toDevice) + Len(t) /\ Len(toDevice') \in Nat
            BY <2>2, <3>1, <3>2, AckFitting, Zenon
        <3> QED
            BY <3>1, <3>3
    <2>4. AckTypes'
        BY <1>1, <1>2, <2>1, <2>3 DEF AckTypes
    <2>5. AckComes'
        BY <2>3 DEF AckComes
    <2>6. Due' = Due - 2 /\ Due \in Nat
        BY <1>2, <1>4, <2>1 DEF Due
    <2>7. MaySend' = FALSE
        BY <2>1 DEF MaySend
    <2>8. AckCount'
        BY <1>1, <1>2, <1>4, <2>3, <2>6, <2>7 DEF AckCount
    <2> QED
        BY <1>3, <2>4, <2>5, <2>8 DEF AckInv
<1>6. CASE WithAck!TestAck
    <2>1. /\ driver = "test" /\ driver' = IF ack = 1 THEN "idle" ELSE "put"
          /\ early' = early /\ ack' = ack /\ toDevice' = toDevice
        BY <1>6 DEF WithAck!TestAck, WithAck!MayNotSend, WithAck!controller, WithAck!driver
    <2>2. AckTypes'
        BY <1>1, <1>2, <2>1 DEF AckTypes
    <2>3. AckComes'
        BY <1>1, <1>2, <2>1 DEF AckComes
    <2>4. Due' = Due
        BY <1>2, <2>1 DEF Due
    <2>5. MaySend' = MaySend
        BY <1>4, <2>1 DEF MaySend
    <2>6. AckCount'
        BY <1>1, <1>2, <2>1, <2>4, <2>5 DEF AckCount
    <2> QED
        BY <1>3, <2>2, <2>3, <2>6 DEF AckInv
<1>7. CASE WithAck!PutLeds
    <2>1. driver = "put" /\ driver' = "mark" /\ early' = FALSE /\ ack' = ack
        BY <1>7 DEF WithAck!PutLeds, WithAck!driver
    <2>2. PICK fits \in WithAck!Fitting(<<WithAck!LedCommand(arg)>>) : toDevice' = toDevice \o fits
        BY <1>7 DEF WithAck!PutLeds, WithAck!Sent
    <2>3. toDevice' \in Seq(AckCommands) /\ Len(toDevice') <= Len(toDevice) + 1 /\ Len(toDevice') \in Nat /\ toDevice' # << >>
        <3>1. WithAck!LedCommand(arg) \in AckCommands
            BY <1>1, AckKinds DEF AckTypes
        <3> DEFINE t == <<WithAck!LedCommand(arg)>>
        <3>2. t \in Seq(AckCommands) /\ Len(t) = 1
            BY <3>1
        <3>3. fits \in WithAck!Fitting(t)
            OBVIOUS
        <3> HIDE DEF t
        <3>4. Len(t) > 0 /\ toDevice \in Seq(AckCommands)
            BY <1>4, <3>2
        <3>5. toDevice' \in Seq(AckCommands) /\ toDevice' # << >> /\ Len(toDevice') <= Len(toDevice) + Len(t) /\ Len(toDevice') \in Nat
            BY <2>2, <3>2, <3>3, <3>4, AckFitting, Zenon
        <3> QED
            BY <3>2, <3>5
    <2>4. AckTypes'
        BY <1>1, <1>2, <2>1, <2>3 DEF AckTypes
    <2>5. AckComes'
        BY <2>3 DEF AckComes
    <2>6. Due' = Due /\ Due \in Nat
        BY <1>2, <1>4, <2>1 DEF Due
    <2>7. MaySend' = FALSE /\ MaySend = TRUE
        BY <2>1 DEF MaySend
    <2>8. AckCount'
        BY <1>1, <1>2, <1>4, <2>3, <2>6, <2>7 DEF AckCount
    <2> QED
        BY <1>3, <2>4, <2>5, <2>8 DEF AckInv
<1>8. CASE WithAck!MarkSent
    <2>1. driver = "mark" /\ driver' = "idle" /\ ack' = 1 /\ early' = early /\ toDevice' = toDevice
        BY <1>8 DEF WithAck!MarkSent, WithAck!controller
    <2>2. AckTypes'
        BY <1>1, <1>2, <2>1 DEF AckTypes
    <2>3. AckComes'
        BY <1>1, <1>2, <2>1 DEF AckComes
    <2>4. Due' = Due
        BY <1>2, <2>1 DEF Due
    <2>5. MaySend' = FALSE /\ MaySend = FALSE
        BY <2>1 DEF MaySend
    <2>6. AckCount'
        BY <1>1, <1>2, <2>1, <2>4, <2>5 DEF AckCount
    <2> QED
        BY <1>3, <2>2, <2>3, <2>6 DEF AckInv
<1> QED
    BY <1>5, <1>6, <1>7, <1>8 DEF WithAck!ProgramSteps

(* The interrupt takes a packet, and puts what is due after a reset.       *)
LEMMA AckHandle == ASSUME AckInv, WithAck!Handle PROVE AckInv'
<1> DEFINE p == Head(toHost)
<1>1. AckTypes /\ AckLeds /\ AckComes /\ AckCount
    BY DEF AckInv
<1>2. /\ toHost # << >> /\ toHost' = Tail(toHost)
      /\ device' = device /\ restarts' = restarts /\ pressed' = pressed
      /\ stored' = stored /\ driver' = driver /\ arg' = arg /\ inits' = inits
    BY DEF WithAck!Handle, WithAck!HandleAck, WithAck!HandleEvent, WithAck!HandleReset, WithAck!Received,
           WithAck!outside, WithAck!program
<1>3. AckLeds'
    BY <1>1, <1>2 DEF AckLeds
<1>4. toDevice \in Seq(AckCommands) /\ toHost \in Seq(Packets) /\ inits \in Nat /\ restarts \in Nat /\ ack \in {0, 1} /\ early \in BOOLEAN
    BY <1>1 DEF AckTypes
<1>5. /\ toHost' \in Seq(Packets) /\ p \in Packets
      /\ \A P : NoneIn(toHost, P) <=> p \notin P /\ NoneIn(toHost', P)
    BY <1>2, <1>4, FirstGone
<1>6. \A P : CountIn(toHost, P) = CountIn(toHost', P) + (IF p \in P THEN 1 ELSE 0) /\ CountIn(toHost', P) \in Nat
    BY <1>2, <1>4, CountFirst
<1> HIDE DEF p
<1>7. /\ CountIn(toHost, {Tux!Ack}) = CountIn(toHost', {Tux!Ack}) + (IF p = Tux!Ack THEN 1 ELSE 0)
      /\ CountIn(toHost, {ResetPacket}) = CountIn(toHost', {ResetPacket}) + (IF p = ResetPacket THEN 1 ELSE 0)
      /\ CountIn(toHost', {Tux!Ack}) \in Nat /\ CountIn(toHost', {ResetPacket}) \in Nat /\ Len(toDevice) \in Nat
    BY <1>4, <1>6
<1>8. Due' = Due - (IF p = ResetPacket THEN 3 ELSE 0) /\ Due \in Nat /\ Due' \in Nat
    BY <1>2, <1>7, SMTT(60) DEF Due
<1>9. (p = Tux!Ack <=> p.kind = "ACK") /\ (p = ResetPacket <=> p.kind = "RESET")
    BY <1>5, PacketKinds
<1>10. CASE WithAck!HandleAck
    <2>1. p.kind = "ACK" /\ ack' = 0 /\ early' = (early \/ driver = "mark") /\ toDevice' = toDevice
        BY <1>10 DEF WithAck!HandleAck, WithAck!Acked, WithAck!Received, p
    <2>2. p = Tux!Ack /\ p # ResetPacket
        BY <1>9, <2>1
    <2>3. AckTypes'
        BY <1>1, <1>2, <1>4, <1>5, <2>1 DEF AckTypes
    <2>4. AckComes'
        <3>1. driver' = "mark" => early'
            BY <1>2, <2>1
        <3>2. ack' # 1
            BY <2>1
        <3> QED
            BY <3>1, <3>2 DEF AckComes
    <2>5. AckCount'
        BY <1>1, <1>2, <1>4, <1>7, <1>8, <2>1, <2>2 DEF AckCount
    <2> QED
        BY <1>3, <2>3, <2>4, <2>5 DEF AckInv
<1>11. CASE WithAck!HandleEvent
    <2>1. p.kind = "BIOC_EVENT" /\ ack' = ack /\ early' = early /\ toDevice' = toDevice
        BY <1>11 DEF WithAck!HandleEvent, WithAck!Received, p
    <2>2. p # Tux!Ack /\ p # ResetPacket
        BY <1>9, <2>1
    <2>3. AckTypes'
        BY <1>1, <1>2, <1>4, <1>5, <2>1 DEF AckTypes
    <2>4. AckComes'
        BY <1>1, <1>2, <1>5, <2>1, <2>2 DEF AckComes
    <2>5. MaySend' = MaySend
        BY <1>2, <2>1 DEF MaySend
    <2>6. AckCount'
        BY <1>1, <1>2, <1>4, <1>7, <1>8, <2>1, <2>2, <2>5 DEF AckCount
    <2> QED
        BY <1>3, <2>3, <2>4, <2>6 DEF AckInv
<1>12. CASE WithAck!HandleReset
    <2>1. /\ p.kind = "RESET"
          /\ (ack' = ack /\ early' = early) \/ (ack' = 1 /\ early' = FALSE)
        BY <1>12 DEF WithAck!HandleReset, WithAck!Received, p
    <2>2. p = ResetPacket /\ p # Tux!Ack
        BY <1>9, <2>1
    <2>3. PICK fits \in WithAck!Fitting(WithAck!PutOnReset) : toDevice' = toDevice \o fits
        BY <1>12 DEF WithAck!HandleReset, WithAck!Sent
    <2> DEFINE c == WithAck!LedCommand(stored)
    <2>4. LedUsr \in AckCommands /\ BiocOn \in AckCommands /\ c \in AckCommands
        BY <1>1, AckKinds, AckRestart DEF AckTypes
    <2>5. WithAck!PutOnReset = IF ack = 1 THEN <<LedUsr, BiocOn>> ELSE <<LedUsr, BiocOn>> \o <<c>>
        BY AckRestart DEF WithAck!PutOnReset
    <2> HIDE DEF c
    <2>6. /\ toDevice' \in Seq(AckCommands) /\ toDevice' # << >>
          /\ Len(toDevice') <= Len(toDevice) + 3 /\ Len(toDevice') \in Nat
        <3> DEFINE t == WithAck!PutOnReset
        <3>1. t \in Seq(AckCommands) /\ Len(t) <= 3 /\ Len(t) > 0
            <4>1. <<LedUsr, BiocOn>> \o <<c>> \in Seq(AckCommands) /\ Len(<<LedUsr, BiocOn>> \o <<c>>) = 3
                BY <2>4
            <4>2. <<LedUsr, BiocOn>> \in Seq(AckCommands) /\ Len(<<LedUsr, BiocOn>>) = 2
                BY <2>4
            <4> QED
                BY <2>5, <4>1, <4>2
        <3>2. fits \in WithAck!Fitting(t)
            OBVIOUS
        <3> HIDE DEF t
        <3>3. toDevice \in Seq(AckCommands)
            BY <1>4
        <3>4. toDevice' \in Seq(AckCommands) /\ toDevice' # << >> /\ Len(toDevice') <= Len(toDevice) + Len(t) /\ Len(toDevice') \in Nat
            BY <2>3, <3>1, <3>2, <3>3, AckFitting, Zenon
        <3>5. Len(toDevice) \in Nat /\ Len(t) \in Nat
            BY <3>1, <3>3, LenProperties
        <3> QED
            BY <3>1, <3>4, <3>5
    <2>7. AckTypes'
        <3>1. ack' \in {0, 1} /\ early' \in BOOLEAN
            BY <1>4, <2>1
        <3> QED
            BY <1>1, <1>2, <1>5, <2>6, <3>1 DEF AckTypes
    <2>8. AckComes'
        BY <2>6 DEF AckComes
    <2>9. MaySend' => MaySend
        BY <1>2, <2>1 DEF MaySend
    <2> DEFINE before == IF MaySend THEN 0 ELSE 1
               after == IF MaySend' THEN 0 ELSE 1
    <2>10. before \in Nat /\ after \in Nat /\ before <= after
        BY <2>9
    <2>11. Len(toDevice') + CountIn(toHost', {Tux!Ack}) + Due' <= Len(toDevice) + CountIn(toHost, {Tux!Ack}) + Due
        BY <1>7, <1>8, <2>2, <2>6
    <2>12. AckCount'
        <3>1. Len(toDevice) + CountIn(toHost, {Tux!Ack}) + Due <= 2 * inits + 3 * restarts + before
            BY <1>1 DEF AckCount
        <3>2. Len(toDevice) + CountIn(toHost, {Tux!Ack}) + Due \in Nat /\ Len(toDevice') + CountIn(toHost', {Tux!Ack}) + Due' \in Nat
            BY <1>7, <1>8, <2>2, <2>6, SMTT(60)
        <3> HIDE DEF before, after
        <3>3. Len(toDevice') + CountIn(toHost', {Tux!Ack}) + Due' <= 2 * inits' + 3 * restarts' + after
            BY <1>2, <1>4, <2>10, <2>11, <3>1, <3>2
        <3> QED
            BY <3>3 DEF AckCount, after
    <2> QED
        BY <1>3, <2>7, <2>8, <2>12 DEF AckInv
<1> QED
    BY <1>10, <1>11, <1>12 DEF WithAck!Handle

(* The invariant is inductive.                                             *)
LEMMA AckStep == AckInv /\ WithAck!Next => AckInv'
<1> SUFFICES ASSUME AckInv, WithAck!Next PROVE AckInv'
    OBVIOUS
<1>1. CASE WithAck!Device
    <2>1. UNCHANGED <<stored, driver, arg, ack, inits, early>> /\ WithAck!DeviceSteps
        BY <1>1 DEF WithAck!Device, WithAck!driver, WithAck!program
    <2> QED
        BY <2>1, AckObey, AckReset, AckPress DEF WithAck!DeviceSteps
<1>2. CASE WithAck!TuxInit \/ \E word \in Words \cup {WithAck!TimeWord(t) : t \in Times} : WithAck!TuxSetLed(word)
    BY <1>2, AckCalls
<1>3. CASE WithAck!ProgramSteps
    BY <1>3, AckProgram
<1>4. CASE WithAck!Handle
    BY <1>4, AckHandle
<1> QED
    BY <1>1, <1>2, <1>3, <1>4 DEF WithAck!Next

(* The invariant implies what this driver promises.                        *)
LEMMA AckSafe == AckInv => WithAck!AckSafety
<1> SUFFICES ASSUME AckInv PROVE WithAck!AckSafety
    OBVIOUS
<1>1. AckTypes /\ AckLeds /\ AckComes /\ AckCount
    BY DEF AckInv
<1>2. WithAck!OutBounded
    <2>1. WithAck!Of("ACK", toHost) = {k \in DOMAIN toHost : toHost[k] \in {Tux!Ack}}
        <3>1. toHost \in Seq(Packets)
            BY <1>1 DEF AckTypes
        <3>2. \A k \in DOMAIN toHost : toHost[k] \in Packets
            BY <3>1
        <3> QED
            BY <3>2, PacketKinds DEF WithAck!Of
    <2>2. \A S : WithAck!Cardinality(S) = Cardinality(S)
        BY DEF WithAck!Cardinality, Cardinality
    <2>3. WithAck!Out = Len(toDevice) + CountIn(toHost, {Tux!Ack})
        BY <2>1, <2>2 DEF WithAck!Out, CountIn
    <2>4. Len(toDevice) \in Nat /\ CountIn(toHost, {Tux!Ack}) \in Nat /\ CountIn(toHost, {ResetPacket}) \in Nat
        BY <1>1, AckNumbers
    <2>5. Due \in Nat
        BY <2>4 DEF Due
    <2>6. restarts \in Nat /\ inits \in Nat
        BY <1>1 DEF AckTypes
    <2> QED
        BY <1>1, <2>3, <2>4, <2>5, <2>6 DEF AckCount, WithAck!OutBounded
<1>3. WithAck!RefusedOnlyWhenEarly
    <2>1. WithAck!Quiet => toDevice = << >> /\ toHost = << >>
        BY DEF WithAck!Quiet
    <2> QED
        BY <1>1, <2>1, NothingIn DEF AckComes, WithAck!RefusedOnlyWhenEarly
<1>4. WithAck!WordWhole
    <2>1. WithAck!LEDs = Tux!LEDs /\ WithAck!Dark = Tux!Dark
        BY DEF WithAck!LEDs, Tux!LEDs, WithAck!Dark, Tux!Dark
    <2>2. CASE \A k \in Tux!LEDs : device.leds[k] = Tux!Dark
        BY <2>1, <2>2 DEF WithAck!WordWhole
    <2>3. CASE \E word \in AckWords : \A k \in Tux!LEDs : device.leds[k] = WithAck!LedByte(word, k)
        <3>1. PICK word \in AckWords : \A k \in Tux!LEDs : device.leds[k] = WithAck!LedByte(word, k)
            BY <2>3
        <3>2. CASE word \in Words \cup {{}}
            BY <2>1, <3>1, <3>2 DEF WithAck!WordWhole
        <3>3. CASE word \notin Words \cup {{}}
            <4>1. PICK t \in Times : word = WithAck!TimeWord(t)
                BY <3>3 DEF AckWords
            <4>2. WithAck!TimeOn(device.leds, t)
                BY <3>1, <4>1, AckTime
            <4> QED
                BY <4>2 DEF WithAck!WordWhole
        <3> QED
            BY <3>2, <3>3
    <2> QED
        BY <1>1, <2>2, <2>3 DEF AckLeds
<1> QED
    BY <1>2, <1>3, <1>4 DEF WithAck!AckSafety

\* At most one element of a sequence is x.
Once(s, x) == \A j, k \in DOMAIN s : s[j] = x /\ s[k] = x => j = k

(* One element more, where there was none or which is another.             *)
LEMMA OnceBehind ==
    ASSUME NEW S, NEW s \in Seq(S), NEW a \in S, NEW x
    PROVE  (Once(s, x) /\ a # x) \/ NoneIn(s, {x}) => Once(s \o <<a>>, x)
<1> DEFINE t == s \o <<a>>
           n == Len(s)
<1>1. n \in Nat /\ DOMAIN s = 1 .. n /\ DOMAIN t = 1 .. n + 1 /\ t[n + 1] = a /\ \A k \in 1 .. n : t[k] = s[k]
    <2>1. t = Append(s, a)
        BY AppendIsConcat
    <2> QED
        BY <2>1
<1> HIDE DEF t, n
<1>2. ASSUME NEW j \in 1 .. n + 1, NEW k \in 1 .. n + 1, t[j] = x, t[k] = x, (Once(s, x) /\ a # x) \/ NoneIn(s, {x})
      PROVE  j = k
    <2>1. CASE Once(s, x) /\ a # x
        <3>1. j # n + 1 /\ k # n + 1
            BY <1>1, <1>2, <2>1
        <3>2. j \in 1 .. n /\ k \in 1 .. n
            BY <1>1, <3>1
        <3> QED
            BY <1>1, <1>2, <2>1, <3>2 DEF Once
    <2>2. CASE NoneIn(s, {x})
        <3>1. j \notin 1 .. n /\ k \notin 1 .. n
            BY <1>1, <1>2, <2>2 DEF NoneIn
        <3> QED
            BY <1>1, <3>1
    <2> QED
        BY <1>2, <2>1, <2>2
<1> QED
    BY <1>1, <1>2 DEF Once, t

(* Fewer of them.                                                          *)
LEMMA OnceGone ==
    ASSUME NEW S, NEW s \in Seq(S), NEW n \in 0 .. Len(s), NEW x, Once(s, x)
    PROVE  Once(SubSeq(s, n + 1, Len(s)), x)
<1> DEFINE t == SubSeq(s, n + 1, Len(s))
           m == Len(s)
<1>1. t \in Seq(S) /\ Len(t) = m - n /\ \A k \in 1 .. m - n : n + k \in 1 .. m /\ t[k] = s[n + k]
    BY Gone
<1>2. m \in Nat /\ n \in Nat /\ DOMAIN s = 1 .. m /\ DOMAIN t = 1 .. m - n
    BY <1>1
<1> HIDE DEF t, m
<1>3. ASSUME NEW j \in 1 .. m - n, NEW k \in 1 .. m - n, t[j] = x, t[k] = x PROVE j = k
    <2>1. n + j = n + k
        BY <1>1, <1>2, <1>3 DEF Once
    <2> QED
        BY <1>2, <2>1
<1> QED
    BY <1>2, <1>3 DEF Once, t

(* And the first one of them.                                              *)
LEMMA OnceFirst ==
    ASSUME NEW S, NEW s \in Seq(S), s # << >>, NEW x, Once(s, x)
    PROVE  Once(Tail(s), x) /\ (Head(s) = x => NoneIn(Tail(s), {x}))
<1> DEFINE t == Tail(s)
           m == Len(s)
<1>1. m \in Nat \ {0} /\ DOMAIN s = 1 .. m /\ Head(s) = s[1] /\ DOMAIN t = 1 .. m - 1 /\ \A k \in 1 .. m - 1 : t[k] = s[k + 1]
    OBVIOUS
<1> HIDE DEF t, m
<1>2. ASSUME NEW j \in 1 .. m - 1, NEW k \in 1 .. m - 1, t[j] = x, t[k] = x PROVE j = k
    <2>1. j + 1 \in 1 .. m /\ k + 1 \in 1 .. m
        BY <1>1
    <2>2. j + 1 = k + 1
        BY <1>1, <1>2, <2>1 DEF Once
    <2> QED
        BY <1>1, <2>2
<1>3. ASSUME Head(s) = x, NEW k \in 1 .. m - 1, t[k] = x PROVE FALSE
    <2>1. k + 1 \in 1 .. m /\ 1 \in 1 .. m
        BY <1>1
    <2>2. k + 1 = 1
        BY <1>1, <1>3, <2>1 DEF Once
    <2> QED
        BY <1>1, <2>2
<1> QED
    BY <1>1, <1>2, <1>3 DEF Once, NoneIn, t

PollWords == Words \cup {Poll!TimeWord(t) : t \in Times} \cup {{}}
PollSets == {Poll!LedCommand(word) : word \in PollWords}
Request == Tux!Command("POLL_LEDS")
PollCommands == {BiocOn, LedUsr, Request} \cup PollSets

\* The two packets of the answer.
First == Tux!Packet("POLL0", <<polled[0], polled[1]>>)
Second == Tux!Packet("POLL1", <<polled[2], polled[3]>>)
Half == Poll!Decoded(polled[0], 0) \cup Poll!Decoded(polled[1], 1)
Both == Half \cup Poll!Decoded(polled[2], 2) \cup Poll!Decoded(polled[3], 3)
Whole == Both \cup Poll!Lit(Both)

PollTypes ==
    /\ toDevice \in Seq(PollCommands) /\ toHost \in Seq(Packets \cup {First, Second})
    /\ driver \in {"idle", "set", "send", "ack", "read", "conf", "val"} /\ arg \in PollWords /\ stored \in PollWords
    /\ pressed \subseteq Tux!Buttons /\ restarts \in Nat /\ readledconf \in {0, 1}

\* The last command for the LEDs is the one saved, and when none is on its
\* way they show it, unless the driver is yet to be told of a reset.
PollShows(word) == Poll!Prefix(Poll!On(word)) => \A k \in Poll!On(word) : device.leds[k] = Poll!Shown(word, k)
PollLeds ==
    /\ driver = "send" => stored = arg
    /\ driver # "send" => LastIs(toDevice, PollSets, Poll!LedCommand(stored))
    /\ driver # "send" /\ NoneIn(toDevice, PollSets) /\ NoneIn(toHost, {ResetPacket}) => PollShows(stored)

\* No answer is on its way, or one whose first packet is at n, or was taken when n is 0.
NoAnswer == toHost \in Seq(Packets)
AnswerAt(n) ==
    /\ n \in 0 .. Len(toHost) - 1
    /\ n > 0 => toHost[n] = First
    /\ toHost[n + 1] = Second
    /\ \A k \in 1 .. Len(toHost) : k # n /\ k # n + 1 => toHost[k] \in Packets

\* The program waits for at most one answer, to the request it made.
PollAnswers ==
    /\ Once(toDevice, Request)
    /\ ~NoneIn(toDevice, {Request}) => driver = "ack" /\ readledconf = 0 /\ NoAnswer
    /\ NoAnswer \/ \E n \in Nat : AnswerAt(n) /\ driver = "ack" /\ readledconf = 0 /\ (n = 0 => readledval = Half)
    /\ readledconf = 1 => driver \in {"ack", "read", "conf"} /\ readledval = Whole
    /\ driver \in {"read", "conf"} => readledconf = 1
    /\ driver = "conf" => read = Whole

PollInv == PollTypes /\ PollLeds /\ PollAnswers

(* The commands of this driver are told apart by their op.                 *)
LEMMA PollKinds ==
    /\ BiocOn \notin PollSets /\ LedUsr \notin PollSets /\ Request \notin PollSets
    /\ BiocOn # Request /\ LedUsr # Request
    /\ \A c \in PollCommands : (c \in PollSets <=> c.op = "LED_SET") /\ (c = Request <=> c.op = "POLL_LEDS")
    /\ \A word \in PollWords : Poll!LedCommand(word) \in PollSets /\ Poll!LedCommand(word) \in PollCommands
                                   /\ Poll!LedCommand(word) # Request
    /\ BiocOn \in PollCommands /\ LedUsr \in PollCommands /\ Request \in PollCommands
<1>1. BiocOn.op = "BIOC_ON" /\ LedUsr.op = "LED_USR" /\ Request.op = "POLL_LEDS"
    BY DEF BiocOn, LedUsr, Request, Tux!Command
<1>2. \A c \in PollSets : c.op = "LED_SET"
    BY DEF PollSets, Poll!LedCommand, Poll!LedSet
<1>3. \A word \in PollWords : Poll!LedCommand(word) \in PollSets
    BY DEF PollSets
<1> QED
    BY <1>1, <1>2, <1>3 DEF PollCommands

(* The packets of an answer are no others.                                 *)
LEMMA AnswerKinds ==
    /\ First.kind = "POLL0" /\ Second.kind = "POLL1" /\ First \notin Packets /\ Second \notin Packets
    /\ First # ResetPacket /\ Second # ResetPacket /\ First # Second
    /\ \A p \in Packets : p.kind \notin {"POLL0", "POLL1"}
<1>1. First.kind = "POLL0" /\ Second.kind = "POLL1"
    BY DEF First, Second, Tux!Packet
<1>2. \A p \in Packets : p.kind \notin {"POLL0", "POLL1"}
    BY PacketKinds DEF Packets
<1> QED
    BY <1>1, <1>2, PacketKinds

(* The LEDs of a command's mask show its word.                             *)
LEMMA PollSetShows ==
    ASSUME NEW word, NEW leds, Poll!Prefix(Poll!On(word)), NEW k \in Poll!On(word)
    PROVE  Poll!Set(leds, Poll!LedCommand(word))[k] = Poll!Shown(word, k)
<1> DEFINE mask == Poll!On(word)
           bytes == Poll!LedBytes(word)
<1>0. \A S : Poll!Cardinality(S) = Cardinality(S)
    BY DEF Poll!Cardinality, Cardinality
<1>1. PICK n \in 0 .. 4 : mask = 0 .. n - 1
    BY DEF Poll!Prefix
<1>2. Poll!LedCommand(word) = Tux!LedSet(mask, bytes)
    BY DEF Poll!LedCommand, Poll!LedSet, Tux!LedSet
<1>3. \A c : Poll!Set(leds, c) = Tux!Set(leds, c)
    <2>1. \A j, m : Poll!Place(j, m) = Tux!Place(j, m)
        BY <1>0, TuxCardinality DEF Poll!Place, Tux!Place
    <2> QED
        BY <2>1 DEF Poll!Set, Tux!Set, Poll!LEDs, Tux!LEDs
<1>4. bytes = [j \in 1 .. Cardinality(mask) |-> IF j - 1 \in mask THEN Poll!Shown(word, j - 1) ELSE Poll!Junk]
    BY <1>0 DEF Poll!LedBytes
<1>a. k \in mask
    OBVIOUS
<1> HIDE DEF mask, bytes
<1>5. Tux!Set(leds, Tux!LedSet(mask, bytes))[k] = bytes[1 + k] /\ 1 + k \in 1 .. n /\ Cardinality(mask) = n
    <2>1. k \in 0 .. n - 1
        BY <1>1, <1>a
    <2>2. /\ Tux!Set(leds, Tux!LedSet(0 .. n - 1, bytes))[k] = bytes[1 + k]
          /\ 1 + k \in 1 .. n /\ Cardinality(0 .. n - 1) = n
        BY <2>1, SetShows, ZenonT(60)
    <2> QED
        BY <1>1, <2>2
<1>6. bytes[1 + k] = IF (1 + k) - 1 \in mask THEN Poll!Shown(word, (1 + k) - 1) ELSE Poll!Junk
    BY <1>4, <1>5
<1>7. (1 + k) - 1 = k
    BY <1>1, <1>a
<1> QED
    BY <1>2, <1>3, <1>5, <1>6, <1>7, <1>a

(* LEDs that show a time's word show the time.                             *)
LEMMA PollTime ==
    ASSUME NEW t \in Times, NEW leds
    PROVE  /\ Poll!On(Poll!TimeWord(t)) = Poll!LEDs /\ Poll!Prefix(Poll!LEDs)
           /\ (\A k \in Poll!LEDs : leds[k] = Poll!Shown(Poll!TimeWord(t), k)) => Poll!TimeOn(leds, t)
<1> DEFINE w == Poll!TimeWord(t)
<1>0. \A n \in Nat : (n - (n % 10)) \div 10 = n \div 10
    OBVIOUS
<1>a. t % 60 \in Nat /\ t \div 60 \in Nat
    BY TimesAssumption
<1>1. w = {16, 17, 18, 19, 26} \cup Tux!Nibble((t % 60) % 10, 0) \cup Tux!Nibble((t % 60) \div 10, 1)
                   \cup Tux!Nibble((t \div 60) % 10, 2) \cup Tux!Nibble((t \div 60) \div 10, 3)
    <2> DEFINE s == t % 60
               m == t \div 60
    <2>1. (s - (s % 10)) \div 10 = s \div 10 /\ (m - (m % 10)) \div 10 = m \div 10
        BY <1>0, <1>a
    <2>2. w = Poll!update_tux_timer(s, m)
        BY DEF Poll!TimeWord
    <2> HIDE DEF w, s, m
    <2>3. w = {16, 17, 18, 19, 26} \cup Tux!Nibble(s % 10, 0) \cup Tux!Nibble(s \div 10, 1) \cup Tux!Nibble(m % 10, 2) \cup Tux!Nibble(m \div 10, 3)
        BY <2>1, <2>2 DEF Poll!update_tux_timer, Poll!Nibble, Tux!Nibble
    <2> QED
        BY <2>3 DEF s, m
<1> HIDE DEF w
<1>2. Tux!On(w) = Tux!LEDs /\ ((\A k \in Tux!LEDs : leds[k] = Tux!Shown(w, k)) => Tux!TimeOn(leds, t))
    BY <1>1, TimeShows
<1>3. Poll!LEDs = Tux!LEDs /\ Poll!On(w) = Tux!On(w) /\ Tux!LEDs = 0 .. 4 - 1
    BY DEF Poll!LEDs, Tux!LEDs, Poll!On, Tux!On
<1>4. \A k : Poll!Shown(w, k) = Tux!Shown(w, k)
    BY DEF Poll!Shown, Poll!Digit, Poll!Point, Tux!Shown, Tux!Digit, Tux!Point
<1>5. Poll!TimeOn(leds, t) <=> Tux!TimeOn(leds, t)
    <2>1. \A k, n : Poll!Digit(Poll!Nibble(n, k), k) = Tux!Digit(Tux!Nibble(n, k), k)
        BY DEF Poll!Digit, Poll!Nibble, Tux!Digit, Tux!Nibble
    <2> QED
        BY <2>1 DEF Poll!TimeOn, Tux!TimeOn
<1> QED
    BY <1>2, <1>3, <1>4, <1>5 DEF Poll!Prefix, w

(* One packet more: an answer that is on its way stays where it is.        *)
LEMMA AnswerBehind ==
    ASSUME PollTypes, polled' = polled, NEW p \in Packets, toHost' = toHost \o <<p>>
    PROVE  /\ toHost' \in Seq(Packets \cup {First', Second'})
           /\ NoAnswer => NoAnswer'
           /\ \A n \in Nat : AnswerAt(n) => AnswerAt(n)'
           /\ \A P : NoneIn(toHost', P) <=> NoneIn(toHost, P) /\ p \notin P
<1>1. First' = First /\ Second' = Second
    BY DEF First, Second
<1>2. toHost \in Seq(Packets \cup {First, Second}) /\ p \in Packets \cup {First, Second}
    BY DEF PollTypes
<1>3. toHost' \in Seq(Packets \cup {First, Second}) /\ \A P : NoneIn(toHost', P) <=> NoneIn(toHost, P) /\ p \notin P
    BY <1>2, OneBehind
<1>4. NoAnswer => NoAnswer'
    BY OneBehind DEF NoAnswer
<1>5. Len(toHost) \in Nat /\ Len(toHost') = Len(toHost) + 1 /\ toHost'[Len(toHost) + 1] = p
      /\ \A k \in 1 .. Len(toHost) : toHost'[k] = toHost[k]
    BY <1>2
<1>6. ASSUME NEW n \in Nat, AnswerAt(n) PROVE AnswerAt(n)'
    <2> DEFINE m == Len(toHost)
    <2>1. /\ n \in 0 .. m - 1 /\ (n > 0 => toHost[n] = First) /\ toHost[n + 1] = Second
          /\ \A k \in 1 .. m : k # n /\ k # n + 1 => toHost[k] \in Packets
        BY <1>6 DEF AnswerAt
    <2>2. m \in Nat /\ Len(toHost') = m + 1 /\ toHost'[m + 1] = p /\ \A k \in 1 .. m : toHost'[k] = toHost[k]
        BY <1>5
    <2> HIDE DEF m
    <2>3. n \in 0 .. (m + 1) - 1
        BY <2>1, <2>2
    <2>4. n > 0 => toHost'[n] = First
        BY <2>1, <2>2
    <2>5. toHost'[n + 1] = Second
        BY <2>1, <2>2
    <2>6. ASSUME NEW k \in 1 .. m + 1, k # n, k # n + 1 PROVE toHost'[k] \in Packets
        <3>1. k = m + 1 \/ k \in 1 .. m
            BY <2>2
        <3> QED
            BY <2>1, <2>2, <2>6, <3>1
    <2> QED
        BY <1>1, <2>2, <2>3, <2>4, <2>5, <2>6 DEF AnswerAt
<1> QED
    BY <1>1, <1>3, <1>4, <1>6

(* And one that is taken.                                                  *)
LEMMA AnswerFirst ==
    ASSUME PollTypes, polled' = polled, toHost # << >>, toHost' = Tail(toHost)
    PROVE  /\ toHost' \in Seq(Packets \cup {First', Second'}) /\ Head(toHost) \in Packets \cup {First, Second}
           /\ \A P : NoneIn(toHost, P) <=> Head(toHost) \notin P /\ NoneIn(toHost', P)
           /\ NoAnswer => NoAnswer' /\ Head(toHost) \in Packets
           /\ \A n \in Nat : AnswerAt(n) =>
                  \/ n > 1 /\ Head(toHost) \in Packets /\ AnswerAt(n - 1)'
                  \/ n = 1 /\ Head(toHost) = First /\ AnswerAt(0)'
                  \/ n = 0 /\ Head(toHost) = Second /\ NoAnswer'
<1>1. First' = First /\ Second' = Second
    BY DEF First, Second
<1>2. toHost \in Seq(Packets \cup {First, Second})
    BY DEF PollTypes
<1>3. /\ toHost' \in Seq(Packets \cup {First, Second}) /\ Head(toHost) \in Packets \cup {First, Second}
      /\ \A P : NoneIn(toHost, P) <=> Head(toHost) \notin P /\ NoneIn(toHost', P)
    BY <1>2, FirstGone
<1>4. NoAnswer => NoAnswer' /\ Head(toHost) \in Packets
    BY FirstGone DEF NoAnswer
<1>5. Len(toHost) \in Nat \ {0} /\ Len(toHost') = Len(toHost) - 1 /\ Head(toHost) = toHost[1]
      /\ \A k \in 1 .. Len(toHost) - 1 : toHost'[k] = toHost[k + 1]
    BY <1>2
<1>6. ASSUME NEW n \in Nat, AnswerAt(n)
      PROVE  \/ n > 1 /\ Head(toHost) \in Packets /\ AnswerAt(n - 1)'
             \/ n = 1 /\ Head(toHost) = First /\ AnswerAt(0)'
             \/ n = 0 /\ Head(toHost) = Second /\ NoAnswer'
    <2> DEFINE m == Len(toHost)
    <2>1. /\ n \in 0 .. m - 1 /\ (n > 0 => toHost[n] = First) /\ toHost[n + 1] = Second
          /\ \A k \in 1 .. m : k # n /\ k # n + 1 => toHost[k] \in Packets
        BY <1>6 DEF AnswerAt
    <2>2. m \in Nat \ {0} /\ Len(toHost') = m - 1 /\ Head(toHost) = toHost[1] /\ \A k \in 1 .. m - 1 : toHost'[k] = toHost[k + 1]
        BY <1>5
    <2> HIDE DEF m
    <2>3. CASE n > 0
        <3>1. n - 1 \in 0 .. (m - 1) - 1 /\ n - 1 + 1 = n
            BY <2>1, <2>2, <2>3
        <3>2. n - 1 > 0 => toHost'[n - 1] = First
            <4>1. n - 1 > 0 => n - 1 \in 1 .. m - 1
                BY <2>1, <2>2, <3>1
            <4> QED
                BY <2>1, <2>2, <2>3, <3>1, <4>1
        <3>3. toHost'[n - 1 + 1] = Second
            <4>1. n \in 1 .. m - 1
                BY <2>1, <2>2, <2>3
            <4> QED
                BY <2>1, <2>2, <3>1, <4>1
        <3>4. ASSUME NEW k \in 1 .. m - 1, k # n - 1, k # n - 1 + 1 PROVE toHost'[k] \in Packets
            <4>1. k + 1 \in 1 .. m /\ k + 1 # n /\ k + 1 # n + 1
                BY <2>2, <3>4
            <4> QED
                BY <2>1, <2>2, <4>1
        <3>5. AnswerAt(n - 1)'
            BY <1>1, <2>2, <3>1, <3>2, <3>3, <3>4 DEF AnswerAt
        <3>6. CASE n = 1
            <4>1. Head(toHost) = First
                BY <2>1, <2>2, <3>6
            <4> QED
                BY <3>5, <3>6, <4>1
        <3>7. CASE n > 1
            <4>1. 1 \in 1 .. m /\ 1 # n /\ 1 # n + 1
                BY <2>2, <3>7
            <4> QED
                BY <2>1, <2>2, <3>5, <3>7, <4>1
        <3> QED
            BY <2>3, <3>6, <3>7
    <2>4. CASE n = 0
        <3>1. Head(toHost) = Second
            BY <2>1, <2>2, <2>4
        <3>2. ASSUME NEW k \in 1 .. m - 1 PROVE toHost'[k] \in Packets
            <4>1. k + 1 \in 1 .. m /\ k + 1 # n /\ k + 1 # n + 1
                BY <2>2, <2>4
            <4> QED
                BY <2>1, <2>2, <4>1
        <3>3. toHost' \in Seq(Packets)
            <4>1. toHost' \in [1 .. m - 1 -> Packets \cup {First', Second'}] /\ m - 1 \in Nat
                <5>1. toHost' \in [1 .. Len(toHost') -> Packets \cup {First', Second'}]
                    <6> DEFINE T == Packets \cup {First', Second'}
                    <6>1. toHost' \in Seq(T)
                        BY <1>1, <1>3
                    <6> HIDE DEF T
                    <6>2. toHost' \in [1 .. Len(toHost') -> T]
                        BY <6>1, LenProperties
                    <6> QED
                        BY <6>2 DEF T
                <5>2. Len(toHost') = m - 1 /\ m - 1 \in Nat
                    BY <2>2
                <5> QED
                    BY <5>1, <5>2
            <4>2. toHost' \in [1 .. m - 1 -> Packets]
                BY <3>2, <4>1
            <4> QED
                BY <4>1, <4>2, SeqDef
        <3> QED
            BY <2>4, <3>1, <3>3 DEF NoAnswer
    <2> QED
        BY <2>3, <2>4
<1> QED
    BY <1>1, <1>3, <1>4, <1>6

(* What the program waits for is not disturbed.                            *)
LEMMA AnswersKept ==
    ASSUME PollAnswers, polled' = polled, UNCHANGED <<driver, readledval, readledconf, read>>,
           Once(toDevice', Request), NoneIn(toDevice, {Request}) => NoneIn(toDevice', {Request}),
           NoAnswer => NoAnswer', \A n \in Nat : AnswerAt(n) => AnswerAt(n)'
    PROVE  PollAnswers'
<1>1. Half' = Half /\ Whole' = Whole
    BY DEF Half, Whole, Both
<1>2. Request' = Request
    BY DEF Request
<1>3. NoAnswer' \/ \E n \in Nat : AnswerAt(n)' /\ driver' = "ack" /\ readledconf' = 0 /\ (n = 0 => readledval' = Half')
    BY <1>1 DEF PollAnswers
<1> QED
    BY <1>1, <1>2, <1>3 DEF PollAnswers

(* Nothing is on the line, and nothing was asked for.                      *)
LEMMA PollInit == Poll!Init => PollInv
<1> SUFFICES ASSUME Poll!Init PROVE PollInv
    OBVIOUS
<1>1. /\ toDevice = << >> /\ toHost = << >> /\ pressed = {} /\ restarts = 0
      /\ stored = {} /\ driver = "idle" /\ arg = {} /\ readledconf = 0
    BY DEF Poll!Init, Poll!ControllerInit
<1>2. PollTypes
    <2>1. {} \in PollWords /\ << >> \in Seq(PollCommands) /\ << >> \in Seq(Packets \cup {First, Second})
        BY DEF PollWords
    <2> QED
        BY <1>1, <2>1 DEF PollTypes
<1>3. PollLeds
    <2>1. Poll!On({}) = {}
        BY DEF Poll!On
    <2> QED
        BY <1>1, <2>1, NothingIn DEF PollLeds, PollShows
<1>4. PollAnswers
    <2>1. << >> \in Seq(Packets) /\ Once(<< >>, Request) /\ NoneIn(<< >>, {Request})
        BY NothingIn DEF Once
    <2> QED
        BY <1>1, <2>1 DEF PollAnswers, NoAnswer
<1> QED
    BY <1>2, <1>3, <1>4 DEF PollInv

(* The controller obeys a command; a request becomes two packets.          *)
LEMMA PollObey ==
    ASSUME PollInv, Poll!Obey, polled' = IF Head(toDevice).op = "POLL_LEDS" THEN device.leds ELSE polled,
           UNCHANGED <<stored, driver, arg, readledval, readledconf, read>>
    PROVE  PollInv'
<1> DEFINE c == Head(toDevice)
<1>1. PollTypes /\ PollLeds /\ PollAnswers
    BY DEF PollInv
<1>2. /\ toDevice # << >> /\ toDevice' = Tail(toDevice)
      /\ device'.leds = IF c.op = "LED_SET" THEN Poll!Set(device.leds, c) ELSE device.leds
      /\ toHost' = toHost \o Poll!Answer(c)
      /\ pressed' = pressed /\ restarts' = restarts
    BY DEF Poll!Obey
<1>3. toDevice \in Seq(PollCommands) /\ toHost \in Seq(Packets \cup {First, Second}) /\ Once(toDevice, Request)
    BY <1>1 DEF PollTypes, PollAnswers
<1>4. /\ toDevice' \in Seq(PollCommands) /\ c \in PollCommands
      /\ \A P : NoneIn(toDevice, P) <=> c \notin P /\ NoneIn(toDevice', P)
      /\ \A P, x : LastIs(toDevice, P, x) => LastIs(toDevice', P, x)
      /\ \A P, x : LastIs(toDevice, P, x) /\ c \in P /\ NoneIn(toDevice', P) => c = x
    BY <1>2, <1>3, FirstGone
<1>5. Once(toDevice', Request) /\ (c = Request => NoneIn(toDevice', {Request}))
    BY <1>2, <1>3, OnceFirst
<1>6. polled' = IF c.op = "POLL_LEDS" THEN device.leds ELSE polled
    OBVIOUS
<1> HIDE DEF c
<1>7. (c \in PollSets <=> c.op = "LED_SET") /\ (c = Request <=> c.op = "POLL_LEDS") /\ Request \notin PollSets
    BY <1>4, PollKinds
<1>8. NoneIn(toHost', {ResetPacket}) => NoneIn(toHost, {ResetPacket})
    <2> SUFFICES ASSUME NoneIn(toHost', {ResetPacket}) PROVE NoneIn(toHost, {ResetPacket})
        OBVIOUS
    <2>1. PICK a, b, d : Poll!Answer(c) = IF c.op = "POLL_LEDS" THEN <<a, b>> ELSE <<d>>
        BY DEF Poll!Answer
    <2> DEFINE S == Packets \cup {First, Second, a, b, d}
    <2>2. a \in S /\ b \in S /\ d \in S /\ Packets \cup {First, Second} \subseteq S
        OBVIOUS
    <2> HIDE DEF S
    <2>3. Poll!Answer(c) \in Seq(S)
        BY <2>1, <2>2
    <2>4. toHost \in Seq(S)
        BY <1>3, <2>2, SeqMonotonic
    <2> QED
        BY <1>2, <2>3, <2>4, Behind
<1>9. PollLeds'
    <2>1. driver # "send" => LastIs(toDevice', PollSets, Poll!LedCommand(stored))
        BY <1>1, <1>4 DEF PollLeds
    <2>2. ASSUME driver # "send", NoneIn(toDevice', PollSets), NoneIn(toHost', {ResetPacket}) PROVE PollShows(stored)'
        <3>1. CASE c \in PollSets
            <4>1. c = Poll!LedCommand(stored)
                BY <1>1, <1>4, <2>2, <3>1 DEF PollLeds
            <4>2. device'.leds = Poll!Set(device.leds, Poll!LedCommand(stored))
                BY <1>2, <1>7, <3>1, <4>1
            <4> QED
                BY <1>2, <4>2, PollSetShows DEF PollShows
        <3>2. CASE c \notin PollSets
            <4>1. device'.leds = device.leds
                BY <1>2, <1>7, <3>2
            <4>2. PollShows(stored)
                BY <1>1, <1>4, <1>8, <2>2, <3>2 DEF PollLeds
            <4> QED
                BY <1>2, <4>1, <4>2 DEF PollShows
        <3> QED
            BY <3>1, <3>2
    <2> QED
        BY <1>1, <1>2, <2>1, <2>2 DEF PollLeds, PollSets, PollWords
<1>10. CASE c = Request
    <2>1. driver = "ack" /\ readledconf = 0 /\ NoAnswer
        <3>1. ~NoneIn(toDevice, {Request})
            BY <1>4, <1>10
        <3> QED
            BY <1>1, <3>1 DEF PollAnswers
    <2>2. polled' = device.leds
        BY <1>6, <1>7, <1>10
    <2>3. toHost' = toHost \o <<First', Second'>>
        BY <1>2, <1>7, <1>10, <2>2 DEF Poll!Answer, Poll!Packet, Tux!Packet, First, Second
    <2>4. toHost \in Seq(Packets)
        BY <2>1 DEF NoAnswer
    <2>a. PICK m \in Nat : m = Len(toHost)
        BY <2>4
    <2>5. /\ m \in Nat /\ toHost' \in Seq(Packets \cup {First', Second'}) /\ Len(toHost') = m + 2
          /\ toHost'[m + 1] = First' /\ toHost'[m + 2] = Second' /\ \A k \in 1 .. m : toHost'[k] = toHost[k] /\ toHost[k] \in Packets
        <3>1. PICK a, b : a = First' /\ b = Second'
            OBVIOUS
        <3>2. toHost' = toHost \o <<a, b>>
            BY <2>3, <3>1
        <3>3. toHost \in Seq(Packets \cup {a, b}) /\ <<a, b>> \in Seq(Packets \cup {a, b})
            BY <2>4
        <3>4. toHost \o <<a, b>> \in Seq(Packets \cup {a, b})
            BY <3>3
        <3>5. Len(toHost \o <<a, b>>) = m + 2 /\ (toHost \o <<a, b>>)[m + 1] = a /\ (toHost \o <<a, b>>)[m + 2] = b
              /\ \A k \in 1 .. m : (toHost \o <<a, b>>)[k] = toHost[k]
            BY <2>a, <3>3
        <3>6. m \in Nat /\ \A k \in 1 .. m : toHost[k] \in Packets
            BY <2>4, <2>a, ElementOfSeq
        <3> QED
            BY <3>1, <3>2, <3>4, <3>5, <3>6
    <2>6. AnswerAt(m + 1)'
        <3>1. m + 1 \in 0 .. Len(toHost') - 1 /\ (m + 1) + 1 = m + 2
            BY <2>5
        <3>2. ASSUME NEW k \in 1 .. Len(toHost'), k # m + 1, k # (m + 1) + 1 PROVE toHost'[k] \in Packets
            <4>1. k \in 1 .. m
                BY <2>5, <3>2
            <4> QED
                BY <2>5, <4>1
        <3> QED
            BY <2>5, <3>1, <3>2 DEF AnswerAt
    <2>7. PollTypes'
        BY <1>1, <1>2, <1>4, <2>5 DEF PollTypes
    <2>8. PollAnswers'
        <3>1. m + 1 \in Nat /\ m + 1 # 0
            BY <2>5
        <3>2. \E n \in Nat : AnswerAt(n)' /\ driver' = "ack" /\ readledconf' = 0 /\ (n = 0 => readledval' = Half')
            BY <2>1, <2>6, <3>1
        <3> QED
            BY <1>5, <1>10, <2>1, <3>2 DEF PollAnswers, Request
    <2> QED
        BY <1>9, <2>7, <2>8 DEF PollInv
<1>11. CASE c # Request
    <2>1. polled' = polled /\ toHost' = toHost \o <<Tux!Ack>>
        BY <1>2, <1>6, <1>7, <1>11 DEF Poll!Answer, Poll!Ack, Tux!Ack, Poll!Packet, Tux!Packet
    <2>2. Tux!Ack \in Packets
        BY DEF Packets
    <2>3. /\ toHost' \in Seq(Packets \cup {First', Second'})
          /\ NoAnswer => NoAnswer'
          /\ \A n \in Nat : AnswerAt(n) => AnswerAt(n)'
        BY <1>1, <2>1, <2>2, AnswerBehind
    <2>4. PollTypes'
        BY <1>1, <1>2, <1>4, <2>3 DEF PollTypes
    <2>5. PollAnswers'
        BY <1>1, <1>4, <1>5, <2>1, <2>3, AnswersKept
    <2> QED
        BY <1>9, <2>4, <2>5 DEF PollInv
<1> QED
    BY <1>10, <1>11

(* A reset may lose the request, but no half of an answer.                 *)
LEMMA PollReset ==
    ASSUME PollInv, Poll!PressReset, polled' = polled, UNCHANGED <<stored, driver, arg, readledval, readledconf, read>>
    PROVE  PollInv'
<1>1. PollTypes /\ PollLeds /\ PollAnswers
    BY DEF PollInv
<1>2. toDevice \in Seq(PollCommands) /\ toHost \in Seq(Packets \cup {First, Second}) /\ Once(toDevice, Request) /\ restarts \in Nat
    BY <1>1 DEF PollTypes, PollAnswers
<1>3. PICK k \in 0 .. Len(toDevice) : toDevice' = SubSeq(toDevice, k + 1, Len(toDevice))
    BY DEF Poll!PressReset
<1>4. /\ restarts' = restarts + 1 /\ pressed' = pressed
      /\ stored' = stored /\ driver' = driver /\ arg' = arg
      /\ toHost' = Append(toHost, Poll!Packet("RESET", {}))
    BY DEF Poll!PressReset
<1>5. ResetPacket \in Packets /\ toHost' = toHost \o <<ResetPacket>>
    <2>1. ResetPacket \in Packets
        BY DEF Packets
    <2>2. Append(toHost, ResetPacket) = toHost \o <<ResetPacket>>
        BY <1>2, <2>1, AppendIsConcat
    <2> QED
        BY <1>4, <2>1, <2>2 DEF ResetPacket, Poll!Packet, Tux!Packet
<1>6. /\ toDevice' \in Seq(PollCommands)
      /\ \A P : NoneIn(toDevice, P) => NoneIn(toDevice', P)
      /\ \A P, x : LastIs(toDevice, P, x) => LastIs(toDevice', P, x)
      /\ Once(toDevice', Request)
    BY <1>2, <1>3, Gone, OnceGone
<1>7. /\ toHost' \in Seq(Packets \cup {First', Second'})
      /\ NoAnswer => NoAnswer'
      /\ \A n \in Nat : AnswerAt(n) => AnswerAt(n)'
      /\ ~NoneIn(toHost', {ResetPacket})
    BY <1>1, <1>5, AnswerBehind
<1>8. PollTypes'
    BY <1>1, <1>2, <1>4, <1>6, <1>7 DEF PollTypes
<1>9. PollLeds'
    BY <1>1, <1>4, <1>6, <1>7 DEF PollLeds, PollSets, PollWords, ResetPacket
<1>10. PollAnswers'
    BY <1>1, <1>4, <1>6, <1>7, AnswersKept
<1> QED
    BY <1>8, <1>9, <1>10 DEF PollInv

(* An event comes behind the answer or before it, never between its halves.*)
LEMMA PollPress ==
    ASSUME PollInv, Poll!PressButtons, polled' = polled, UNCHANGED <<stored, driver, arg, readledval, readledconf, read>>
    PROVE  PollInv'
<1>1. PollTypes /\ PollLeds /\ PollAnswers
    BY DEF PollInv
<1>2. /\ toDevice' = toDevice /\ device' = device /\ restarts' = restarts
      /\ stored' = stored /\ driver' = driver /\ arg' = arg
    BY DEF Poll!PressButtons
<1>3. pressed' \subseteq Tux!Buttons
    BY <1>1 DEF PollTypes, Poll!PressButtons, Poll!Buttons, Tux!Buttons
<1>4. toHost \in Seq(Packets \cup {First, Second}) /\ First' = First /\ Second' = Second
    BY <1>1 DEF PollTypes, First, Second
<1>5. /\ toHost' \in Seq(Packets \cup {First', Second'})
      /\ NoAnswer => NoAnswer'
      /\ \A n \in Nat : AnswerAt(n) => AnswerAt(n)'
      /\ NoneIn(toHost', {ResetPacket}) => NoneIn(toHost, {ResetPacket})
    <2>1. CASE device.bioc
        <3>1. toHost' = Append(toHost, Poll!Event(pressed'))
            BY <2>1 DEF Poll!PressButtons
        <3> DEFINE e == Tux!Event(pressed')
        <3>2. e \in Packets
            BY <1>3, PacketKinds DEF Packets
        <3>3. Poll!Event(pressed') = e
            BY DEF Poll!Event, Tux!Event, Poll!Packet, Tux!Packet, Poll!Bit, Tux!Bit, Poll!Buttons, Tux!Buttons
        <3> HIDE DEF e
        <3>4. toHost' = toHost \o <<e>>
            <4>1. e \in Packets \cup {First, Second}
                BY <3>2
            <4>2. Append(toHost, e) = toHost \o <<e>>
                BY <1>4, <4>1, AppendIsConcat
            <4> QED
                BY <3>1, <3>3, <4>2
        <3> QED
            BY <1>1, <3>2, <3>4, AnswerBehind
    <2>2. CASE ~device.bioc
        <3>1. toHost' = toHost
            BY <2>2 DEF Poll!PressButtons
        <3> QED
            BY <1>4, <3>1 DEF NoAnswer, AnswerAt
    <2> QED
        BY <2>1, <2>2
<1>6. PollTypes'
    BY <1>1, <1>2, <1>3, <1>5 DEF PollTypes
<1>7. PollLeds'
    BY <1>1, <1>2, <1>5 DEF PollLeds, PollShows, PollSets, PollWords, ResetPacket
<1>8. PollAnswers'
    <2>1. Once(toDevice', Request)
        BY <1>1, <1>2 DEF PollAnswers
    <2> QED
        BY <1>1, <1>2, <1>5, <2>1, AnswersKept
<1> QED
    BY <1>6, <1>7, <1>8 DEF PollInv

(* A call puts one command.                                                *)
LEMMA PollCalls ==
    ASSUME PollInv, Poll!tuxinit \/ Poll!led_request \/ \E word \in Words \cup {Poll!TimeWord(t) : t \in Times} : Poll!set_led(word)
    PROVE  PollInv'
<1>1. PollTypes /\ PollLeds /\ PollAnswers
    BY DEF PollInv
<1>2. /\ toHost' = toHost /\ device' = device /\ restarts' = restarts /\ pressed' = pressed /\ polled' = polled
      /\ stored' = stored /\ readledval' = readledval /\ readledconf' = readledconf /\ read' = read /\ driver = "idle"
    BY DEF Poll!tuxinit, Poll!led_request, Poll!set_led, Poll!Begin, Poll!outside, Poll!driver
<1>3. First' = First /\ Second' = Second /\ Half' = Half /\ Whole' = Whole /\ (NoAnswer => NoAnswer')
    BY <1>2 DEF First, Second, Half, Whole, Both, NoAnswer
<1>4. toDevice \in Seq(PollCommands) /\ NoAnswer /\ readledconf = 0 /\ NoneIn(toDevice, {Request})
    BY <1>1, <1>2 DEF PollTypes, PollAnswers
<1>5. /\ driver' \in {"idle", "set", "ack"} /\ arg' \in PollWords
      /\ \E c \in {BiocOn, LedUsr, Request} : toDevice' = toDevice \o <<c>> /\ (c = Request <=> driver' = "ack")
    <2>1. CASE Poll!tuxinit
        <3>1. toDevice' = toDevice \o <<BiocOn>> /\ driver' = "idle" /\ arg' = arg
            BY <1>2, <2>1 DEF Poll!tuxinit, Poll!Sent, BiocOn, Poll!Command, Tux!Command
        <3> QED
            BY <1>1, <3>1, PollKinds DEF PollTypes
    <2>2. CASE Poll!led_request
        <3>1. toDevice' = toDevice \o <<Request>> /\ driver' = "ack" /\ arg' = arg
            BY <2>2 DEF Poll!led_request, Poll!Begin, Poll!Sent, Request, Poll!Command, Tux!Command
        <3> QED
            BY <1>1, <3>1 DEF PollTypes
    <2>3. CASE \E word \in Words \cup {Poll!TimeWord(t) : t \in Times} : Poll!set_led(word)
        <3>1. toDevice' = toDevice \o <<LedUsr>> /\ driver' = "set" /\ arg' \in PollWords
            BY <2>3 DEF Poll!set_led, Poll!Begin, Poll!Sent, LedUsr, Poll!Command, Tux!Command, PollWords
        <3> QED
            BY <3>1, PollKinds
    <2> QED
        BY <2>1, <2>2, <2>3
<1>6. PICK c \in {BiocOn, LedUsr, Request} : toDevice' = toDevice \o <<c>> /\ (c = Request <=> driver' = "ack")
    BY <1>5
<1>7. c \in PollCommands /\ c \notin PollSets
    BY PollKinds
<1>8. /\ toDevice' \in Seq(PollCommands)
      /\ \A P : NoneIn(toDevice', P) <=> NoneIn(toDevice, P) /\ c \notin P
      /\ \A P, x : LastIs(toDevice, P, x) /\ c \notin P => LastIs(toDevice', P, x)
      /\ Once(toDevice', Request)
    BY <1>4, <1>6, <1>7, OneBehind, OnceBehind
<1>9. PollTypes'
    BY <1>1, <1>2, <1>3, <1>5, <1>8 DEF PollTypes
<1>10. PollLeds'
    BY <1>1, <1>2, <1>5, <1>7, <1>8 DEF PollLeds, PollShows, PollSets, PollWords, ResetPacket
<1>11. PollAnswers'
    <2>1. ~NoneIn(toDevice', {Request}) => driver' = "ack" /\ readledconf' = 0 /\ NoAnswer'
        BY <1>2, <1>3, <1>4, <1>6, <1>8
    <2> QED
        BY <1>2, <1>3, <1>4, <1>5, <1>8, <2>1 DEF PollAnswers, Request
<1> QED
    BY <1>9, <1>10, <1>11 DEF PollInv

(* The steps of TUX_SET_LED and of reading the LEDs.                       *)
LEMMA PollProgram == ASSUME PollInv, Poll!ProgramSteps PROVE PollInv'
<1>1. PollTypes /\ PollLeds /\ PollAnswers
    BY DEF PollInv
<1>2. /\ toHost' = toHost /\ device' = device /\ restarts' = restarts /\ pressed' = pressed /\ polled' = polled /\ arg' = arg
    BY DEF Poll!ProgramSteps, Poll!SaveLeds, Poll!SendLeds, Poll!LedAck, Poll!CopyOut, Poll!ClearConf, Poll!ClearVal,
           Poll!controller, Poll!outside
<1>3. First' = First /\ Second' = Second /\ Half' = Half /\ Whole' = Whole /\ (NoAnswer => NoAnswer') /\ Request' = Request
    BY <1>2 DEF First, Second, Half, Whole, Both, NoAnswer, Request
<1>4. toDevice \in Seq(PollCommands) /\ readledconf \in {0, 1}
    BY <1>1 DEF PollTypes
\* Unless it waits, no request and no answer is on its way.
<1>5. driver # "ack" \/ readledconf = 1 => NoAnswer /\ NoneIn(toDevice, {Request})
    BY <1>1 DEF PollAnswers
<1>6. CASE Poll!SaveLeds
    <2>1. /\ driver = "set" /\ driver' = "send" /\ stored' = arg /\ toDevice' = toDevice
          /\ readledval' = readledval /\ readledconf' = readledconf /\ read' = read
        BY <1>6 DEF Poll!SaveLeds, Poll!controller
    <2>2. PollTypes' /\ PollLeds'
        BY <1>1, <1>2, <1>3, <2>1 DEF PollTypes, PollLeds
    <2>3. PollAnswers'
        BY <1>1, <1>3, <1>5, <2>1 DEF PollAnswers
    <2> QED
        BY <2>2, <2>3 DEF PollInv
<1>7. CASE Poll!SendLeds
    <2> DEFINE c == Poll!LedCommand(arg)
    <2>1. /\ driver = "send" /\ driver' = "idle" /\ stored' = stored /\ toDevice' = toDevice \o <<c>>
          /\ readledval' = readledval /\ readledconf' = readledconf /\ read' = read
        BY <1>7 DEF Poll!SendLeds, Poll!Sent, Poll!driver
    <2>2. c \in PollSets /\ c \in PollCommands /\ c # Request /\ c = Poll!LedCommand(stored)
        BY <1>1, <2>1, PollKinds DEF PollTypes, PollLeds
    <2> HIDE DEF c
    <2>3. /\ toDevice' \in Seq(PollCommands)
          /\ \A P : NoneIn(toDevice', P) <=> NoneIn(toDevice, P) /\ c \notin P
          /\ \A P : c \in P => LastIs(toDevice', P, c)
          /\ Once(toDevice', Request)
        BY <1>1, <1>4, <2>1, <2>2, OneBehind, OnceBehind DEF PollAnswers
    <2>4. PollTypes'
        BY <1>1, <1>2, <1>3, <2>1, <2>3 DEF PollTypes
    <2>5. PollLeds'
        BY <2>1, <2>2, <2>3 DEF PollLeds, PollSets, PollWords
    <2>6. PollAnswers'
        BY <1>1, <1>3, <1>5, <2>1, <2>2, <2>3 DEF PollAnswers
    <2> QED
        BY <2>4, <2>5, <2>6 DEF PollInv
<1>8. CASE Poll!LedAck
    <2>1. /\ driver = "ack" /\ readledconf = 1 /\ driver' = "read" /\ toDevice' = toDevice /\ stored' = stored
          /\ readledval' = readledval /\ readledconf' = readledconf /\ read' = read
        BY <1>8 DEF Poll!LedAck, Poll!Acked, Poll!controller, Poll!driver
    <2>2. PollTypes' /\ PollLeds'
        BY <1>1, <1>2, <1>3, <2>1 DEF PollTypes, PollLeds, PollShows, PollSets, PollWords, ResetPacket
    <2>3. PollAnswers'
        BY <1>1, <1>3, <1>5, <2>1 DEF PollAnswers
    <2> QED
        BY <2>2, <2>3 DEF PollInv
<1>9. CASE Poll!CopyOut
    <2>1. /\ driver = "read" /\ driver' = "conf" /\ toDevice' = toDevice /\ stored' = stored
          /\ readledval' = readledval /\ readledconf' = readledconf /\ read' = readledval
        BY <1>9 DEF Poll!CopyOut, Poll!controller, Poll!driver
    <2>2. PollTypes' /\ PollLeds'
        BY <1>1, <1>2, <1>3, <2>1 DEF PollTypes, PollLeds, PollShows, PollSets, PollWords, ResetPacket
    <2>3. PollAnswers'
        BY <1>1, <1>3, <1>5, <2>1 DEF PollAnswers
    <2> QED
        BY <2>2, <2>3 DEF PollInv
<1>10. CASE Poll!ClearConf \/ Poll!ClearVal
    <2>1. /\ driver \in {"conf", "val"} /\ driver' \in {"val", "idle"} /\ toDevice' = toDevice /\ stored' = stored /\ readledconf' = 0
        <3>1. driver = "val" => readledconf = 0
            BY <1>1, <1>4 DEF PollAnswers
        <3> QED
            BY <1>10, <3>1 DEF Poll!ClearConf, Poll!ClearVal, Poll!controller
    <2>2. PollTypes' /\ PollLeds'
        BY <1>1, <1>2, <1>3, <2>1 DEF PollTypes, PollLeds, PollShows, PollSets, PollWords, ResetPacket
    <2>3. PollAnswers'
        BY <1>1, <1>3, <1>5, <2>1 DEF PollAnswers
    <2> QED
        BY <2>2, <2>3 DEF PollInv
<1> QED
    BY <1>6, <1>7, <1>8, <1>9, <1>10 DEF Poll!ProgramSteps

(* The interrupt takes a packet: the first half of an answer begins the    *)
(* word, the second completes it.                                          *)
LEMMA PollHandle == ASSUME PollInv, Poll!Handle PROVE PollInv'
<1> DEFINE p == Head(toHost)
<1>1. PollTypes /\ PollLeds /\ PollAnswers
    BY DEF PollInv
<1>2. /\ toHost # << >> /\ toHost' = Tail(toHost)
      /\ device' = device /\ restarts' = restarts /\ pressed' = pressed /\ polled' = polled
      /\ stored' = stored /\ driver' = driver /\ arg' = arg /\ read' = read
    BY DEF Poll!Handle, Poll!HandleAck, Poll!HandleEvent, Poll!HandleReset, Poll!HandlePoll0, Poll!HandlePoll1, Poll!Received,
           Poll!outside, Poll!program, Poll!driver
<1>3. First' = First /\ Second' = Second /\ Half' = Half /\ Whole' = Whole /\ Request' = Request
    BY <1>2 DEF First, Second, Half, Whole, Both, Request
<1>4. /\ toHost' \in Seq(Packets \cup {First', Second'}) /\ p \in Packets \cup {First, Second}
      /\ \A P : NoneIn(toHost, P) <=> p \notin P /\ NoneIn(toHost', P)
      /\ NoAnswer => NoAnswer' /\ p \in Packets
      /\ \A n \in Nat : AnswerAt(n) =>
             \/ n > 1 /\ p \in Packets /\ AnswerAt(n - 1)'
             \/ n = 1 /\ p = First /\ AnswerAt(0)'
             \/ n = 0 /\ p = Second /\ NoAnswer'
    BY <1>1, <1>2, AnswerFirst
<1>5. toDevice \in Seq(PollCommands) /\ readledconf \in {0, 1} /\ Once(toDevice, Request)
    BY <1>1 DEF PollTypes, PollAnswers
<1> HIDE DEF p
\* A packet that is none of an answer.
<1>6. ASSUME p \in Packets, readledval' = readledval, readledconf' = readledconf,
             Once(toDevice', Request), NoneIn(toDevice, {Request}) => NoneIn(toDevice', {Request})
      PROVE  PollAnswers'
    <2>1. NoAnswer' \/ \E n \in Nat : AnswerAt(n)' /\ driver' = "ack" /\ readledconf' = 0 /\ (n = 0 => readledval' = Half')
        <3>1. CASE NoAnswer
            BY <1>4, <3>1
        <3>2. CASE ~NoAnswer
            <4>1. PICK n \in Nat : AnswerAt(n) /\ driver = "ack" /\ readledconf = 0
                BY <1>1, <3>2 DEF PollAnswers
            <4>2. n > 1 /\ AnswerAt(n - 1)'
                BY <1>4, <1>6, <4>1, AnswerKinds
            <4>3. n - 1 \in Nat /\ n - 1 # 0
                BY <4>2
            <4> QED
                BY <1>2, <1>6, <4>1, <4>2, <4>3
        <3> QED
            BY <3>1, <3>2
    <2>2. ~NoneIn(toDevice', {Request}) => driver' = "ack" /\ readledconf' = 0 /\ NoAnswer'
        BY <1>1, <1>2, <1>4, <1>6 DEF PollAnswers
    <2> QED
        BY <1>1, <1>2, <1>3, <1>6, <2>1, <2>2 DEF PollAnswers
<1>7. CASE Poll!HandleAck \/ Poll!HandleEvent
    <2>1. p.kind \in {"ACK", "BIOC_EVENT"} /\ readledval' = readledval /\ readledconf' = readledconf /\ toDevice' = toDevice
        BY <1>7 DEF Poll!HandleAck, Poll!HandleEvent, Poll!Received, Poll!driver, p
    <2>2. p \in Packets /\ p # ResetPacket
        BY <1>4, <2>1, AnswerKinds, PacketKinds
    <2>3. PollTypes'
        BY <1>1, <1>2, <1>4, <2>1 DEF PollTypes
    <2>4. PollLeds'
        BY <1>1, <1>2, <1>4, <2>1, <2>2 DEF PollLeds, PollShows, PollSets, PollWords, ResetPacket
    <2>5. PollAnswers'
        BY <1>5, <1>6, <2>1, <2>2
    <2> QED
        BY <2>3, <2>4, <2>5 DEF PollInv
<1>8. CASE Poll!HandleReset
    <2> DEFINE c == Poll!LedCommand(stored)
    <2>1. p.kind = "RESET" /\ readledval' = readledval /\ readledconf' = readledconf /\ toDevice' = toDevice \o Poll!Again
        BY <1>8 DEF Poll!HandleReset, Poll!Received, Poll!Sent, Poll!driver, p
    <2>2. p \in Packets
        BY <1>4, <2>1, AnswerKinds
    <2>3. Poll!Again = <<BiocOn, LedUsr, c>>
        BY DEF Poll!Again, BiocOn, LedUsr, Poll!Command, Tux!Command
    <2>4. BiocOn \in PollCommands /\ LedUsr \in PollCommands /\ c \in PollCommands /\ c \in PollSets /\ c # Request
          /\ BiocOn # Request /\ LedUsr # Request
        BY <1>1, PollKinds DEF PollTypes
    <2> HIDE DEF c
    <2>5. /\ <<BiocOn, LedUsr, c>> \in Seq(PollCommands)
          /\ \A P : NoneIn(<<BiocOn, LedUsr, c>>, P) <=> BiocOn \notin P /\ LedUsr \notin P /\ c \notin P
          /\ \A P : c \in P => LastIs(<<BiocOn, LedUsr, c>>, P, c)
        BY <2>4, Few
    <2>6. /\ toDevice' \in Seq(PollCommands)
          /\ \A P : NoneIn(toDevice', P) <=> NoneIn(toDevice, P) /\ BiocOn \notin P /\ LedUsr \notin P /\ c \notin P
          /\ LastIs(toDevice', PollSets, c)
        BY <1>5, <2>1, <2>3, <2>4, <2>5, Behind
    <2>7. Once(toDevice', Request)
        <3>1. /\ toDevice \o <<BiocOn>> \in Seq(PollCommands) /\ Once(toDevice \o <<BiocOn>>, Request)
            BY <1>5, <2>4, OneBehind, OnceBehind
        <3>2. /\ (toDevice \o <<BiocOn>>) \o <<LedUsr>> \in Seq(PollCommands)
              /\ Once((toDevice \o <<BiocOn>>) \o <<LedUsr>>, Request)
            BY <2>4, <3>1, OneBehind, OnceBehind
        <3>3. Once(((toDevice \o <<BiocOn>>) \o <<LedUsr>>) \o <<c>>, Request)
            BY <2>4, <3>2, OnceBehind, ZenonT(60)
        <3>4. toDevice' = ((toDevice \o <<BiocOn>>) \o <<LedUsr>>) \o <<c>>
            <4>1. <<BiocOn, LedUsr, c>> = (<<BiocOn>> \o <<LedUsr>>) \o <<c>>
                OBVIOUS
            <4>2. <<BiocOn>> \in Seq(PollCommands) /\ <<LedUsr>> \in Seq(PollCommands) /\ <<c>> \in Seq(PollCommands)
                  /\ <<BiocOn>> \o <<LedUsr>> \in Seq(PollCommands)
                BY <2>4
            <4>3. toDevice \o ((<<BiocOn>> \o <<LedUsr>>) \o <<c>>) = (toDevice \o (<<BiocOn>> \o <<LedUsr>>)) \o <<c>>
                BY <1>5, <4>2, ConcatAssociative
            <4>4. toDevice \o (<<BiocOn>> \o <<LedUsr>>) = (toDevice \o <<BiocOn>>) \o <<LedUsr>>
                BY <1>5, <4>2, ConcatAssociative
            <4> QED
                BY <2>1, <2>3, <4>1, <4>3, <4>4
        <3> QED
            BY <3>3, <3>4
    <2>8. PollTypes'
        BY <1>1, <1>2, <1>4, <2>1, <2>6 DEF PollTypes
    <2>9. PollLeds'
        <3>1. ~NoneIn(toDevice', PollSets)
            BY <2>4, <2>6
        <3> QED
            BY <1>1, <1>2, <2>6, <3>1 DEF PollLeds, PollSets, PollWords, c
    <2>10. NoneIn(toDevice, {Request}) => NoneIn(toDevice', {Request})
        BY <2>4, <2>6
    <2>11. PollAnswers'
        BY <1>6, <2>1, <2>2, <2>7, <2>10
    <2> QED
        BY <2>8, <2>9, <2>11 DEF PollInv
<1>9. CASE Poll!HandlePoll0 \/ Poll!HandlePoll1
    <2>1. p.kind \in {"POLL0", "POLL1"} /\ toDevice' = toDevice
        BY <1>9 DEF Poll!HandlePoll0, Poll!HandlePoll1, Poll!Received, p
    <2>2. p \notin Packets /\ p # ResetPacket
        BY <1>4, <2>1, AnswerKinds, PacketKinds DEF Packets
    <2>3. PICK n \in Nat : AnswerAt(n) /\ driver = "ack" /\ readledconf = 0 /\ (n = 0 => readledval = Half)
        BY <1>1, <1>4, <2>2 DEF PollAnswers
    <2>4. NoneIn(toDevice, {Request})
        BY <1>1, <1>4, <2>2 DEF PollAnswers
    <2>5. PollLeds'
        BY <1>1, <1>2, <1>4, <2>1, <2>2 DEF PollLeds, PollShows, PollSets, PollWords, ResetPacket
    <2>6. CASE Poll!HandlePoll0
        <3>1. p.kind = "POLL0" /\ readledconf' = readledconf /\ readledval' = Poll!Decoded(p.data[1], 0) \cup Poll!Decoded(p.data[2], 1)
            BY <2>6 DEF Poll!HandlePoll0, Poll!Received, p
        <3>2. p = First /\ AnswerAt(0)'
            BY <1>4, <2>2, <2>3, <3>1, AnswerKinds
        <3>3. p.data[1] = polled[0] /\ p.data[2] = polled[1]
            BY <3>2 DEF First, Tux!Packet
        <3>4. readledval' = Half'
            BY <1>3, <3>1, <3>3 DEF Half
        <3>5. PollTypes'
            BY <1>1, <1>2, <1>4, <2>1, <3>1 DEF PollTypes
        <3>6. PollAnswers'
            BY <1>1, <1>2, <1>3, <1>5, <2>1, <2>3, <2>4, <3>1, <3>2, <3>4 DEF PollAnswers
        <3> QED
            BY <2>5, <3>5, <3>6 DEF PollInv
    <2>7. CASE Poll!HandlePoll1
        <3> DEFINE word == readledval \cup Poll!Decoded(p.data[1], 2) \cup Poll!Decoded(p.data[2], 3)
        <3>1. p.kind = "POLL1" /\ readledconf' = 1 /\ readledval' = word \cup Poll!Lit(word)
            BY <2>7 DEF Poll!HandlePoll1, Poll!Received, Poll!Confirmed, p
        <3>2. n = 0 /\ p = Second /\ NoAnswer'
            BY <1>4, <2>2, <2>3, <3>1, AnswerKinds
        <3>3. p.data[1] = polled[2] /\ p.data[2] = polled[3]
            BY <3>2 DEF Second, Tux!Packet
        <3>4. word = Both
            BY <2>3, <3>2, <3>3 DEF Both
        <3> HIDE DEF word
        <3>5. readledval' = Whole'
            BY <1>3, <3>1, <3>4 DEF Whole
        <3>6. PollTypes'
            BY <1>1, <1>2, <1>4, <2>1, <3>1 DEF PollTypes
        <3>7. PollAnswers'
            BY <1>1, <1>2, <1>3, <1>5, <2>1, <2>3, <2>4, <3>1, <3>2, <3>5 DEF PollAnswers
        <3> QED
            BY <2>5, <3>6, <3>7 DEF PollInv
    <2> QED
        BY <1>9, <2>6, <2>7
<1> QED
    BY <1>7, <1>8, <1>9 DEF Poll!Handle

(* The invariant is inductive.                                             *)
LEMMA PollStep == PollInv /\ Poll!Next => PollInv'
<1> SUFFICES ASSUME PollInv, Poll!Next PROVE PollInv'
    OBVIOUS
<1>1. CASE Poll!Device
    <2>1. /\ UNCHANGED <<stored, driver, arg, readledval, readledconf, read>>
          /\ polled' = IF toDevice # << >> /\ toDevice' = Tail(toDevice) /\ Head(toDevice).op = "POLL_LEDS" /\ restarts' = restarts
                       THEN device.leds ELSE polled
          /\ Poll!DeviceSteps
        BY <1>1 DEF Poll!Device, Poll!driver, Poll!program
    <2>2. CASE Poll!Obey
        <3>1. toDevice # << >> /\ toDevice' = Tail(toDevice) /\ restarts' = restarts
            BY <2>2 DEF Poll!Obey
        <3> QED
            BY <2>1, <2>2, <3>1, PollObey
    <2>3. CASE Poll!PressReset
        <3>1. restarts \in Nat
            BY DEF PollInv, PollTypes
        <3>2. restarts' = restarts + 1
            BY <2>3 DEF Poll!PressReset
        <3>3. restarts' # restarts
            BY <3>1, <3>2
        <3> QED
            BY <2>1, <2>3, <3>3, PollReset
    <2>4. CASE Poll!PressButtons
        <3>1. toDevice' = toDevice /\ toDevice \in Seq(PollCommands)
            BY <2>4 DEF Poll!PressButtons, PollInv, PollTypes
        <3>2. toDevice # << >> => Len(Tail(toDevice)) = Len(toDevice) - 1 /\ Len(toDevice) \in Nat
            BY <3>1
        <3>3. toDevice # << >> => toDevice' # Tail(toDevice)
            BY <3>1, <3>2
        <3> QED
            BY <2>1, <2>4, <3>3, PollPress
    <2> QED
        BY <2>1, <2>2, <2>3, <2>4 DEF Poll!DeviceSteps
<1>2. CASE Poll!tuxinit \/ Poll!led_request \/ \E word \in Words \cup {Poll!TimeWord(t) : t \in Times} : Poll!set_led(word)
    BY <1>2, PollCalls
<1>3. CASE Poll!ProgramSteps
    BY <1>3, PollProgram
<1>4. CASE Poll!Handle
    BY <1>4, PollHandle
<1> QED
    BY <1>1, <1>2, <1>3, <1>4 DEF Poll!Next

(* The invariant implies what this driver promises.                        *)
LEMMA PollSafe == PollInv => Poll!PollSafety
<1> SUFFICES ASSUME PollInv PROVE Poll!PollSafety
    OBVIOUS
<1>1. PollTypes /\ PollLeds /\ PollAnswers
    BY DEF PollInv
<1>2. Poll!Quiet /\ driver = "idle" => PollShows(stored)
    <2>1. Poll!Quiet => toDevice = << >> /\ toHost = << >>
        BY DEF Poll!Quiet
    <2> QED
        BY <1>1, <2>1, NothingIn DEF PollLeds
<1>3. Poll!LedsRestored
    BY <1>2 DEF PollShows, Poll!LedsRestored
<1>4. Poll!TimeShown
    <2> SUFFICES ASSUME Poll!Quiet, driver = "idle", NEW t \in Times, stored = Poll!TimeWord(t)
                 PROVE  Poll!TimeOn(device.leds, t)
        BY DEF Poll!TimeShown
    <2>1. Poll!On(stored) = Poll!LEDs /\ Poll!Prefix(Poll!LEDs)
        BY PollTime
    <2>2. \A k \in Poll!LEDs : device.leds[k] = Poll!Shown(stored, k)
        BY <1>2, <2>1 DEF PollShows
    <2> QED
        BY <2>2, PollTime
<1>5. Poll!ReadWhole
    <2>1. UNION {Poll!Decoded(polled[k], k) : k \in Poll!LEDs} = Both
        <3> DEFINE D(k) == Poll!Decoded(polled[k], k)
        <3>1. Both = D(0) \cup D(1) \cup D(2) \cup D(3)
            BY DEF Both, Half
        <3>2. Poll!LEDs = {0, 1, 2, 3}
            BY DEF Poll!LEDs
        <3> HIDE DEF D
        <3>3. UNION {D(k) : k \in {0, 1, 2, 3}} = D(0) \cup D(1) \cup D(2) \cup D(3)
            OBVIOUS
        <3> QED
            BY <3>1, <3>2, <3>3 DEF D
    <2>2. driver = "conf" => read = Whole
        BY <1>1 DEF PollAnswers
    <2> QED
        BY <2>1, <2>2 DEF Whole, Poll!ReadWhole
<1> QED
    BY <1>3, <1>4, <1>5 DEF Poll!PollSafety

(* A driver that rests keeps its invariant.                                *)
LEMMA DriversRest ==
    ASSUME UNCHANGED drivers
    PROVE  (CurrentInv => CurrentInv') /\ (PollInv => PollInv') /\ (AckInv => AckInv')
<1>1. /\ toDevice' = toDevice /\ toHost' = toHost /\ device' = device /\ pressed' = pressed /\ restarts' = restarts
      /\ reported' = reported /\ button_info' = button_info /\ stored' = stored /\ driver' = driver /\ arg' = arg
      /\ readledval' = readledval /\ readledconf' = readledconf /\ read' = read /\ polled' = polled
      /\ ack' = ack /\ inits' = inits /\ early' = early
    BY DEF drivers, controller, ofPoll, ofAck
<1>2. CurrentInv => CurrentInv'
    BY <1>1 DEF CurrentInv, CurrentTypes, CurrentButtons, CurrentRestarts, CurrentLeds, CurrentShows
<1>3. ASSUME PollInv PROVE PollInv'
    <2>1. PollTypes /\ PollLeds /\ PollAnswers
        BY <1>3 DEF PollInv
    <2>2. First' = First /\ Second' = Second /\ (NoAnswer => NoAnswer') /\ \A n \in Nat : AnswerAt(n) => AnswerAt(n)'
        BY <1>1 DEF First, Second, NoAnswer, AnswerAt
    <2>3. PollTypes' /\ PollLeds'
        BY <1>1, <2>1, <2>2 DEF PollTypes, PollLeds, PollShows, PollSets, PollWords, ResetPacket
    <2>4. PollAnswers'
        <3>1. Once(toDevice', Request)
            BY <1>1, <2>1 DEF PollAnswers
        <3> QED
            BY <1>1, <2>1, <2>2, <3>1, AnswersKept
    <2> QED
        BY <2>3, <2>4 DEF PollInv
<1>4. ASSUME AckInv PROVE AckInv'
    <2>1. AckTypes /\ AckLeds /\ AckComes /\ AckCount
        BY <1>4 DEF AckInv
    <2>2. AckTypes' /\ AckLeds'
        BY <1>1, <2>1 DEF AckTypes, AckLeds
    <2>3. AckComes' /\ AckCount'
        BY <1>1, <2>1 DEF AckComes, AckCount, Due, MaySend
    <2> QED
        BY <2>2, <2>3 DEF AckInv
<1> QED
    BY <1>2, <1>3, <1>4

\* Whichever driver there is.
DriverInv ==
    /\ part = "current" => CurrentInv
    /\ part = "poll" => PollInv
    /\ part = "ack" => AckInv

(* A step is one of the driver there is, or leaves it alone.               *)
LEMMA DriverStep == DriverInv /\ [MCNext]_all => DriverInv'
<1> SUFFICES ASSUME DriverInv, [MCNext]_all PROVE DriverInv'
    OBVIOUS
<1>1. part' = part
    BY DEF MCNext, Transmitting, Receiving, In, all
<1>2. CASE UNCHANGED drivers
    BY <1>1, <1>2, DriversRest DEF DriverInv
<1>3. CASE part = "current" /\ Current!Next
    <2>1. CurrentInv'
        BY <1>3, CurrentStep DEF DriverInv
    <2> QED
        BY <1>1, <1>3, <2>1 DEF DriverInv
<1>4. CASE part = "poll" /\ Poll!Next
    <2>1. PollInv'
        BY <1>4, PollStep DEF DriverInv
    <2> QED
        BY <1>1, <1>4, <2>1 DEF DriverInv
<1>5. CASE part = "ack" /\ WithAck!Next
    <2>1. AckInv'
        BY <1>5, AckStep DEF DriverInv
    <2> QED
        BY <1>1, <1>5, <2>1 DEF DriverInv
<1>6. \/ UNCHANGED drivers
      \/ part = "current" /\ Current!Next
      \/ part = "poll" /\ Poll!Next
      \/ part = "ack" /\ WithAck!Next
    BY DEF MCNext, Transmitting, Receiving, In, all
<1> QED
    BY <1>2, <1>3, <1>4, <1>5, <1>6

(* However calls, interrupts and resets mix, DriverSafety holds of every   *)
(* driver, with the exceptions its parts name: the driver in use shows     *)
(* words whose LEDs are the lowest, and leaves them dark after a reset;    *)
(* the one that waits may refuse, and shows a whole word or none, not      *)
(* always the last (tuxctl-ioctl.c of mp2_ssbonde2 and the two originals). *)
THEOREM DriverSafetyHolds == MCSpec => []DriverSafety
<1>1. MCInit => DriverInv
    BY CurrentInit, PollInit, AckInit DEF MCInit, DriverInv
<1>2. DriverInv => DriverSafety
    BY CurrentSafe, PollSafe, AckSafe DEF DriverInv, DriverSafety
<1> QED
    BY <1>1, <1>2, DriverStep, PTL DEF MCSpec

====
