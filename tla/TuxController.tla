---------------------------- MODULE TuxController ----------------------------
(***************************************************************************)
(* The tux controller at the other end of the line, as the drivers in the  *)
(* repository take it to be: it obeys commands one after another, answers  *)
(* each with a packet, and sends packets of its own when its buttons       *)
(* change and when it has been reset.  Both directions keep their order;   *)
(* TuxTransmit and TuxReceive say when the line discipline does.           *)
(*                                                                         *)
(* An argument of TUX_SET_LED is the set of the bits of its word that are  *)
(* one: four digits, which LEDs are on (16..19), their points (24..27).    *)
(***************************************************************************)
EXTENDS Integers, Sequences, FiniteSets

CONSTANTS
    MaxResets,      \* BOUND: resets of the controller
    MaxChanges      \* BOUND: changes of its buttons

VARIABLES
    toDevice,   \* commands on their way
    toHost,     \* packets on their way
    device,     \* the controller's own state
    pressed,    \* the buttons that are down
    resets,     \* how often it was reset
    changes,    \* how often its buttons changed
    reported    \* history: the buttons of its last packet about them

line == <<toDevice, toHost>>
controller == <<toDevice, toHost, device, pressed, resets, changes, reported>>
outside == <<device, pressed, resets, changes, reported>>

LEDs == 0 .. 3
Buttons == {"up", "left", "down", "right"}

Digit(word, k) == {b - 4 * k : b \in word \cap (4 * k .. 4 * k + 3)}
Point(word, k) == 24 + k \in word
On(word) == {k \in LEDs : 16 + k \in word}

\* A digit in a word, at LED k.
Nibble(n, k) == {4 * k + b : b \in {b \in 0 .. 3 : (n \div 2^b) % 2 = 1}}

\* What a byte of LED_SET makes an LED show.
Shown(word, k) == [digit |-> Digit(word, k), point |-> Point(word, k), blank |-> FALSE]
Dark == [digit |-> {}, point |-> FALSE, blank |-> TRUE]

\* A byte that the driver sends and never wrote.
Junk == [digit |-> {99}, point |-> FALSE, blank |-> FALSE]

Command(op) == [op |-> op, mask |-> {}, bytes |-> << >>]
LedSet(mask, bytes) == [op |-> "LED_SET", mask |-> mask, bytes |-> bytes]

Packet(kind, data) == [kind |-> kind, data |-> data]
Ack == Packet("ACK", {})

Off == [bioc |-> FALSE, usr |-> FALSE, leds |-> [k \in LEDs |-> Dark]]

ControllerInit ==
    /\ toDevice = << >> /\ toHost = << >>
    /\ device = Off
    /\ pressed = {}
    /\ resets = 0 /\ changes = 0 /\ reported = {}

\* What a button's bit is in the packets, where a bit of a button that is
\* down is zero.
Bit == [up |-> 0, left |-> 1, down |-> 2, right |-> 3]
Event(buttons) == Packet("BIOC_EVENT", {Bit[b] : b \in Buttons \ buttons})

\* The bytes of LED_SET go to the LEDs of the mask from the lowest up.
Place(k, mask) == 1 + Cardinality({j \in mask : j < k})

Set(leds, c) == [k \in LEDs |-> IF k \in c.mask THEN c.bytes[Place(k, c.mask)] ELSE leds[k]]

Answer(c) ==
    IF c.op = "POLL_LEDS"
    THEN <<Packet("POLL0", <<device.leds[0], device.leds[1]>>), Packet("POLL1", <<device.leds[2], device.leds[3]>>)>>
    ELSE <<Ack>>

Obey ==
    /\ toDevice # << >>
    /\ LET c == Head(toDevice)
       IN  /\ device' = [bioc |-> device.bioc \/ c.op = "BIOC_ON",
                         usr  |-> device.usr \/ c.op = "LED_USR",
                         leds |-> IF c.op = "LED_SET" THEN Set(device.leds, c) ELSE device.leds]
           /\ toHost' = toHost \o Answer(c)
    /\ toDevice' = Tail(toDevice)
    /\ UNCHANGED <<pressed, resets, changes, reported>>

\* Commands that reach the controller while it starts again are lost.
PressReset ==
    /\ resets < MaxResets
    /\ resets' = resets + 1
    /\ device' = Off
    /\ \E k \in 0 .. Len(toDevice) : toDevice' = SubSeq(toDevice, k + 1, Len(toDevice))
    /\ toHost' = Append(toHost, Packet("RESET", {}))
    /\ UNCHANGED <<pressed, changes, reported>>

PressButtons ==
    /\ changes < MaxChanges
    /\ changes' = changes + 1
    /\ \E b \in Buttons : pressed' = IF b \in pressed THEN pressed \ {b} ELSE pressed \cup {b}
    /\ IF device.bioc
       THEN toHost' = Append(toHost, Event(pressed')) /\ reported' = pressed'
       ELSE UNCHANGED <<toHost, reported>>
    /\ UNCHANGED <<toDevice, device, resets>>

DeviceSteps == Obey \/ PressReset \/ PressButtons

\* What the driver puts, and a packet that its interrupt takes.
Sent(commands) == toDevice' = toDevice \o commands
Received(kind) ==
    /\ toHost # << >> /\ Head(toHost).kind = kind
    /\ toHost' = Tail(toHost)

\* The places of packets of a kind.
Of(kind, packets) == {k \in DOMAIN packets : packets[k].kind = kind}

Quiet == toDevice = << >> /\ toHost = << >>

\* The LEDs from the left: minutes, a point, and seconds, of t seconds.
TimeOn(leds, t) ==
    LET IsDigit(k, n) == ~leds[k].blank /\ leds[k].digit = Digit(Nibble(n, k), k) /\ leds[k].point = (k = 2)
        minutes == t \div 60
        seconds == t % 60
    IN  /\ IsDigit(3, minutes \div 10) /\ IsDigit(2, minutes % 10)
        /\ IsDigit(1, seconds \div 10) /\ IsDigit(0, seconds % 10)

=============================================================================
