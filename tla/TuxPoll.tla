------------------------------- MODULE TuxPoll -------------------------------
(***************************************************************************)
(* The driver of ECE391-MP2-Device-Drivers (module/tuxctl-ioctl.c): after  *)
(* a reset it sends the LEDs again, and it can read the LEDs back from the *)
(* controller, which takes two packets; tux_read_led of input.c asks for   *)
(* them and then calls TUX_LED_ACK until they are there.                   *)
(***************************************************************************)
EXTENDS TuxController

CONSTANTS
    Words,      \* arguments of TUX_SET_LED, and
    Times,      \* seconds that the game shows with it
    MaxCalls    \* BOUND: calls that send commands

VARIABLES
    buttons,        \* bits of the last event
    ledstatus,      \* argument of the last TUX_SET_LED
    readledval,     \* bits of the word put together from the packets
    readledconf,    \* 1 when both packets were there
    pc,             \* "idle", or where the program is in its call
    arg,            \* its argument
    calls,          \* how many calls there were
    read,           \* what the last TUX_READ_LED returned
    polled          \* history: the LEDs when they were last polled

driver == <<buttons, ledstatus, readledval, readledconf>>
program == <<pc, arg, calls, read>>
vars == <<controller, driver, program, polled>>

None == {"none"}

Init ==
    /\ ControllerInit
    /\ buttons = {} /\ ledstatus = {} /\ readledval = {} /\ readledconf = 0
    /\ pc = "idle" /\ arg = {} /\ calls = 0 /\ read = None
    /\ polled = [k \in LEDs |-> Dark]

-----------------------------------------------------------------------------
(* The commands.                                                           *)

\* buffer[2 .. bufferSize-1]: the byte of LED i is at 2+i, however many LEDs
\* below it are off, and only as many bytes are sent as LEDs are on.
LedBytes(word) ==
    LET n == Cardinality(On(word))
    IN  [j \in 1 .. n |-> IF j - 1 \in On(word) THEN Shown(word, j - 1) ELSE Junk]

LedCommand(word) == LedSet(On(word), LedBytes(word))

Begin(call) ==
    /\ pc = "idle" /\ calls < MaxCalls
    /\ calls' = calls + 1
    /\ pc' = call

\* TUX_INIT_CONTROLLER.
tuxinit ==
    /\ pc = "idle" /\ calls < MaxCalls /\ calls' = calls + 1
    /\ Sent(<<Command("BIOC_ON")>>)
    /\ UNCHANGED <<toHost, outside, driver, pc, arg, read, polled>>

\* The game's.
update_tux_timer(seconds, minutes) ==
    {16, 17, 18, 19, 26} \cup Nibble(seconds % 10, 0) \cup Nibble((seconds - (seconds % 10)) \div 10, 1)
        \cup Nibble(minutes % 10, 2) \cup Nibble((minutes - (minutes % 10)) \div 10, 3)

TimeWord(t) == update_tux_timer(t % 60, t \div 60)

\* TUX_SET_LED: the display is put into user mode, and then the LEDs are set.
set_led(word) ==
    /\ Begin("set")
    /\ arg' = word
    /\ Sent(<<Command("LED_USR")>>)
    /\ UNCHANGED <<toHost, outside, driver, read, polled>>

SaveLeds ==
    /\ pc = "set" /\ pc' = "send"
    /\ ledstatus' = arg
    /\ UNCHANGED <<controller, buttons, readledval, readledconf, arg, calls, read, polled>>

SendLeds ==
    /\ pc = "send" /\ pc' = "idle"
    /\ Sent(<<LedCommand(arg)>>)
    /\ UNCHANGED <<toHost, outside, driver, arg, calls, read, polled>>

\* TUX_LED_REQUEST.
led_request ==
    /\ Begin("ack")
    /\ Sent(<<Command("POLL_LEDS")>>)
    /\ UNCHANGED <<toHost, outside, driver, arg, read, polled>>

\* Variant: it is 0 when the first packet is there.
AckedHalf == readledval # {}

\* TUX_LED_ACK, called until it returns 0.
Acked == readledconf = 1

LedAck ==
    /\ pc = "ack" /\ Acked
    /\ pc' = "read"
    /\ UNCHANGED <<controller, driver, arg, calls, read, polled>>

\* TUX_READ_LED: copy_to_user, and then two assignments.
CopyOut ==
    /\ pc = "read" /\ pc' = "conf"
    /\ read' = readledval
    /\ UNCHANGED <<controller, driver, arg, calls, polled>>

ClearConf ==
    /\ pc = "conf" /\ pc' = "val"
    /\ readledconf' = 0
    /\ UNCHANGED <<controller, buttons, ledstatus, readledval, arg, calls, read, polled>>

ClearVal ==
    /\ pc = "val" /\ pc' = "idle"
    /\ readledval' = {}
    /\ UNCHANGED <<controller, buttons, ledstatus, readledconf, arg, calls, read, polled>>

-----------------------------------------------------------------------------
(* tuxctl_handle_packet.                                                   *)

HandleAck ==
    /\ Received("ACK")
    /\ UNCHANGED <<toDevice, outside, driver, program, polled>>

\* The bits are inverted, moved up by four, and left and down change places.
ButtonBits(bits) ==
    LET up == (0 .. 3) \ bits
    IN  {4 + b : b \in up \ {1, 2}} \cup (IF 1 \in up THEN {6} ELSE {}) \cup (IF 2 \in up THEN {5} ELSE {})

HandleEvent ==
    /\ Received("BIOC_EVENT")
    /\ buttons' = ButtonBits(Head(toHost).data)
    /\ UNCHANGED <<toDevice, outside, ledstatus, readledval, readledconf, program, polled>>

\* Variant: the LEDs are not sent again.
AgainNoLeds == <<Command("BIOC_ON"), Command("LED_USR")>>

\* tuxinit and set_led with the state saved.
Again == <<Command("BIOC_ON"), Command("LED_USR"), LedCommand(ledstatus)>>

HandleReset ==
    /\ Received("RESET")
    /\ Sent(Again)
    /\ UNCHANGED <<outside, driver, program, polled>>

\* The search in displaychars: the digit's bits moved to LED k, or the bit
\* above them, of 16, when the byte is none of the table's.
Found(byte, k) == IF byte.blank \/ byte = Junk THEN {4 * k + 4} ELSE {4 * k + b : b \in byte.digit}

Decoded(byte, k) == Found(byte, k) \cup (IF byte.point THEN {24 + k} ELSE {})

\* parse_led_read_0 begins a new word.
HandlePoll0 ==
    /\ Received("POLL0")
    /\ readledval' = Decoded(Head(toHost).data[1], 0) \cup Decoded(Head(toHost).data[2], 1)
    /\ UNCHANGED <<toDevice, outside, buttons, ledstatus, readledconf, program, polled>>

\* The LEDs taken to be on: those with a point or a digit other than 0.
Lit(word) == {16 + k : k \in {j \in LEDs : Point(word, j) \/ Digit(word, j) # {}}}

\* Variant: readledconf is not set.
ConfirmedNot == readledconf

Confirmed == 1

\* parse_led_read_1.
HandlePoll1 ==
    /\ Received("POLL1")
    /\ LET word == readledval \cup Decoded(Head(toHost).data[1], 2) \cup Decoded(Head(toHost).data[2], 3)
       IN  readledval' = word \cup Lit(word)
    /\ readledconf' = Confirmed
    /\ UNCHANGED <<toDevice, outside, buttons, ledstatus, program, polled>>

-----------------------------------------------------------------------------

Device ==
    /\ DeviceSteps
    /\ polled' = IF toDevice # << >> /\ toDevice' = Tail(toDevice) /\ Head(toDevice).op = "POLL_LEDS" /\ resets' = resets
                 THEN device.leds ELSE polled
    /\ UNCHANGED <<driver, program>>

Handle == HandleAck \/ HandleEvent \/ HandleReset \/ HandlePoll0 \/ HandlePoll1

ProgramSteps == SaveLeds \/ SendLeds \/ LedAck \/ CopyOut \/ ClearConf \/ ClearVal

Next ==
    \/ Device
    \/ tuxinit \/ led_request \/ \E word \in Words \cup {TimeWord(t) : t \in Times} : set_led(word)
    \/ ProgramSteps
    \/ Handle

Spec == Init /\ [][Next]_vars

-----------------------------------------------------------------------------
(***************************************************************************)
(* Properties.                                                             *)
(***************************************************************************)

Prefix(mask) == \E n \in 0 .. 4 : mask = 0 .. n - 1

(***************************************************************************)
(* However resets fall into the calls, once the line is quiet the LEDs     *)
(* that the last TUX_SET_LED turned on show what it asked for, if they are *)
(* the lowest ones: its own command came through, or the one sent again.   *)
(***************************************************************************)
LedsRestored ==
    Quiet /\ pc = "idle" /\ Prefix(On(ledstatus)) =>
        \A k \in On(ledstatus) : device.leds[k] = Shown(ledstatus, k)

\* And a time that the game asked for can be read, also after a reset.
TimeShown ==
    Quiet /\ pc = "idle" => \A t \in Times : ledstatus = TimeWord(t) => TimeOn(device.leds, t)

(***************************************************************************)
(* What TUX_READ_LED gives to tux_read_led is the word of one poll: its    *)
(* two packets, and nothing left over from a poll before it.               *)
(***************************************************************************)
ReadWhole ==
    pc = "conf" =>
        LET word == UNION {Decoded(polled[k], k) : k \in LEDs} IN read = word \cup Lit(word)

(***************************************************************************)
(* tux_read_led waits for its answer and must get it, unless the           *)
(* controller is reset: a request that the reset loses is not sent again,  *)
(* and TUX_LED_ACK fails for ever.                                         *)
(***************************************************************************)
AnswerDue == pc = "ack" /\ resets = 0

(* The LEDs set last are shown after a reset, and the LEDs read back are   *)
(* those of one answer (tuxctl-ioctl.c:85-308).                            *)
PollSafety == LedsRestored /\ TimeShown /\ ReadWhole

=============================================================================
