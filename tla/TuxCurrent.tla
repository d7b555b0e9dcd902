----------------------------- MODULE TuxCurrent -----------------------------
(***************************************************************************)
(* The tux driver of mp2_ssbonde2 (module/tuxctl-ioctl.c): it sends        *)
(* commands without waiting, keeps the buttons of the last event, and      *)
(* after a reset turns the buttons and the display on again, but does not  *)
(* send the LEDs that were set.                                            *)
(***************************************************************************)
EXTENDS TuxController

CONSTANTS
    Words,      \* arguments of TUX_SET_LED, and
    Times,      \* seconds that the game shows with it
    MaxCalls    \* BOUND: calls that send commands

VARIABLES
    buttons,    \* bits of the last event
    LED,        \* argument of the last TUX_SET_LED
    pc,         \* "idle", or where the program is in its call
    arg,        \* its argument
    calls       \* how many calls there were

driver == <<buttons, LED>>
program == <<pc, arg, calls>>
vars == <<controller, driver, program>>

Init ==
    /\ ControllerInit
    /\ buttons = {} /\ LED = {}
    /\ pc = "idle" /\ arg = {} /\ calls = 0

Begin ==
    /\ pc = "idle" /\ calls < MaxCalls
    /\ calls' = calls + 1

TuxInit ==
    /\ Begin
    /\ Sent(<<Command("BIOC_ON")>>)
    /\ UNCHANGED <<toHost, outside, driver, pc, arg>>

\* Variant: the loop ends one LED early.
LedBytesShort(word) ==
    LET n == Cardinality(On(word))
    IN  [j \in 1 .. n |-> IF j - 1 \in On(word) /\ j < n THEN Shown(word, j - 1) ELSE Junk]

\* The byte of LED i is put at 2+i, and as many bytes are sent as LEDs are on.
LedBytes(word) ==
    LET n == Cardinality(On(word))
    IN  [j \in 1 .. n |-> IF j - 1 \in On(word) THEN Shown(word, j - 1) ELSE Junk]

\* The game's, which calls it with the seconds first.
tux_led_load(minutes, seconds) ==
    {16, 17, 18, 19, 26} \cup Nibble(minutes % 10, 0) \cup Nibble(minutes \div 10, 1)
        \cup Nibble(seconds % 10, 2) \cup Nibble(seconds \div 10, 3)

\* Variant: it is called as its parameters are named.
TimeWordNamed(t) == tux_led_load(t \div 60, t % 60)

TimeWord(t) == tux_led_load(t % 60, t \div 60)

TuxSetLed(word) ==
    /\ Begin
    /\ pc' = "save" /\ arg' = word
    /\ Sent(<<Command("LED_USR")>>)
    /\ UNCHANGED <<toHost, outside, driver>>

SaveLed ==
    /\ pc = "save" /\ pc' = "send"
    /\ LED' = arg
    /\ UNCHANGED <<controller, buttons, arg, calls>>

SendLed ==
    /\ pc = "send" /\ pc' = "idle"
    /\ Sent(<<LedSet(On(arg), LedBytes(arg))>>)
    /\ UNCHANGED <<toHost, outside, driver, arg, calls>>

\* Variant: left and down stay in the places of the packet.
ButtonBitsUnswapped(bits) == {4 + b : b \in (0 .. 3) \ bits}

\* The bits are inverted, moved up by four, and left and down change places.
ButtonBits(bits) ==
    LET up == (0 .. 3) \ bits
    IN  {4 + b : b \in up \ {1, 2}} \cup (IF 1 \in up THEN {6} ELSE {}) \cup (IF 2 \in up THEN {5} ELSE {})

HandleEvent ==
    /\ Received("BIOC_EVENT")
    /\ buttons' = ButtonBits(Head(toHost).data)
    /\ UNCHANGED <<toDevice, outside, LED, program>>

\* Variant: only the display is turned on again.
AgainNoButtons == <<Command("LED_USR")>>

Again == <<Command("BIOC_ON"), Command("LED_USR")>>

HandleReset ==
    /\ Received("RESET")
    /\ Sent(Again)
    /\ UNCHANGED <<outside, driver, program>>

\* Packets of no case, acknowledgements among them.
HandleOther ==
    /\ Received("ACK")
    /\ UNCHANGED <<toDevice, outside, driver, program>>

Handle == HandleEvent \/ HandleReset \/ HandleOther
ProgramSteps == SaveLed \/ SendLed
Device == DeviceSteps /\ UNCHANGED <<driver, program>>

Next ==
    \/ Device
    \/ TuxInit \/ \E word \in Words \cup {TimeWord(t) : t \in Times} : TuxSetLed(word)
    \/ ProgramSteps
    \/ Handle

Spec == Init /\ [][Next]_vars

-----------------------------------------------------------------------------
(***************************************************************************)
(* Properties.                                                             *)
(***************************************************************************)

\* The bits that the game takes for each direction (tux_thread, mazegame.c).
Direction == [up |-> 4, down |-> 5, left |-> 6, right |-> 7]

(***************************************************************************)
(* Once no event is on its way, TUX_BUTTONS gives the buttons that the     *)
(* controller last told of, each at the bit that tux_thread tests.         *)
(***************************************************************************)
ButtonsReported ==
    Of("BIOC_EVENT", toHost) = {} => buttons = {Direction[b] : b \in reported}

(***************************************************************************)
(* A controller that was reset, wherever the reset fell among the commands *)
(* sent, has its buttons and its display turned on again once the line is  *)
(* quiet: also when the commands for it were lost in another reset.        *)
(***************************************************************************)
Restarted == Quiet /\ resets > 0 => device.bioc /\ device.usr

Lowest(mask) == \E n \in 0 .. 4 : mask = 0 .. n - 1

(***************************************************************************)
(* Once the line is quiet and no call is under way, an LED that the last   *)
(* TUX_SET_LED turned on shows its digit and its point, or is dark since   *)
(* a reset, which the driver does not repair.  It is only so for words     *)
(* whose LEDs are the lowest ones, as the game's are: for others the bytes *)
(* sent are not those that were written.                                   *)
(***************************************************************************)
LedsShown ==
    Quiet /\ pc = "idle" /\ Lowest(On(LED)) =>
        \A k \in On(LED) : device.leds[k] = Shown(LED, k) \/ (resets > 0 /\ device.leds[k] = Dark)

(***************************************************************************)
(* Once the line is quiet, a controller that was told a time and not reset *)
(* shows it: the minutes on the left, the point behind them, and then the  *)
(* seconds.                                                                *)
(***************************************************************************)
TimeShown ==
    Quiet /\ pc = "idle" /\ resets = 0 => \A t \in Times : LED = TimeWord(t) => TimeOn(device.leds, t)

(* Whenever the line is quiet, the controller is set up, its buttons are   *)
(* the driver's, and the LEDs that were asked for are shown (tuxctl-       *)
(* ioctl.c:57-222).                                                        *)
CurrentSafety == ButtonsReported /\ Restarted /\ LedsShown /\ TimeShown

=============================================================================
