------------------------------- MODULE TuxAck -------------------------------
(***************************************************************************)
(* The tux driver of ECE_391_MP2 (module/tuxctl-ioctl.c): it remembers     *)
(* that a command is out until an acknowledgement comes, and refuses       *)
(* TUX_SET_LED until then.  The flag is set after the command was put, and *)
(* interrupts come between any two steps of a call: its lock does not keep *)
(* them off.  A ring that is full takes a part of a put: the call returns  *)
(* -EINVAL then, and the flag is set all the same.                         *)
(***************************************************************************)
EXTENDS TuxController

CONSTANTS
    Words,      \* arguments of TUX_SET_LED, and
    Times,      \* seconds that the game shows with it
    MaxCalls    \* BOUND: calls

VARIABLES
    button_info,    \* bits of the last event, zero for a button that is down
    ack,            \* 1 while a command is taken to be out
    time_backup,    \* argument of the last TUX_SET_LED
    pc,             \* "idle", or where the program is in its call
    arg,            \* its argument
    calls,          \* how many calls there were
    inits,          \* history: how many of them were TUX_INIT
    early           \* history: an acknowledgement came before ack was set

driver == <<button_info, ack, time_backup>>
program == <<pc, arg, calls, inits>>
vars == <<controller, driver, program, early>>

Init ==
    /\ ControllerInit
    /\ button_info = {} /\ ack = 0 /\ time_backup = {}
    /\ pc = "idle" /\ arg = {} /\ calls = 0 /\ inits = 0
    /\ early = FALSE

-----------------------------------------------------------------------------
(* The calls.                                                              *)

Begin(at) ==
    /\ pc = "idle" /\ calls < MaxCalls
    /\ calls' = calls + 1
    /\ pc' = at

Restart == <<Command("LED_USR"), Command("BIOC_ON")>>

\* What tuxctl_ldisc_put may take: a ring without room is one whose commands
\* are on their way.  A command of several bytes is taken or not.
Fitting(commands) ==
    IF toDevice = << >> THEN {commands} ELSE {SubSeq(commands, 1, n) : n \in 0 .. Len(commands)}

TuxInit ==
    /\ Begin("start")
    /\ button_info' = {} /\ time_backup' = {}
    /\ inits' = inits + 1
    /\ UNCHANGED <<controller, ack, arg, early>>

PutRestart ==
    /\ pc = "start" /\ pc' = "mark"
    /\ \E put \in Fitting(Restart) : Sent(put)
    /\ early' = FALSE
    /\ UNCHANGED <<toHost, outside, driver, arg, calls, inits>>

\* The game's: each digit shifts those before it up.
set_tux_led(minutes, seconds) ==
    LET Shifted(output, digit) == {4 + b : b \in output} \cup Nibble(digit, 0)
    IN  Shifted(Shifted(Shifted(Nibble(minutes \div 10, 0), minutes % 10), seconds \div 10), seconds % 10)
            \cup {16, 17, 18, 19, 26}

TimeWord(t) == set_tux_led(t \div 60, t % 60)

TuxSetLed(word) ==
    /\ Begin("test")
    /\ arg' = word
    /\ time_backup' = word
    /\ UNCHANGED <<controller, button_info, ack, inits, early>>

\* Variant: the flag is not looked at.
MayNotSendIgnored == FALSE

MayNotSend == ack = 1

\* -EINVAL while a command is out.
TestAck ==
    /\ pc = "test"
    /\ pc' = IF MayNotSend THEN "idle" ELSE "put"
    /\ UNCHANGED <<controller, driver, arg, calls, inits, early>>

\* setLed: the mask's highest bit is for LED 0, and an LED that is off is
\* blank, its point too.  All four are set.
LedByte(word, k) == IF 3 - k \in On(word) THEN Shown(word, k) ELSE Dark
LedBytes(word) == [j \in 1 .. 4 |-> LedByte(word, j - 1)]
LedCommand(word) == LedSet(LEDs, LedBytes(word))

PutLeds ==
    /\ pc = "put" /\ pc' = "mark"
    /\ \E put \in Fitting(<<LedCommand(arg)>>) : Sent(put)
    /\ early' = FALSE
    /\ UNCHANGED <<toHost, outside, driver, arg, calls, inits>>

MarkSent ==
    /\ pc = "mark" /\ pc' = "idle"
    /\ ack' = 1
    /\ UNCHANGED <<controller, button_info, time_backup, arg, calls, inits, early>>

-----------------------------------------------------------------------------
(* tuxctl_handle_packet, in an interrupt.                                  *)

\* Variant: only an acknowledgement that comes between calls counts.
AckedIdle == IF pc = "idle" THEN 0 ELSE ack

Acked == 0

HandleAck ==
    /\ Received("ACK")
    /\ ack' = Acked
    /\ early' = (early \/ pc = "mark")
    /\ UNCHANGED <<toDevice, outside, button_info, time_backup, program>>

\* Left and down change places; the bits are not inverted.
HandleEvent ==
    /\ Received("BIOC_EVENT")
    /\ LET bits == Head(toHost).data
       IN  button_info' = {4 + b : b \in bits \ {1, 2}} \cup (IF 1 \in bits THEN {6} ELSE {})
                              \cup (IF 2 \in bits THEN {5} ELSE {})
    /\ UNCHANGED <<toDevice, outside, ack, time_backup, program, early>>

\* Variant: the handler leaves before it puts anything.
PutOnResetLate == IF ack = 1 THEN << >> ELSE Restart \o <<LedCommand(time_backup)>>

\* The controller is started again in any case, its LEDs only when no
\* command is out.
PutOnReset == IF ack = 1 THEN Restart ELSE Restart \o <<LedCommand(time_backup)>>

\* A first put that fails ends the handler; the second is not looked at.
HandleReset ==
    /\ Received("RESET")
    /\ \E put \in Fitting(PutOnReset) :
        /\ Sent(put)
        /\ IF Len(put) < Len(Restart)
           THEN UNCHANGED <<button_info, ack, early>>
           ELSE /\ button_info' = IF ack = 1 THEN button_info ELSE {}
                /\ ack' = 1
                /\ early' = FALSE
    /\ UNCHANGED <<outside, time_backup, program>>

-----------------------------------------------------------------------------

Handle == HandleAck \/ HandleEvent \/ HandleReset
ProgramSteps == PutRestart \/ TestAck \/ PutLeds \/ MarkSent
Device == DeviceSteps /\ UNCHANGED <<driver, program, early>>

Next ==
    \/ Device
    \/ TuxInit \/ \E word \in Words \cup {TimeWord(t) : t \in Times} : TuxSetLed(word)
    \/ ProgramSteps
    \/ Handle

Spec == Init /\ [][Next]_vars

-----------------------------------------------------------------------------
(***************************************************************************)
(* Properties.                                                             *)
(***************************************************************************)

\* Commands that the driver put and whose acknowledgement it has not taken.
Out == Len(toDevice) + Cardinality(Of("ACK", toHost))

(***************************************************************************)
(* How far the flag holds commands back: it is cleared by the first of the *)
(* two acknowledgements of TUX_INIT, and by those of what a reset sends,   *)
(* so that each TUX_INIT lets two more commands be out and a reset three.  *)
(***************************************************************************)
OutBounded == Out <= 1 + 2 * inits + 3 * resets

(***************************************************************************)
(* Once the line is quiet and no call is under way, TUX_SET_LED is refused *)
(* only if an acknowledgement came before the flag was set for it; also    *)
(* after a reset that lost the command whose acknowledgement was due.      *)
(***************************************************************************)
RefusedOnlyWhenEarly == Quiet /\ pc = "idle" /\ ack = 1 => early

(***************************************************************************)
(* The flag is set, and must be cleared by the acknowledgement that is     *)
(* due, unless it came early.                                              *)
(***************************************************************************)
AckDue == ack = 1 /\ ~early

(***************************************************************************)
(* What the LEDs show is dark, or one word that the program asked for, in  *)
(* whole: a time never has digits of another.  That it is the last word is *)
(* not promised: TUX_SET_LED is refused while a command is out, and the    *)
(* LEDs come back after a reset only if none is and the ring has room.     *)
(***************************************************************************)
WordWhole ==
    \/ \A k \in LEDs : device.leds[k] = Dark
    \/ \E t \in Times : TimeOn(device.leds, t)
    \/ \E word \in Words \cup {{}} : \A k \in LEDs : device.leds[k] = LedByte(word, k)

(* The flag bounds what is out, a call is refused on a quiet line only     *)
(* after an answer that was too early, and what is shown is a whole word   *)
(* (tuxctl-ioctl.c:46-336).                                                *)
AckSafety == OutBounded /\ RefusedOnlyWhenEarly /\ WordWhole

=============================================================================
