----------------------------- MODULE Interrupts -----------------------------
(***************************************************************************)
(* How the kernel is entered and left: the stubs of interrupts/handlers.S, *)
(* do_IRQ, do_exception and sys_call, the interrupt flag, the word         *)
(* irq_vector that every stub passes its number through, and the masks and *)
(* acknowledgements of the two PICs in interrupts/i8259.c.                 *)
(*                                                                         *)
(* The processor runs the last of `frames`: kernel_main, a program, a      *)
(* system call, an exception or an interrupt.  Calls are told apart by     *)
(* what they do to control: some wait in hlt, some run another program,    *)
(* some end their own.                                                     *)
(***************************************************************************)
EXTENDS Integers, Sequences, FiniteSets, SequencesExt

CONSTANTS
    Exceptions,     \* numbers of the exceptions that programs and calls raise
    MaxPrograms     \* bound: programs that wait for each other

KEYB == 1
RTC == 8
SLAVE_PIN == 2
NUM_IRQS == 8
Devices == {KEYB, RTC}
OVERFLOW == 4
DEVICE_NA == 7
SEG_NA == 11

VARIABLES
    frames,         \* what the processor is in, innermost last
    flag,           \* the interrupt flag of the processor
    irq_vector,     \* the word of handlers.S
    booted,         \* steps of kernel_main that are done
    mask,           \* interrupts masked in the PICs
    request,        \* lines raised and not yet accepted
    service         \* pins accepted and not yet acknowledged

pics == <<mask, request, service>>
vars == <<frames, flag, irq_vector, booted, mask, request, service>>

Top == Last(frames)
Below == Front(frames)
At(kind, step) == Top.kind = kind /\ Top.step = step
Goto(step) == frames' = Append(Below, [Top EXCEPT !.step = step])

Frame(kind, n, step) ==
    [kind |-> kind, n |-> n, number |-> 0, flags |-> flag, step |-> step]

Program == [kind |-> "program", n |-> 0, number |-> 0, flags |-> 1, step |-> "run"]

Programs == {k \in DOMAIN frames : frames[k].kind = "program"}

Frames ==
    [kind : {"kernel", "program", "call", "exception", "irq"},
     n : 0 .. 19, number : -RTC .. 19, flags : {0, 1},
     step : {"run", "body", "wait", "done", "enter", "save", "load", "handle"}]

RegistersOK ==
    /\ flag \in {0, 1}
    /\ irq_vector \in -RTC .. 19
    /\ booted \in 0 .. 3
    /\ mask \subseteq 0 .. 15 /\ request \subseteq Devices /\ service \subseteq 0 .. 15

TypeOK == frames \in Seq(Frames) /\ RegistersOK

Init ==
    /\ flag = 0
    /\ frames = <<Frame("kernel", 0, "run")>>
    /\ irq_vector = 0
    /\ booted = 0
    /\ mask = 0 .. 15
    /\ request = {}
    /\ service = {}

-----------------------------------------------------------------------------
(* kernel_main: i8259_init, init_keyboard, init_rtc, execute("shell").     *)

enable_irq(irq_num) == mask' = mask \ {irq_num}

Boot(step, irq_num) ==
    /\ At("kernel", "run") /\ booted = step
    /\ booted' = step + 1
    /\ flag' = 1
    /\ enable_irq(irq_num)
    /\ UNCHANGED <<frames, irq_vector, request, service>>

\* Variant: the new program starts with the flag as it is in the kernel.
EnteredAsIs(stack) ==
    /\ frames' = Append(stack, Program)
    /\ UNCHANGED flag

\* create_process enters a program with the flag set, whatever it is now.
Entered(stack) ==
    /\ frames' = Append(stack, Program)
    /\ flag' = 1

FirstShell ==
    /\ At("kernel", "run") /\ booted = 3
    /\ Entered(Below)
    /\ UNCHANGED <<irq_vector, booted, pics>>

-----------------------------------------------------------------------------
(* System calls.  Their gate clears the flag, and the stub sets it again.  *)

SysCall ==
    /\ Top.kind = "program"
    /\ frames' = Append(frames, Frame("call", 0, "enter"))
    /\ flag' = 0
    /\ UNCHANGED <<irq_vector, booted, pics>>

Called == Goto("body") /\ flag' = 1

SysCallBody ==
    /\ At("call", "enter")
    /\ Called
    /\ UNCHANGED <<irq_vector, booted, pics>>

\* A number that is not a call's goes back at once.
SysCallInvalid ==
    /\ At("call", "enter")
    /\ frames' = Below
    /\ flag' = Top.flags
    /\ UNCHANGED <<irq_vector, booted, pics>>

\* terminal_read and rtc_read sleep until an interrupt.
Hlt ==
    /\ At("call", "body")
    /\ Goto("wait")
    /\ UNCHANGED <<flag, irq_vector, booted, pics>>

Return ==
    /\ At("call", "body") \/ At("call", "done")
    /\ frames' = Below
    /\ flag' = Top.flags
    /\ UNCHANGED <<irq_vector, booted, pics>>

Execute ==
    /\ At("call", "body")
    /\ Cardinality(Programs) < MaxPrograms
    /\ Entered(Append(Below, [Top EXCEPT !.step = "done"]))
    /\ UNCHANGED <<irq_vector, booted, pics>>

\* end_process drops the program and all that runs in it.  The program that
\* executed it goes on in its call, with the flag as it is now; without one
\* there is a new shell.
Ended ==
    \E own \in Programs :
        /\ \A other \in Programs : other <= own
        /\ IF own = 1
           THEN Entered(<< >>)
           ELSE frames' = SubSeq(frames, 1, own - 1) /\ UNCHANGED flag

Halt ==
    /\ At("call", "body")
    /\ Ended
    /\ UNCHANGED <<irq_vector, booted, pics>>

-----------------------------------------------------------------------------
(* Exceptions.  Their gates leave the flag alone; all stubs but one begin  *)
(* by clearing it.                                                         *)

\* Variant: none of the stubs clears the flag.
ClearingNone == {}

Clearing == 0 .. 19 \ {DEVICE_NA}

Raised(n) == frames' = Append(frames, Frame("exception", n, "enter"))

Raise ==
    /\ Top.kind = "program" \/ At("call", "body")
    /\ \E n \in Exceptions : Raised(n)
    /\ UNCHANGED <<flag, irq_vector, booted, pics>>

EnterException ==
    /\ At("exception", "enter")
    /\ flag' = IF Top.n \in Clearing THEN 0 ELSE flag
    /\ Goto("save")
    /\ UNCHANGED <<irq_vector, booted, pics>>

\* do_exception ends the program, after an overflow by one more exception.
DoException ==
    /\ At("exception", "handle")
    /\ IF Top.number = OVERFLOW
       THEN Raised(SEG_NA) /\ UNCHANGED flag
       ELSE Ended
    /\ UNCHANGED <<irq_vector, booted, pics>>

-----------------------------------------------------------------------------
(* Both common handlers pop their number into irq_vector, save registers   *)
(* and push irq_vector as the argument of their C function.                *)

Code == IF Top.kind = "irq" THEN -Top.n ELSE Top.n

SaveVector ==
    /\ Top.step = "save"
    /\ irq_vector' = Code
    /\ Goto("load")
    /\ UNCHANGED <<flag, booted, pics>>

LoadVector ==
    /\ Top.step = "load"
    /\ frames' = Append(Below, [Top EXCEPT !.number = irq_vector, !.step = "handle"])
    /\ UNCHANGED <<flag, irq_vector, booted, pics>>

-----------------------------------------------------------------------------
(* Interrupts, and the PICs.                                               *)

Pins(irq_num) == IF irq_num < NUM_IRQS THEN {irq_num} ELSE {irq_num, SLAVE_PIN}

\* A device raises its line again only when it was read.
Request(irq_num) ==
    /\ irq_num \notin request \cup service
    /\ request' = request \cup {irq_num}
    /\ UNCHANGED <<frames, flag, irq_vector, booted, mask, service>>

\* A pin is held back by its own service and by that of lower numbers of its
\* PIC; the slave hangs on pin 2 of the master.
Deliverable(irq_num) ==
    /\ irq_num \in request
    /\ Pins(irq_num) \cap mask = {}
    /\ \A pin \in Pins(irq_num), busy \in service :
        busy \div NUM_IRQS = pin \div NUM_IRQS => busy > pin
    /\ irq_num = RTC => ~(KEYB \in request /\ KEYB \notin mask)

\* Variant: the gate leaves the flag alone.
GateKeeps == flag

\* The flag after the gate of an interrupt.
Gate == 0

Interrupt(irq_num) ==
    /\ flag = 1
    /\ Deliverable(irq_num)
    /\ LET woken == IF Top.step = "wait" THEN [Top EXCEPT !.step = "body"] ELSE Top
       IN  frames' = Append(Append(Below, woken), Frame("irq", irq_num, "save"))
    /\ flag' = Gate
    /\ request' = request \ {irq_num}
    /\ service' = service \cup Pins(irq_num)
    /\ UNCHANGED <<irq_vector, booted, mask>>

\* Variant: the slave only is told of the end.
AcknowledgedSlave(irq_num) == IF irq_num \in 0 .. 15 THEN {irq_num} ELSE {}

\* send_eoi, specific to the pin, to both PICs for the slave's.
Acknowledged(irq_num) == IF irq_num \in 0 .. 15 THEN Pins(irq_num) ELSE {}

\* do_IRQ: the handlers of the two devices acknowledge, any other number is
\* only reported.
DoIRQ ==
    /\ At("irq", "handle")
    /\ service' = service \ (IF -Top.number \in Devices THEN Acknowledged(-Top.number) ELSE {})
    /\ Goto("done")
    /\ UNCHANGED <<flag, irq_vector, booted, mask, request>>

Iret ==
    /\ At("irq", "done")
    /\ frames' = Below
    /\ flag' = Top.flags
    /\ UNCHANGED <<irq_vector, booted, pics>>

-----------------------------------------------------------------------------
\* Variant: the pin of the slave stays masked.
BootStepsNoSlave == Boot(0, KEYB) \/ Boot(1, KEYB) \/ Boot(2, RTC)

i8259_init == Boot(0, SLAVE_PIN)

init_keyboard == Boot(1, KEYB)

\* The rate is set between cli and sti, while the clock's pin is masked.
init_rtc == Boot(2, RTC)

BootSteps == i8259_init \/ init_keyboard \/ init_rtc

Stub == EnterException \/ DoException \/ SaveVector \/ LoadVector \/ DoIRQ \/ Iret

Kernel == BootSteps \/ FirstShell \/ SysCallBody \/ SysCallInvalid \/ Return \/ Stub

Next ==
    \/ Kernel
    \/ SysCall \/ Hlt \/ Execute \/ Halt \/ Raise
    \/ \E irq_num \in Devices : Request(irq_num) \/ Interrupt(irq_num)

(***************************************************************************)
(* The processor never stops inside the kernel, and takes an interrupt     *)
(* that is there again and again when the flag is set; between interrupts  *)
(* kernel_main gets on.  Programs and devices owe nothing.                 *)
(***************************************************************************)
Fairness ==
    /\ WF_vars(Kernel)
    /\ SF_vars(BootSteps)
    /\ \A irq_num \in Devices : SF_vars(Interrupt(irq_num))

Spec == Init /\ [][Next]_vars /\ Fairness

-----------------------------------------------------------------------------
(***************************************************************************)
(* Properties.                                                             *)
(***************************************************************************)

(***************************************************************************)
(* Whatever interrupts whatever, do_IRQ is called with the number of the   *)
(* interrupt that was accepted, though the number travels in one word that *)
(* all stubs share.                                                        *)
(***************************************************************************)
InterruptNumber == At("irq", "handle") => Top.number = -Top.n

(***************************************************************************)
(* do_exception is called with the number of the exception -- but for      *)
(* device_not_available, whose stub lacks the cli: an interrupt between    *)
(* its two uses of irq_vector leaves the interrupt's number there.         *)
(***************************************************************************)
ExceptionNumber ==
    At("exception", "handle") /\ Top.number # Top.n =>
        Top.n = DEVICE_NA /\ -Top.number \in Devices

(***************************************************************************)
(* A program always runs with interrupts on, and a call that waits always  *)
(* waits with interrupts on, also after exceptions that were handled with  *)
(* interrupts off ended any number of programs and restarted the shell.    *)
(* Else nothing would ever end the wait.                                   *)
(***************************************************************************)
InterruptsOn == Top.kind = "program" \/ Top.step = "wait" => flag = 1

(***************************************************************************)
(* Outside the handlers no pin of either PIC is in service, so nothing     *)
(* holds a later interrupt back; inside, only the pins of that interrupt.  *)
(***************************************************************************)
NoneInService ==
    service \subseteq (IF Top.kind = "irq" THEN Pins(Top.n) ELSE {})

(***************************************************************************)
(* No interrupt is lost or delayed for ever, whatever is executed, killed, *)
(* interrupted and waited for: a request is accepted, at the latest when   *)
(* kernel_main has enabled it.  For the clock, whose pin comes after the   *)
(* keyboard's, this takes a keyboard that pauses when the flag is set.     *)
(***************************************************************************)
Accepted(irq_num) == irq_num \in request ~> irq_num \notin request

NoneLost ==
    /\ Accepted(KEYB)
    /\ []<>(flag = 1 /\ KEYB \notin request) => Accepted(RTC)

(* Each entry to the kernel arrives under its own number, whatever wants   *)
(* to wait can be interrupted, and nothing stays in service behind it      *)
(* (handlers.S, i8259.c:130-160).                                          *)
EntrySafety == InterruptNumber /\ ExceptionNumber /\ InterruptsOn /\ NoneInService

-----------------------------------------------------------------------------
(***************************************************************************)
(* The inductive invariant; the proofs are in MCSleepers.                  *)
(*                                                                         *)
(* The invariant says which frame may stand on which, and what a frame     *)
(* that is not the innermost one will find when it is again.               *)
(***************************************************************************)

\* Programs and calls raise what the processor can raise.
ExceptionsExist == Exceptions \subseteq 0 .. 19

\* What the stub of exception n finds in irq_vector: its number, or where
\* nothing kept interrupts away, that of an interrupt.
Finds(n, number) == number = n \/ (n = DEVICE_NA /\ -number \in Devices)

\* A frame by itself.
FrameOK(f) ==
    /\ f.kind \in {"kernel", "program"} => f.step = "run"
    /\ f.kind = "call" => f.step \in {"enter", "body", "wait", "done"} /\ f.flags = 1
    /\ f.kind = "exception" =>
        /\ f.step \in {"enter", "save", "load", "handle"}
        /\ f.step = "handle" => Finds(f.n, f.number)
    /\ f.kind = "irq" =>
        /\ f.step \in {"save", "load", "handle", "done"} /\ f.flags = 1
        /\ f.n \in Devices
        /\ f.step = "handle" => f.number = -f.n

\* Frame g may be entered from frame f.
StandsOn(f, g) ==
    /\ g.kind # "kernel" /\ f.kind # "irq"
    /\ g.kind = "program" => f.kind = "call" /\ f.step = "done"
    /\ g.kind = "call" => f.kind = "program"
    /\ g.kind = "exception" =>
        \/ f.kind = "program"
        \/ f.kind = "call" /\ f.step = "body"
        \/ f.kind = "exception" /\ f.step = "handle"
    /\ g.kind = "irq" =>
        /\ f.step # "wait"
        /\ f.kind = "exception" => f.step = "enter" \/ f.n = DEVICE_NA

Stacked ==
    /\ Len(frames) > 0
    /\ \A k \in 1 .. Len(frames) : FrameOK(frames[k])
    /\ \A k \in 2 .. Len(frames) : StandsOn(frames[k - 1], frames[k])
    /\ frames[1].kind \in {"kernel", "program"}

\* The flag, by what runs.
FlagOK(value, f) ==
    /\ f.kind = "program" \/ (f.kind = "call" /\ f.step \in {"body", "wait"}) => value = 1
    /\ f.kind = "irq" => value = 0
    /\ f.kind = "exception" /\ f.n # DEVICE_NA /\ f.step # "enter" => value = 0

\* irq_vector, while a frame is between its two uses of it.
VectorOK(value, f) ==
    /\ f.kind = "exception" /\ f.step = "load" => Finds(f.n, value)
    /\ f.kind = "irq" /\ f.step = "load" => value = -f.n

\* The pins in service, by what runs.
ServiceOK(pins, f) ==
    pins \subseteq (IF f.kind = "irq" /\ f.step # "done" THEN Pins(f.n) ELSE {})

IInv ==
    /\ TypeOK
    /\ Stacked
    /\ FlagOK(flag, Top)
    /\ \A k \in 1 .. Len(frames) : VectorOK(irq_vector, frames[k])
    /\ ServiceOK(service, Top)
=============================================================================
