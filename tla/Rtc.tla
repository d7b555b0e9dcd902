-------------------------------- MODULE Rtc --------------------------------
(***************************************************************************)
(* The real-time clock driver.  The device interrupts at FREQ_MAX Hz; the  *)
(* handler counts interrupts and raises a flag once every FREQ_MAX/vfreq   *)
(* of them, for a virtual rate of vfreq.  The rate, the count and the flag *)
(* are globals, shared by all processes and by the handler.                *)
(*                                                                         *)
(* System calls run with interrupts enabled, so the handler may come       *)
(* between any two of their assignments; it is itself never interrupted.   *)
(***************************************************************************)
EXTENDS Integers

CONSTANTS
    FREQ_MAX,       \* rate of the device
    FREQ_MIN,       \* lowest virtual rate
    Requests,       \* frequencies programs ask for, valid or not
    MaxBacklog      \* BOUND: interrupts counted before the first open

RTC_OPEN_FREQ == 2

ASSUME RtcAssumption ==
    /\ FREQ_MAX \in Nat /\ FREQ_MIN \in Nat
    /\ 0 < FREQ_MIN /\ FREQ_MIN <= RTC_OPEN_FREQ /\ RTC_OPEN_FREQ <= FREQ_MAX
    /\ Requests \subseteq Nat
    /\ MaxBacklog \in Nat

VARIABLES
    vfreq,          \* virtual rate; 0 until the first open
    icounter,       \* interrupts counted towards the next hit
    interrupted,    \* "waiting" or "hit"
    call,           \* where the running process is
    opened,         \* 1 if the running process holds an RTC descriptor
    since           \* history: interrupts since the last hit or open, if the
                    \* rate has been the same since then

vars == <<vfreq, icounter, interrupted, call, opened, since>>

None == -1

Calls == {"user", "opening", "armed", "halted", "woken"}

TypeOK ==
    /\ vfreq \in 0 .. FREQ_MAX
    /\ icounter \in Int
    /\ interrupted \in {"waiting", "hit"}
    /\ call \in Calls
    /\ opened \in {0, 1}
    /\ since \in Nat \cup {None}

Init ==
    /\ vfreq = 0
    /\ icounter = 0
    /\ interrupted = "waiting"
    /\ call = "user"
    /\ opened = 0
    /\ since = None

-----------------------------------------------------------------------------
(* handle_rtc.                                                             *)

Hit == vfreq * (icounter + 1) >= FREQ_MAX

\* icounter after the handler's increment and, on a hit, its subtraction.
Count == IF Hit THEN icounter + 1 - FREQ_MAX \div vfreq ELSE icounter + 1

\* A hlt ends at any interrupt.
Wake == IF call = "halted" THEN "woken" ELSE call

RtcInterrupt ==
    /\ vfreq = 0 => icounter < MaxBacklog
    /\ icounter' = Count
    /\ interrupted' = IF Hit THEN "hit" ELSE interrupted
    /\ call' = Wake
    /\ since' = IF since = None THEN None ELSE IF Hit THEN 0 ELSE since + 1
    /\ UNCHANGED <<vfreq, opened>>

\* The keyboard's interrupt ends a hlt too.
OtherInterrupt ==
    /\ call = "halted"
    /\ call' = Wake
    /\ UNCHANGED <<vfreq, icounter, interrupted, opened, since>>

-----------------------------------------------------------------------------
(* rtc_open sets the rate, then the count, before it looks for a           *)
(* descriptor: the globals change even when it then finds none.            *)

OpenRate ==
    /\ call = "user"
    /\ vfreq' = RTC_OPEN_FREQ
    /\ since' = None
    /\ call' = "opening"
    /\ UNCHANGED <<icounter, interrupted, opened>>

\* Variant: the count is left as it is.
OpenCountKept ==
    /\ call = "opening"
    /\ since' = 0
    /\ call' = "user"
    /\ opened' \in {opened, 1}
    /\ UNCHANGED <<vfreq, icounter, interrupted>>

OpenCount ==
    /\ call = "opening"
    /\ icounter' = 0
    /\ since' = 0
    /\ call' = "user"
    /\ opened' \in {opened, 1}
    /\ UNCHANGED <<vfreq, interrupted>>

(* rtc_read arms the flag, then halts until it finds the flag raised.      *)

Arm ==
    /\ call = "user" /\ opened = 1
    /\ interrupted' = "waiting"
    /\ call' = "armed"
    /\ UNCHANGED <<vfreq, icounter, opened, since>>

\* Variant: the flag is armed again before each hlt.
HltRearms ==
    /\ call = "armed"
    /\ interrupted' = "waiting"
    /\ call' = "halted"
    /\ UNCHANGED <<vfreq, icounter, opened, since>>

Hlt ==
    /\ call = "armed"
    /\ call' = "halted"
    /\ UNCHANGED <<vfreq, icounter, interrupted, opened, since>>

Check ==
    /\ call = "woken"
    /\ call' = IF interrupted = "waiting" THEN "armed" ELSE "user"
    /\ UNCHANGED <<vfreq, icounter, interrupted, opened, since>>

(* rtc_write: a power of two within the bounds.                            *)

PowersOfTwo == {2 ^ k : k \in 0 .. FREQ_MAX}

\* Variant: the lower bound is not tested.
ValidAnyLow(f) == f \in PowersOfTwo /\ f <= FREQ_MAX

Valid(f) == f \in PowersOfTwo /\ FREQ_MIN <= f /\ f <= FREQ_MAX

\* As 2, 4, ... 1024 divide 1024, the period of each rate is exact.
ASSUME PeriodAssumption ==
    /\ FREQ_MAX % FREQ_MIN = 0 /\ FREQ_MAX % RTC_OPEN_FREQ = 0
    /\ \A f \in Requests \cap PowersOfTwo : f <= FREQ_MAX => FREQ_MAX % f = 0

Write(f) ==
    /\ call = "user" /\ opened = 1
    /\ Valid(f)
    /\ vfreq' = f
    /\ since' = IF f = vfreq \/ icounter = 0 THEN since ELSE None
    /\ UNCHANGED <<icounter, interrupted, call, opened>>

\* execute, halt or close: another descriptor table, the same globals.  No
\* process has the device open before rtc_open has been called once.
Switch ==
    /\ call = "user"
    /\ opened' \in {0, 1}
    /\ opened' = 1 => vfreq # 0
    /\ UNCHANGED <<vfreq, icounter, interrupted, call, since>>

-----------------------------------------------------------------------------
Next ==
    \/ RtcInterrupt
    \/ OtherInterrupt
    \/ OpenRate \/ OpenCount
    \/ Arm \/ Hlt \/ Check
    \/ \E f \in Requests : Write(f)
    \/ Switch

Spec == Init /\ [][Next]_vars

\* The device interrupts for ever, and the processor executes a system
\* call to its end.
Fairness ==
    /\ WF_vars(RtcInterrupt)
    /\ WF_vars(OpenCount) /\ WF_vars(Hlt) /\ WF_vars(Check)

FairSpec == Spec /\ Fairness

-----------------------------------------------------------------------------
(***************************************************************************)
(* Properties.                                                             *)
(***************************************************************************)

(***************************************************************************)
(* Once the device has been opened, the count stays within one period of   *)
(* the slowest rate, whatever rates programs write and whenever they do:   *)
(* the backlog that a change of rate leaves is bounded and never negative. *)
(* Between rtc_open's two assignments the count may still be older.        *)
(***************************************************************************)
LongestPeriod == FREQ_MAX \div FREQ_MIN

CounterBounded ==
    vfreq # 0 /\ call # "opening" => icounter \in 0 .. LongestPeriod - 1

(***************************************************************************)
(* At a rate nobody has changed since the device was opened, hits come     *)
(* exactly FREQ_MAX/vfreq interrupts apart, also across reads, failed      *)
(* opens of other processes and waits that other interrupts cut short.     *)
(***************************************************************************)
SteadyRate ==
    [][RtcInterrupt /\ since # None /\ Hit => since + 1 = FREQ_MAX \div vfreq]_vars

\* A read that has armed the flag returns, even if the hit comes before
\* the processor halts or other interrupts wake it.
ReadReturns == call \in {"armed", "halted", "woken"} ~> call = "user"

-----------------------------------------------------------------------------
(***************************************************************************)
(* The inductive invariant; the proofs are in MCSleepers.                  *)
(*                                                                         *)
(* The count of the real-time clock, for every device rate and every set   *)
(* of requests.  The invariant ties the count to the interrupts since the  *)
(* last hit while nobody changes the rate, and says which calls need the   *)
(* device to have been opened once.                                        *)
(***************************************************************************)

\* A rate that has been set is in bounds, and its period is exact.
RateSet(f) == f \in FREQ_MIN .. FREQ_MAX /\ FREQ_MAX % f = 0

\* The test of handle_rtc, not reached.
Below(f, n) == f * n < FREQ_MAX

IInv ==
    /\ TypeOK
    /\ vfreq # 0 => RateSet(vfreq)
    /\ opened = 1 \/ since # None \/ call = "opening" => vfreq # 0
    /\ since # None => icounter = since /\ Below(vfreq, since)
    /\ call = "opening" => since = None
    /\ CounterBounded
=============================================================================
