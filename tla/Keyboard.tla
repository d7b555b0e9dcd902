------------------------------ MODULE Keyboard ------------------------------
(***************************************************************************)
(* The keyboard driver: the interrupt handler that follows the modifier    *)
(* keys and leaves the last character typed in a one-place buffer, and     *)
(* keyboard_get_key, which a process calls to wait for a character and     *)
(* take it, with interrupts enabled.                                       *)
(*                                                                         *)
(* Characters carry the number of the key press that produced them, so     *)
(* that a character can be told from a later one of the same key.          *)
(***************************************************************************)
EXTENDS Integers

CONSTANTS
    MaxPresses      \* BOUND: character keys pressed

\* rctrl sends the prefix of an extended key and then the codes of lctrl.
Modifiers == {"lshift", "rshift", "lctrl", "rctrl"}
Controls == {"lctrl", "rctrl"}

ASSUME KeyboardAssumption == MaxPresses \in Nat \ {0}

VARIABLES
    is_lshift, is_rshift, is_lcontrol, is_caps,
    last_key,       \* press number (0: none yet), kind and case
    data_available,
    reader,         \* keyboard_get_key: "out", "waiting", "cleared"
    got,            \* press number of the character returned last
    times,          \* history: how often in a row it was returned
    held,           \* history: modifier keys that are down
    presses         \* history: character keys pressed so far

modVars == <<is_lshift, is_rshift, is_lcontrol, is_caps>>
vars == <<is_lshift, is_rshift, is_lcontrol, is_caps,
          last_key, data_available, reader, got, times, held, presses>>

TypeOK ==
    /\ {is_lshift, is_rshift, is_lcontrol, is_caps, data_available} \subseteq BOOLEAN
    /\ last_key \in [press : 0 .. MaxPresses, letter : BOOLEAN, upper : BOOLEAN]
    /\ reader \in {"out", "waiting", "cleared"}
    /\ got \in 0 .. MaxPresses
    /\ times \in Nat
    /\ held \subseteq Modifiers
    /\ presses \in 0 .. MaxPresses

\* last_key and the flags are zero.
Init ==
    /\ is_lshift = FALSE /\ is_rshift = FALSE /\ is_lcontrol = FALSE /\ is_caps = FALSE
    /\ last_key = [press |-> 0, letter |-> FALSE, upper |-> FALSE]
    /\ data_available = FALSE
    /\ reader = "out"
    /\ got = 0 /\ times = 0
    /\ held = {}
    /\ presses = 0

-----------------------------------------------------------------------------
(* handle_keyboard.  A key that is down repeats its make code.  The prefix *)
(* of an extended key has its top bit set, so the code takes it for the    *)
(* release of a key that does not exist and never sets is_extended.        *)

ModifierDown(key) ==
    /\ is_lshift' = (is_lshift \/ key = "lshift")
    /\ is_rshift' = (is_rshift \/ key = "rshift")
    /\ is_lcontrol' = (is_lcontrol \/ key \in Controls)
    /\ held' = held \cup {key}
    /\ UNCHANGED <<is_caps, last_key, data_available, reader, got, times, presses>>

\* Variant: one shift flag for both keys.
ModifierUpAnyShift(key) ==
    /\ key \in held
    /\ is_lshift' = (is_lshift /\ key \in Controls)
    /\ is_rshift' = (is_rshift /\ key \in Controls)
    /\ is_lcontrol' = (is_lcontrol /\ key \notin Controls)
    /\ held' = held \ {key}
    /\ UNCHANGED <<is_caps, last_key, data_available, reader, got, times, presses>>

ModifierUp(key) ==
    /\ key \in held
    /\ is_lshift' = (is_lshift /\ key # "lshift")
    /\ is_rshift' = (is_rshift /\ key # "rshift")
    /\ is_lcontrol' = (is_lcontrol /\ key \notin Controls)
    /\ held' = held \ {key}
    /\ UNCHANGED <<is_caps, last_key, data_available, reader, got, times, presses>>

CapsLock ==
    /\ is_caps' = ~is_caps
    /\ UNCHANGED <<is_lshift, is_rshift, is_lcontrol, last_key, data_available,
                   reader, got, times, held, presses>>

\* Variant: shift wins over caps lock.
UpperShiftFirst(letter) == is_lshift \/ is_rshift \/ (is_caps /\ letter)

\* Whether shift_map or a capital is used: caps lock swaps shift on letters.
Upper(letter) ==
    \/ is_caps /\ letter /\ ~(is_lshift \/ is_rshift)
    \/ ~(is_caps /\ letter) /\ (is_lshift \/ is_rshift)

\* A key with a character.  Under control it is swallowed: only ctrl+L does
\* something, to the screen.
Character(letter) ==
    /\ presses < MaxPresses
    /\ presses' = presses + 1
    /\ IF is_lcontrol
       THEN UNCHANGED <<last_key, data_available>>
       ELSE /\ last_key' = [press |-> presses + 1, letter |-> letter, upper |-> Upper(letter)]
            /\ data_available' = TRUE
    /\ UNCHANGED <<modVars, reader, got, times, held>>

-----------------------------------------------------------------------------
(* keyboard_get_key: spin on the flag, clear it, return the buffer.        *)

Call ==
    /\ reader = "out"
    /\ reader' = "waiting"
    /\ UNCHANGED <<modVars, last_key, data_available, got, times, held, presses>>

\* Variant: the flag stays up.
ClearNot ==
    /\ reader = "waiting" /\ data_available
    /\ reader' = "cleared"
    /\ UNCHANGED <<modVars, last_key, data_available, got, times, held, presses>>

Clear ==
    /\ reader = "waiting" /\ data_available
    /\ data_available' = FALSE
    /\ reader' = "cleared"
    /\ UNCHANGED <<modVars, last_key, got, times, held, presses>>

Return ==
    /\ reader = "cleared"
    /\ got' = last_key.press
    /\ times' = IF got' = got THEN times + 1 ELSE 1
    /\ reader' = "out"
    /\ UNCHANGED <<modVars, last_key, data_available, held, presses>>

\* Variant steps: the character is taken first and the flag cleared last.
ClearTakes ==
    /\ reader = "waiting" /\ data_available
    /\ got' = last_key.press
    /\ times' = IF got' = got THEN times + 1 ELSE 1
    /\ reader' = "cleared"
    /\ UNCHANGED <<modVars, last_key, data_available, held, presses>>

ReturnClears ==
    /\ reader = "cleared"
    /\ data_available' = FALSE
    /\ reader' = "out"
    /\ UNCHANGED <<modVars, last_key, got, times, held, presses>>

ReaderStepsTakeFirst == ClearTakes \/ ReturnClears

ReaderSteps == Clear \/ Return

-----------------------------------------------------------------------------
Next ==
    \/ \E key \in Modifiers : ModifierDown(key) \/ ModifierUp(key)
    \/ CapsLock
    \/ \E letter \in BOOLEAN : Character(letter)
    \/ Call
    \/ ReaderSteps

Spec == Init /\ [][Next]_vars

\* A process that reads the terminal calls again, and the processor
\* executes the call; nobody has to press a key.
FairSpec == Spec /\ WF_vars(Call) /\ WF_vars(ReaderSteps)

-----------------------------------------------------------------------------
(***************************************************************************)
(* Properties.                                                             *)
(***************************************************************************)

(***************************************************************************)
(* The modifier flags follow the keys themselves through any overlapping   *)
(* presses, repeats and releases, so no shift or control sticks or is lost *)
(* while the other shift is held.                                          *)
(***************************************************************************)
ModifiersFollowKeys ==
    /\ is_lshift <=> "lshift" \in held
    /\ is_rshift <=> "rshift" \in held
    /\ is_lcontrol => held \cap Controls # {}

(***************************************************************************)
(* What is typed is what the keys held at that moment say: a letter is a   *)
(* capital when exactly one of caps lock and a shift is on, anything else  *)
(* is shifted when a shift is held.                                        *)
(***************************************************************************)
ShiftHeld == held \cap {"lshift", "rshift"} # {}

TypedAsHeld ==
    [][last_key' # last_key =>
        last_key'.upper = (ShiftHeld # (is_caps /\ last_key'.letter))]_vars

(***************************************************************************)
(* keyboard_get_key never returns the buffer's initial 0, at which         *)
(* terminal_read would end its line: whoever finds the flag raised finds a *)
(* character.                                                              *)
(***************************************************************************)
FlagMeansKey == data_available \/ reader = "cleared" => last_key.press # 0

(***************************************************************************)
(* The last character typed is never lost: a process that goes on reading  *)
(* gets it or, if more was typed, a later one.  This is why the flag is    *)
(* cleared before the character is fetched.                                *)
(***************************************************************************)
LastKeyDelivered ==
    \A n \in 1 .. MaxPresses : last_key.press = n ~> got >= n

(***************************************************************************)
(* A key typed between the clearing of the flag and the fetch is returned  *)
(* by that call and by the next, but by no third.                          *)
(***************************************************************************)
TwiceAtMost == times <= 2

-----------------------------------------------------------------------------
(***************************************************************************)
(* The inductive invariant; the proofs are in MCConsole.                   *)
(*                                                                         *)
(* The keyboard's flags follow the keys, and the buffer holds a character  *)
(* whenever its flag is raised, for any number of key presses.  Both need  *)
(* the types; the numbers and the flags are typed separately.              *)
(***************************************************************************)

Flags ==
    /\ {is_lshift, is_rshift, is_lcontrol, is_caps, data_available} \subseteq BOOLEAN
    /\ held \subseteq Modifiers

Key == [press : 0 .. MaxPresses, letter : BOOLEAN, upper : BOOLEAN]

Numbers ==
    /\ last_key \in Key
    /\ reader \in {"out", "waiting", "cleared"}
    /\ got \in 0 .. MaxPresses
    /\ times \in Nat
    /\ presses \in 0 .. MaxPresses

\* A raised flag, or a call past its test, stands for a key that has been
\* returned at most once; with both at once the key is a new one.
Pending ==
    /\ got <= last_key.press /\ last_key.press <= presses
    /\ times <= 2
    /\ data_available = TRUE \/ reader = "cleared" => last_key.press # got \/ times = 1
    /\ data_available = TRUE /\ reader = "cleared" => last_key.press # got

IInv == Flags /\ Numbers /\ FlagMeansKey /\ ModifiersFollowKeys
=============================================================================
