---- MODULE MCConsole ----
(* The three parts of the console, one in each behaviour while the others  *)
(* rest: keys on their way to a reader, the line that terminal_read makes  *)
(* of them, and the screen they are shown on.                              *)
EXTENDS Keyboard, SequenceTheorems, WellFoundedInduction, TLAPS

CONSTANTS MAX_BUF_FILL, FNAME_MAX, Letters, ShellSize, Sizes, MaxKeys, NUM_ROWS, NUM_COLS

VARIABLES
    part,
    phase, nbytes, i, buf, ret, fname, args, line, keys,    \* of Terminal
    screen_x, screen_y, ink, pc, reg, at, row, after, calls      \* of Screen

Line == INSTANCE Terminal
Text == INSTANCE Screen

lineVars == <<phase, nbytes, i, buf, ret, fname, args, line, keys>>
textVars == <<screen_x, screen_y, ink, pc, reg, at, row, after, calls>>
console == <<part, vars, lineVars, textVars>>

ConsoleInit == part \in {"keyboard", "line", "text"} /\ Init /\ Line!Init /\ Text!Init

OfKeyboard(A) == part = "keyboard" /\ A /\ UNCHANGED <<part, lineVars, textVars>>
OfLine == part = "line" /\ Line!Next /\ UNCHANGED <<part, vars, textVars>>
OfText == part = "text" /\ Text!Next /\ UNCHANGED <<part, vars, lineVars>>

ConsoleNext == OfKeyboard(Next) \/ OfLine \/ OfText

\* As Keyboard's FairSpec: whoever reads the keyboard goes on reading.
ConsoleFairness ==
    /\ WF_console(OfKeyboard(Call)) /\ WF_console(OfKeyboard(ReaderSteps))

ConsoleSpec == ConsoleInit /\ [][ConsoleNext]_console /\ ConsoleFairness

LineSafety == Line!LineSafety
TextSafety == Text!TextSafety

\* Byte counts: one that is no bound, one below terminal_buf's size and that.
SomeSizes == {-1, 3, 5}

\* The instance is one that the theorems are about.
ASSUME Text!HasSize
ASSUME Line!LineAssumption

-----------------------------------------------------------------------------
(* Proofs: of the keyboard's specification, with the invariants of its     *)
(* module, and of the screen as a part of the console.                     *)

USE KeyboardAssumption

\* The case of a key is decided.
LEMMA UpperIsBoolean == ASSUME NEW letter \in BOOLEAN PROVE Upper(letter) \in BOOLEAN
BY DEF Upper

\* Nothing is down and nothing has been typed.
LEMMA InitInv == Init => IInv
<1> SUFFICES ASSUME Init PROVE IInv
  OBVIOUS
<1>1. Flags
  BY DEF Init, Flags
<1>2. Numbers
  BY DEF Init, Numbers, Key
<1>3. FlagMeansKey
  BY DEF Init, FlagMeansKey
<1>4. ModifiersFollowKeys
  BY DEF Init, ModifiersFollowKeys
<1> QED
  BY <1>1, <1>2, <1>3, <1>4 DEF IInv

\* Each press, repeat and release moves the flag of its own key.
LEMMA FlagsInv == IInv /\ [Next]_vars => Flags' /\ ModifiersFollowKeys'
<1> SUFFICES ASSUME IInv, [Next]_vars PROVE Flags' /\ ModifiersFollowKeys'
  OBVIOUS
<1> USE DEF IInv, Flags, ModifiersFollowKeys, Modifiers, Controls
<1>1. ASSUME NEW key \in Modifiers, ModifierDown(key) PROVE Flags' /\ ModifiersFollowKeys'
  BY <1>1 DEF ModifierDown
<1>2. ASSUME NEW key \in Modifiers, ModifierUp(key) PROVE Flags' /\ ModifiersFollowKeys'
  BY <1>2 DEF ModifierUp
<1>3. CASE CapsLock
  BY <1>3 DEF CapsLock
<1>4. ASSUME NEW letter \in BOOLEAN, Character(letter) PROVE Flags' /\ ModifiersFollowKeys'
  BY <1>4 DEF Character, modVars
<1>5. CASE Call
  BY <1>5 DEF Call, modVars
<1>6. CASE Clear
  BY <1>6 DEF Clear, modVars
<1>7. CASE Return
  BY <1>7 DEF Return, modVars
<1>8. CASE UNCHANGED vars
  BY <1>8 DEF vars
<1> QED
  BY <1>1, <1>2, <1>3, <1>4, <1>5, <1>6, <1>7, <1>8 DEF Next, ReaderSteps

\* The buffer and the reader: a character is stored before its flag rises.
LEMMA NumbersInv == IInv /\ [Next]_vars => Numbers' /\ FlagMeansKey'
<1> SUFFICES ASSUME IInv, [Next]_vars PROVE Numbers' /\ FlagMeansKey'
  OBVIOUS
<1> USE DEF IInv, Numbers, Key, FlagMeansKey
<1>1. ASSUME NEW key \in Modifiers, ModifierDown(key) \/ ModifierUp(key)
      PROVE  Numbers' /\ FlagMeansKey'
  BY <1>1 DEF ModifierDown, ModifierUp
<1>2. CASE CapsLock
  BY <1>2 DEF CapsLock
<1>3. ASSUME NEW letter \in BOOLEAN, Character(letter) PROVE Numbers' /\ FlagMeansKey'
  <2>1. presses' \in 1 .. MaxPresses /\ presses' = presses + 1
    BY <1>3 DEF Character
  <2>2. CASE is_lcontrol
    BY <1>3, <2>1, <2>2 DEF Character
  <2>3. CASE ~is_lcontrol
    <3>1. last_key' = [press |-> presses', letter |-> letter, upper |-> Upper(letter)]
      BY <1>3, <2>1, <2>3 DEF Character
    <3>2. last_key' \in Key /\ last_key'.press # 0
      BY <2>1, <3>1, UpperIsBoolean
    <3> QED
      BY <1>3, <2>1, <3>2 DEF Character
  <2> QED
    BY <2>2, <2>3
<1>4. CASE Call
  BY <1>4 DEF Call
<1>5. CASE Clear
  BY <1>5 DEF Clear
<1>6. CASE Return
  BY <1>6 DEF Return
<1>7. CASE UNCHANGED vars
  BY <1>7 DEF vars
<1> QED
  BY <1>1, <1>2, <1>3, <1>4, <1>5, <1>6, <1>7 DEF Next, ReaderSteps

\* The invariant holds throughout.
LEMMA Invariance == Spec => []IInv
<1>1. IInv /\ [Next]_vars => IInv'
  BY FlagsInv, NumbersInv DEF IInv
<1> QED
  BY InitInv, <1>1, PTL DEF Spec

\* handle_keyboard and keyboard_get_key keep their types, the flags never
\* disagree with the keys that are down, and a raised flag means a key.
THEOREM KeyboardInvariants == Spec => [](TypeOK /\ ModifiersFollowKeys /\ FlagMeansKey)
<1>1. IInv => TypeOK
  BY DEF IInv, Flags, Numbers, Key, TypeOK
<1>2. IInv => ModifiersFollowKeys /\ FlagMeansKey
  BY DEF IInv
<1> QED
  BY <1>1, <1>2, Invariance, PTL

\* What is typed has the case the keys held at that moment ask for.
THEOREM TypedAsHeldHolds == Spec => TypedAsHeld
<1>1. IInv /\ [Next]_vars =>
        [last_key' # last_key =>
            last_key'.upper = (ShiftHeld # (is_caps /\ last_key'.letter))]_vars
  <2> SUFFICES ASSUME IInv, Next, last_key' # last_key
               PROVE  last_key'.upper = (ShiftHeld # (is_caps /\ last_key'.letter))
    BY DEF vars
  <2>1. PICK letter \in BOOLEAN : Character(letter)
    BY DEF Next, ModifierDown, ModifierUp, CapsLock, Call, ReaderSteps, Clear, Return
  <2>2. last_key'.letter = letter /\ last_key'.upper = Upper(letter)
    BY <2>1 DEF Character
  <2>3. ShiftHeld <=> is_lshift \/ is_rshift
    BY DEF IInv, Flags, ModifiersFollowKeys, ShiftHeld, Modifiers
  <2>4. ShiftHeld \in BOOLEAN /\ is_caps \in BOOLEAN
    BY DEF IInv, Flags, ShiftHeld
  <2> QED
    BY <2>2, <2>3, <2>4 DEF Upper
<1> QED
  BY <1>1, Invariance, PTL DEF Spec, TypedAsHeld

\* The flag is raised once for each key and lowered before the fetch.
LEMMA PendingInv == IInv /\ IInv' /\ Pending /\ [Next]_vars => Pending'
<1> SUFFICES ASSUME IInv, IInv', Pending, [Next]_vars PROVE Pending'
  OBVIOUS
<1>1. /\ got \in Nat /\ times \in Nat /\ presses \in Nat /\ last_key.press \in Nat
      /\ got' \in Nat /\ times' \in Nat /\ presses' \in Nat /\ last_key'.press \in Nat
  BY DEF IInv, Numbers, Key
<1>2. data_available = TRUE \/ reader = "cleared" => last_key.press # 0
  BY DEF IInv, FlagMeansKey
<1> USE <1>1, <1>2 DEF Pending
<1>3. ASSUME NEW key \in Modifiers, ModifierDown(key) \/ ModifierUp(key) PROVE Pending'
  BY <1>3 DEF ModifierDown, ModifierUp
<1>4. CASE CapsLock
  BY <1>4 DEF CapsLock
<1>5. ASSUME NEW letter \in BOOLEAN, Character(letter) PROVE Pending'
  <2>1. presses' = presses + 1 /\ UNCHANGED <<reader, got, times>>
    BY <1>5 DEF Character
  <2>2. CASE is_lcontrol
    BY <1>5, <2>1, <2>2 DEF Character
  <2>3. CASE ~is_lcontrol
    <3>1. last_key'.press = presses + 1
      BY <1>5, <2>3 DEF Character
    <3> QED
      BY <2>1, <3>1
  <2> QED
    BY <2>2, <2>3
<1>6. CASE Call
  BY <1>6 DEF Call
<1>7. CASE Clear
  <2>1. data_available = TRUE
    BY <1>7 DEF Clear, IInv, Flags
  <2> QED
    BY <1>7, <2>1 DEF Clear
<1>8. CASE Return
  BY <1>8 DEF Return
<1>9. CASE UNCHANGED vars
  BY <1>9 DEF vars
<1> QED
  BY <1>3, <1>4, <1>5, <1>6, <1>7, <1>8, <1>9 DEF Next, ReaderSteps

\* keyboard_get_key returns no key press three times.
THEOREM TwiceAtMostHolds == Spec => []TwiceAtMost
<1>1. Init => Pending
  BY DEF Init, Pending
<1>2. Pending => TwiceAtMost
  BY DEF Pending, TwiceAtMost
<1> QED
  BY <1>1, <1>2, PendingInv, Invariance, PTL DEF Spec

-----------------------------------------------------------------------------
(* The screen, as a part of the console.                                   *)

\* Scrolling up by n rows moves ink within the screen.
LEMMA ScrolledUpCells ==
    ASSUME Text!HasSize, ink \subseteq Text!Cells, NEW n \in Text!Rows
    PROVE  Text!ScrolledUp(n) \subseteq Text!Cells
BY DEF Text!HasSize, Text!ScrolledUp, Text!Cells, Text!Rows, Text!Cols

\* So does moving the next row up by one.
LEMMA MovedRowCells ==
    ASSUME Text!HasSize, ink \subseteq Text!Cells, row \in Text!Rows
    PROVE  (ink \ Text!InRow(row)) \cup {<<row, cell[2]>> : cell \in Text!InRow(row + 1)} \subseteq Text!Cells
BY DEF Text!HasSize, Text!InRow, Text!Cells

\* The cleared screen satisfies the invariant.
LEMMA TextInitInv == Text!HasSize /\ Text!Init => Text!IInv
BY DEF Text!HasSize, Text!Init, Text!IInv, Text!CursorInBounds, Text!LoadsInBounds, Text!Rows, Text!Cols,
   Text!Cells, Text!Labels

\* Every step preserves it.
LEMMA TextStepInv == Text!HasSize /\ Text!IInv /\ [Text!Next]_(Text!vars) => Text!IInv'
<1> SUFFICES ASSUME Text!HasSize, Text!IInv, [Text!Next]_(Text!vars) PROVE Text!IInv'
  OBVIOUS
<1> USE DEF Text!HasSize, Text!IInv, Text!CursorInBounds, Text!LoadsInBounds, Text!Goto, Text!Scroll, Text!Labels
<1>1. CASE Text!Aim
  BY <1>1 DEF Text!Aim, Text!Cells
<1>2. CASE Text!Store
  BY <1>2 DEF Text!Store
<1>3. CASE Text!Advance
  <2>1. screen_x' \in Text!Cols /\ reg' \in Text!Rows /\ reg' \in Int
    BY <1>3 DEF Text!Advance, Text!LastColumn, Text!Cols, Text!Rows
  <2> QED
    BY <1>3, <2>1 DEF Text!Advance
<1>4. CASE Text!SetY
  BY <1>4 DEF Text!SetY
<1>5. CASE Text!AdvanceScrolls
  BY <1>5 DEF Text!AdvanceScrolls, Text!Rows
<1>6. CASE Text!AdvanceWraps
  BY <1>6 DEF Text!AdvanceWraps, Text!LastRow, Text!Rows, Text!Cols
<1>7. CASE Text!Wrap
  BY <1>7 DEF Text!Wrap, Text!Rows
<1>8. CASE Text!NewlineScrolls
  BY <1>8 DEF Text!NewlineScrolls, Text!Rows
<1>9. CASE Text!Newline
  BY <1>9 DEF Text!Newline, Text!LastRow, Text!Rows
<1>10. CASE Text!Feed
  BY <1>10 DEF Text!Feed, Text!Rows
<1>11. CASE Text!SetYX
  BY <1>11 DEF Text!SetYX, Text!Cols
<1>12. CASE Text!MoveRow
  <2>1. ink' \subseteq Text!Cells
    BY <1>12, MovedRowCells DEF Text!MoveRow
  <2>2. row' \in Text!Rows
    BY <1>12 DEF Text!MoveRow, Text!Rows
  <2> QED
    BY <1>12, <2>1, <2>2 DEF Text!MoveRow
<1>13. CASE Text!BlankRow
  BY <1>13 DEF Text!BlankRow
<1>14. CASE Text!Home
  BY <1>14 DEF Text!Home, Text!Rows, Text!Cols
<1>15. CASE Text!Back
  BY <1>15 DEF Text!Back, Text!Rows, Text!Cols
<1>16. CASE Text!BackY
  BY <1>16 DEF Text!BackY
<1>17. CASE Text!BackScrolls
  BY <1>17 DEF Text!BackScrolls, Text!Rows
<1>18. CASE Text!AimBlank
  BY <1>18 DEF Text!AimBlank, Text!Cells
<1>19. CASE Text!StoreBlank
  BY <1>19 DEF Text!StoreBlank
<1>20. CASE Text!CtrlL
  <2>1. ink' \subseteq Text!Cells
    BY <1>20, ScrolledUpCells DEF Text!CtrlL
  <2>2. screen_y' \in Text!Rows /\ (screen_y + 1 \in Text!Rows => screen_y' + 1 \in Text!Rows)
    BY <1>20 DEF Text!CtrlL, Text!Rows
  <2> QED
    BY <1>20, <2>1, <2>2 DEF Text!CtrlL
<1>21. CASE UNCHANGED Text!vars
  BY <1>21 DEF Text!vars, Text!Cols, Text!Rows
<1> QED
  BY <1>1, <1>2, <1>3, <1>4, <1>5, <1>6, <1>7, <1>8, <1>9, <1>10, <1>11, <1>12,
     <1>13, <1>14, <1>15, <1>16, <1>17, <1>18, <1>19, <1>20, <1>21 DEF Text!Next

\* The invariant holds throughout.
LEMMA TextInvariance == ASSUME Text!HasSize PROVE Text!Spec => []Text!IInv
<1>1. Text!Init => Text!IInv
  BY TextInitInv
<1>2. Text!IInv /\ [Text!Next]_(Text!vars) => Text!IInv'
  BY TextStepInv
<1> QED
  BY <1>1, <1>2, PTL DEF Text!Spec

\* lib.c never moves the cursor off the screen or writes outside of it,
\* whatever its size.
THEOREM CursorInBoundsHolds ==
    ASSUME Text!HasSize PROVE Text!Spec => [](Text!TypeOK /\ Text!CursorInBounds)
<1>1. Text!IInv => Text!TypeOK /\ Text!CursorInBounds
  BY DEF Text!HasSize, Text!IInv, Text!TypeOK, Text!CursorInBounds, Text!Cells, Text!Rows, Text!Cols
<1>2. Text!Spec => []Text!IInv
  BY TextInvariance
<1> QED
  BY <1>1, <1>2, PTL

\* Rows and columns of ink are numbers on the screen.
LEMMA InkPlaces ==
    ASSUME Text!HasSize, Text!IInv
    PROVE  /\ \A cell \in ink : cell[1] \in Text!Rows /\ cell[2] \in Text!Cols /\ cell = <<cell[1], cell[2]>>
           /\ screen_x \in Text!Cols /\ screen_y \in Text!Rows
BY DEF Text!IInv, Text!CursorInBounds, Text!Cells

\* Writing, moving on and breaking the line.
LEMMA WritingBefore ==
    ASSUME Text!HasSize, Text!IInv, Text!TextBefore,
           Text!Aim \/ Text!Store \/ Text!Advance \/ Text!SetY \/ Text!AdvanceScrolls \/ Text!AdvanceWraps
              \/ Text!Wrap
    PROVE  Text!TextBefore'
<1>1. /\ \A cell \in ink : cell[1] \in Text!Rows /\ cell[2] \in Text!Cols
      /\ screen_x \in Text!Cols /\ screen_y \in Text!Rows
    BY InkPlaces
<1> USE DEF Text!TextBefore, Text!Before, Text!Goto
<1>2. CASE Text!Aim
    BY <1>2 DEF Text!Aim
<1>3. CASE Text!Store
    BY <1>1, <1>3 DEF Text!Store, Text!Rows, Text!Cols
<1>4. CASE Text!Advance
    BY <1>1, <1>4 DEF Text!Advance
<1>5. CASE Text!SetY
    BY <1>5 DEF Text!SetY
<1>6. CASE Text!AdvanceScrolls
    BY <1>6 DEF Text!AdvanceScrolls, Text!Scroll
<1>7. CASE Text!AdvanceWraps
    BY <1>1, <1>7 DEF Text!AdvanceWraps, Text!Rows, Text!Cols
<1>8. CASE Text!Wrap
    BY <1>8 DEF Text!Wrap
<1> QED
    BY <1>2, <1>3, <1>4, <1>5, <1>6, <1>7, <1>8

\* Newlines, and scrolling up by a row.
LEMMA FeedingBefore ==
    ASSUME Text!HasSize, Text!IInv, Text!TextBefore,
           Text!NewlineScrolls \/ Text!Newline \/ Text!Feed \/ Text!SetYX \/ Text!MoveRow \/ Text!BlankRow
              \/ Text!Home
    PROVE  Text!TextBefore'
<1>1. /\ \A cell \in ink : cell[1] \in Text!Rows /\ cell[2] \in Text!Cols
      /\ screen_x \in Text!Cols /\ screen_y \in Text!Rows /\ after \in {"idle", "aimBlank"}
    BY InkPlaces DEF Text!IInv
<1> USE DEF Text!TextBefore, Text!Before, Text!Goto
<1>2. CASE Text!NewlineScrolls
    BY <1>2 DEF Text!NewlineScrolls, Text!Scroll
<1>3. CASE Text!Newline
    BY <1>3 DEF Text!Newline
<1>4. CASE Text!Feed
    BY <1>1, <1>4 DEF Text!Feed, Text!Rows
<1>5. CASE Text!SetYX
    BY <1>5 DEF Text!SetYX
<1>6. CASE Text!MoveRow
    BY <1>6 DEF Text!MoveRow
<1>7. CASE Text!BlankRow
    BY <1>1, <1>7 DEF Text!BlankRow, Text!InRow
<1>8. CASE Text!Home
    BY <1>1, <1>8 DEF Text!Home, Text!HasSize, Text!Rows
<1> QED
    BY <1>2, <1>3, <1>4, <1>5, <1>6, <1>7, <1>8

\* Going back a place, and ctrl+L.
LEMMA ErasingBefore ==
    ASSUME Text!HasSize, Text!IInv, Text!TextBefore,
           Text!Back \/ Text!BackY \/ Text!BackScrolls \/ Text!AimBlank \/ Text!StoreBlank \/ Text!CtrlL
    PROVE  Text!TextBefore'
<1>1. /\ \A cell \in ink : cell[1] \in Text!Rows /\ cell[2] \in Text!Cols /\ cell = <<cell[1], cell[2]>>
      /\ screen_x \in Text!Cols /\ screen_y \in Text!Rows
    BY InkPlaces
<1> USE DEF Text!TextBefore, Text!Before, Text!Goto
<1>2. CASE Text!Back
    BY <1>1, <1>2 DEF Text!Back, Text!HasSize, Text!Rows, Text!Cols
<1>3. CASE Text!BackY
    BY <1>3 DEF Text!BackY
<1>4. CASE Text!BackScrolls
    BY <1>4 DEF Text!BackScrolls, Text!Scroll
<1>5. CASE Text!AimBlank
    BY <1>5 DEF Text!AimBlank
<1>6. CASE Text!StoreBlank
    BY <1>1, <1>6 DEF Text!StoreBlank, Text!Rows, Text!Cols
<1>7. CASE Text!CtrlL
    <2>1. CASE pc = "idle" /\ calls = "whole"
        <3>1. \A cell \in ink : cell[1] >= screen_y => cell[1] = screen_y /\ cell[2] < screen_x
            BY <1>1, <2>1 DEF Text!Rows
        <3>2. \A cell \in ink' : cell[1] = 0 /\ cell[2] < screen_x
            BY <1>1, <1>7, <3>1 DEF Text!CtrlL, Text!ScrolledUp, Text!Rows
        <3> QED
            BY <1>7, <2>1, <3>2 DEF Text!CtrlL
    <2>2. CASE ~(pc = "idle" /\ calls = "whole")
        BY <1>7, <2>2 DEF Text!CtrlL
    <2> QED
        BY <2>1, <2>2
<1> QED
    BY <1>2, <1>3, <1>4, <1>5, <1>6, <1>7

\* The screen is well-formed, the cursor on it, and when a call has returned
\* nothing stands at the cursor or after it, through wraps, scrolls,
\* backspaces over line ends and ctrl+L between calls, on a screen of any
\* size.
THEOREM TextSafetyHolds ==
    ASSUME Text!HasSize PROVE Text!Spec => []Text!TextSafety
<1>1. Text!Init => Text!TextBefore
    BY DEF Text!Init, Text!TextBefore, Text!Before
<1>2. Text!IInv /\ Text!TextBefore /\ [Text!Next]_(Text!vars) => Text!TextBefore'
    <2>1. UNCHANGED Text!vars /\ Text!TextBefore => Text!TextBefore'
        BY DEF Text!vars, Text!TextBefore, Text!Before
    <2> QED
        BY <2>1, WritingBefore, FeedingBefore, ErasingBefore DEF Text!Next
<1>3. Text!TextBefore => Text!TailBlank
    BY DEF Text!TextBefore, Text!Before, Text!TailBlank
<1> QED
    BY <1>1, <1>2, <1>3, TextInvariance, CursorInBoundsHolds, PTL DEF Text!Spec, Text!TextSafety

\* While another part runs, the screen rests.
LEMMA TextPart == ConsoleSpec => Text!Spec
<1>1. ConsoleInit => Text!Init
    BY DEF ConsoleInit
<1>2. [ConsoleNext]_console => [Text!Next]_(Text!vars)
    BY DEF ConsoleNext, OfKeyboard, OfLine, OfText, console, textVars, Text!vars
<1> QED
    BY <1>1, <1>2, PTL DEF ConsoleSpec, Text!Spec

(* In the console too, whatever characters are written, erased and cleared *)
(* in whatever order, the cursor stays on the screen, and nothing stands   *)
(* at it or after it as long as ctrl+L has come between calls only:        *)
(* Screen's TextSafety (lib.c:170-300).                                    *)
THEOREM ConsoleText == ASSUME Text!HasSize PROVE ConsoleSpec => []TextSafety
<1>1. Text!Spec => []Text!TextSafety
    BY TextSafetyHolds
<1> QED
    BY <1>1, TextPart, PTL DEF TextSafety

-----------------------------------------------------------------------------
(* The line, as a part of the console.                                     *)

\* The least element is the one no other is less than.
LEMMA MinIs ==
    ASSUME NEW S \in SUBSET Int, NEW e \in S, \A y \in S : e <= y
    PROVE  Line!Min(S) = e
<1>1. \A x \in S : (\A y \in S : x <= y) => x = e
    BY SMT
<1> QED
    BY <1>1 DEF Line!Min

\* A run ends at the first byte that stops it.
LEMMA RunIs ==
    ASSUME NEW s, NEW a \in Int, NEW b \in Int, NEW Stops, NEW e \in a .. b,
           e = b \/ s[e] \in Stops, \A x \in a .. (e - 1) : s[x] \notin Stops
    PROVE  Line!Run(s, a, b, Stops) = Line!Slice(s, a, e)
<1> DEFINE Ends == {x \in a .. b : x = b \/ s[x] \in Stops}
<1>1. Ends \in SUBSET Int /\ e \in Ends
    OBVIOUS
<1>2. \A y \in Ends : e <= y
    OBVIOUS
<1>3. Line!Min(Ends) = e
    <2> HIDE DEF Ends
    <2> QED
        BY <1>1, <1>2, MinIs
<1> QED
    BY <1>3 DEF Line!Run

\* A set of naturals has a least element.
LEMMA LeastIs ==
    ASSUME NEW S \in SUBSET Nat, S # {}
    PROVE  \E e \in S : \A y \in S : e <= y
<1> DEFINE Less == OpToRel(<, Nat)
<1>1. \A x, y \in Nat : y < x => <<y, x>> \in Less
    BY Zenon DEF OpToRel
<1>2. \E e \in S : \A y \in S : ~(<<y, e>> \in Less)
    <2>1. IsWellFoundedOn(Less, Nat)
        BY NatLessThanWellFounded, Zenon
    <2> HIDE DEF Less
    <2> QED
        BY <2>1, WFMin
<1>3. PICK e \in S : \A y \in S : ~(<<y, e>> \in Less)
    BY <1>2
<1>4. ASSUME NEW y \in S PROVE e <= y
    <2>1. e \in Nat /\ y \in Nat
        OBVIOUS
    <2>2. ~(y < e)
        BY <1>1, <1>3, <2>1, Zenon
    <2> QED
        BY <2>1, <2>2, SMT
<1> QED
    BY <1>4

\* The first bytes of a buffer are a line when they are so one by one.
LEMMA PrefixIs ==
    ASSUME NEW S, NEW bytes, NEW n \in Nat, NEW s \in Seq(S)
    PROVE  Line!Slice(bytes, 0, n) = s
               <=> Len(s) = n /\ \A k \in 1 .. n : s[k] = bytes[k - 1]
<1>1. s \in [1 .. Len(s) -> S] /\ Len(s) \in Nat
    BY LenProperties
<1>2. CASE Line!Slice(bytes, 0, n) = s
    <2>1. DOMAIN s = 1 .. n
        BY <1>2 DEF Line!Slice
    <2>2. DOMAIN s = 1 .. Len(s)
        BY <1>1
    <2>3. 1 .. n = 1 .. Len(s)
        BY <2>1, <2>2
    <2>4. ASSUME NEW m \in Nat, 1 .. n = 1 .. m PROVE m = n
        <3>1. m = 0 \/ m \in 1 .. n
            BY <2>4
        <3>2. n = 0 \/ n \in 1 .. m
            BY <2>4
        <3> QED
            BY <3>1, <3>2
    <2>6. Len(s) = n
        BY <1>1, <2>3, <2>4
    <2> QED
        BY <1>2, <2>6 DEF Line!Slice
<1>3. CASE Len(s) = n /\ \A k \in 1 .. n : s[k] = bytes[k - 1]
    BY <1>1, <1>3 DEF Line!Slice
<1> QED
    BY <1>2, <1>3

\* The shell's newline is cut off: what remains is the line and a NUL.
LEMMA CommandIs ==
    ASSUME Line!LineAssumption, Line!IInv, phase = "command", Line!FromShell
    PROVE  /\ Line!Command \in [Line!Indices -> Line!Bytes]
           /\ Len(line) \in 0 .. MAX_BUF_FILL
           /\ Line!Command[Len(line)] = Line!NUL
           /\ \A x \in 0 .. Len(line) - 1 : Line!Command[x] = line[x + 1]
<1> DEFINE Chars == Letters \cup {Line!Space}
<1>1. line \in Seq(Chars) /\ Len(line) \in Nat
    BY DEF Line!IInv, Line!LineSafety, Line!TypeOK
<1>2. ret = Len(line) + 1 /\ Line!Slice(buf, 0, ret) = Append(line, Line!Newline)
    BY DEF Line!IInv, Line!LineSafety, Line!LineIsReturned
<1>3. \A k \in 1 .. ret : buf[k - 1] = Append(line, Line!Newline)[k]
    <2>1. \A k \in 1 .. ret : Line!Slice(buf, 0, ret)[k] = buf[k - 1]
        BY <1>1, <1>2 DEF Line!Slice
    <2> QED
        BY <1>2, <2>1
<1>4. buf[ret - 1] = Line!Newline /\ \A x \in 0 .. Len(line) - 1 : buf[x] = line[x + 1]
    BY <1>1, <1>2, <1>3
<1>5. Len(line) <= MAX_BUF_FILL
    <2>1. ret <= MAX_BUF_FILL + 1 /\ MAX_BUF_FILL \in Nat
        BY DEF Line!IInv, Line!LineSafety, Line!BytesBounded, Line!LineAssumption
    <2> QED
        BY <1>1, <1>2, <2>1
<1>6. Line!Command = [buf EXCEPT ![Len(line)] = Line!NUL]
    <2>1. ret > 0 /\ ret - 1 = Len(line)
        BY <1>1, <1>2
    <2> QED
        BY <1>4, <2>1 DEF Line!Command
<1> QED
    BY <1>1, <1>4, <1>5, <1>6 DEF Line!IInv, Line!LineSafety, Line!TypeOK, Line!Indices, Line!Bytes, Line!LineAssumption

\* The first word of a line is the longest beginning without a space.
LEMMA FirstWordIs ==
    ASSUME line \in Seq(Letters \cup {Line!Space})
    PROVE  /\ Line!FirstWord \in Seq(Letters \cup {Line!Space})
           /\ Len(Line!FirstWord) \in 0 .. Len(line)
           /\ \A k \in 1 .. Len(Line!FirstWord) : Line!FirstWord[k] = line[k] /\ line[k] # Line!Space
           /\ Len(Line!FirstWord) < Len(line) => line[Len(Line!FirstWord) + 1] = Line!Space
<1> DEFINE Spaces == {k \in DOMAIN line : line[k] = Line!Space}
           Chars == Letters \cup {Line!Space}
<1>1. Len(line) \in Nat /\ DOMAIN line = 1 .. Len(line) /\ \A k \in 1 .. Len(line) : line[k] \in Chars
    BY LenProperties
<1>2. CASE Spaces = {}
    <2>1. Line!FirstWord = line
        BY <1>2 DEF Line!FirstWord
    <2> QED
        BY <1>1, <1>2, <2>1
<1>3. CASE Spaces # {}
    <2>1. Spaces \in SUBSET Nat /\ Spaces \in SUBSET Int
        BY <1>1
    <2>2. PICK e \in Spaces : \A y \in Spaces : e <= y
        <3> HIDE DEF Spaces
        <3> QED
            BY <1>3, <2>1, LeastIs
    <2>3. Line!Min(Spaces) = e
        <3> HIDE DEF Spaces
        <3> QED
            BY <2>1, <2>2, MinIs
    <2>4. Line!FirstWord = SubSeq(line, 1, e - 1)
        BY <1>3, <2>3 DEF Line!FirstWord
    <2>5. e \in 1 .. Len(line) /\ line[e] = Line!Space
        BY <1>1
    <2>6. \A k \in 1 .. e - 1 : line[k] \in Chars /\ line[k] # Line!Space
        <3>1. \A k \in 1 .. e - 1 : k \in 1 .. Len(line) /\ ~(e <= k)
            BY <1>1, <2>5
        <3> QED
            BY <1>1, <2>2, <3>1
    <2>7. 1 \in Int /\ e - 1 \in Int
        BY <1>1, <2>5
    <2>8. /\ SubSeq(line, 1, e - 1) \in Seq(Chars)
          /\ Len(SubSeq(line, 1, e - 1)) = e - 1
          /\ \A k \in 1 .. e - 1 : SubSeq(line, 1, e - 1)[k] = line[k]
        <3> HIDE DEF Chars, Spaces
        <3> QED
            BY <1>1, <2>5, <2>6, <2>7, SubSeqProperties
    <2> QED
        BY <1>1, <2>4, <2>5, <2>6, <2>8
<1> QED
    BY <1>2, <1>3

\* The name is the first word, as far as a file name goes.
LEMMA NameIs ==
    ASSUME Line!LineAssumption, Line!IInv, phase = "command", Line!FromShell,
           NEW F \in Nat, F = Len(Line!FirstWord)
    PROVE  /\ Line!NameIn(Line!Command) = SubSeq(Line!FirstWord, 1, Line!Min({F, FNAME_MAX}))
           /\ Line!NameIn(Line!Command) \in Seq(Line!Bytes)
           /\ Len(Line!NameIn(Line!Command)) = Line!Min({F, FNAME_MAX})
<1> DEFINE Chars == Letters \cup {Line!Space}
           cmd == Line!Command
           e == IF F <= FNAME_MAX THEN F ELSE FNAME_MAX
<1>1. line \in Seq(Chars) /\ Len(line) \in Nat /\ FNAME_MAX \in Nat
    BY DEF Line!IInv, Line!LineSafety, Line!TypeOK, Line!LineAssumption
<1>2. e \in 0 .. FNAME_MAX /\ e \in 0 .. F
    BY <1>1
<1>3. Line!Min({F, FNAME_MAX}) = e
    <2>1. {F, FNAME_MAX} \in SUBSET Int /\ e \in {F, FNAME_MAX} /\ \A y \in {F, FNAME_MAX} : e <= y
        BY <1>1
    <2> HIDE DEF e
    <2> QED
        BY <2>1, MinIs
<1>4. /\ Line!FirstWord \in Seq(Chars) /\ F \in 0 .. Len(line)
      /\ \A k \in 1 .. F : Line!FirstWord[k] = line[k] /\ line[k] # Line!Space
      /\ F < Len(line) => line[F + 1] = Line!Space
    BY <1>1, FirstWordIs
<1>5. /\ cmd[Len(line)] = Line!NUL
      /\ \A x \in 0 .. Len(line) - 1 : cmd[x] = line[x + 1]
    BY CommandIs
<1>6. \A k \in 1 .. Len(line) : line[k] \in Chars
    BY <1>1
<1>7. \A x \in 0 .. F - 1 : cmd[x] = Line!FirstWord[x + 1] /\ cmd[x] \notin {Line!Space, Line!NUL} /\ cmd[x] \in Line!Bytes
    <2> TAKE x \in 0 .. F - 1
    <2>1. x + 1 \in 1 .. F /\ x + 1 \in 1 .. Len(line) /\ x \in 0 .. Len(line) - 1 /\ x + 1 - 1 = x
        BY <1>1, <1>4
    <2>2. cmd[x] = line[x + 1] /\ line[x + 1] \in Chars /\ line[x + 1] = Line!FirstWord[x + 1] /\ line[x + 1] # Line!Space
        BY <1>4, <1>5, <1>6, <2>1
    <2> HIDE DEF cmd
    <2> QED
        BY <2>2 DEF Line!LineAssumption, Line!Bytes, Line!Space, Line!NUL, Line!Newline, Line!Backspace
<1>8. e = FNAME_MAX \/ cmd[e] \in {Line!Space, Line!NUL}
    <2>1. CASE F <= FNAME_MAX /\ F < Len(line)
        BY <1>1, <1>4, <1>5, <2>1
    <2>2. CASE F <= FNAME_MAX /\ F = Len(line)
        BY <1>1, <1>4, <1>5, <2>2
    <2>3. CASE ~(F <= FNAME_MAX)
        BY <2>3
    <2> QED
        BY <1>1, <1>4, <2>1, <2>2, <2>3
<1>9. Line!NameIn(cmd) = [k \in 1 .. e |-> cmd[k - 1]]
    <2>1. Line!NameIn(cmd) = Line!Slice(cmd, 0, e)
        <3>1. \A x \in 0 .. e - 1 : cmd[x] \notin {Line!Space, Line!NUL}
            BY <1>2, <1>7
        <3>2. e \in 0 .. FNAME_MAX /\ 0 \in Int /\ FNAME_MAX \in Int
            BY <1>1, <1>2
        <3> HIDE DEF e, cmd
        <3> QED
            BY <1>8, <3>1, <3>2, RunIs DEF Line!NameIn
    <2> HIDE DEF e, cmd
    <2> QED
        BY <1>2, <2>1 DEF Line!Slice
<1>10. /\ SubSeq(Line!FirstWord, 1, e) \in Seq(Chars)
       /\ Len(SubSeq(Line!FirstWord, 1, e)) = e
       /\ \A k \in 1 .. e : SubSeq(Line!FirstWord, 1, e)[k] = Line!FirstWord[k]
    BY <1>2, <1>4
<1>11. \A k \in 1 .. e : cmd[k - 1] = SubSeq(Line!FirstWord, 1, e)[k]
    <2>1. \A k \in 1 .. e : k - 1 \in 0 .. F - 1 /\ k - 1 + 1 = k
        BY <1>2
    <2> HIDE DEF e, cmd
    <2> QED
        BY <1>7, <1>10, <2>1
<1>12. SubSeq(Line!FirstWord, 1, e) \in [1 .. e -> Chars]
    <2> HIDE DEF e, Chars
    <2> QED
        BY <1>10, LenProperties
<1>13. Line!NameIn(cmd) = SubSeq(Line!FirstWord, 1, e)
    <2> HIDE DEF e, cmd, Chars
    <2> QED
        BY <1>9, <1>11, <1>12
<1>14. Chars \subseteq Line!Bytes
    BY DEF Line!Bytes
<1>15. SubSeq(Line!FirstWord, 1, e) \in Seq(Line!Bytes)
    <2> HIDE DEF e, Chars
    <2> QED
        BY <1>10, <1>14, SeqMonotonic
<1> QED
    <2> HIDE DEF e, Chars
    <2> QED
        BY <1>3, <1>10, <1>13, <1>15

\* The arguments are bytes, and all that follows the first word when it is
\* followed by a space.
LEMMA ArgsIs ==
    ASSUME Line!LineAssumption, Line!IInv, phase = "command", Line!FromShell
    PROVE  /\ Line!ArgsIn(Line!Command) \in Seq(Line!Bytes)
           /\ Len(Line!FirstWord) < Len(line) /\ Len(Line!FirstWord) < FNAME_MAX
                => Line!ArgsIn(Line!Command) = SubSeq(line, Len(Line!FirstWord) + 2, Len(line))
<1> DEFINE Chars == Letters \cup {Line!Space}
           cmd == Line!Command
           F == Len(Line!FirstWord)
           a == Len(Line!NameIn(Line!Command)) + 1
<1>1. line \in Seq(Chars) /\ Len(line) \in Nat /\ FNAME_MAX \in Nat /\ MAX_BUF_FILL \in Nat /\ FNAME_MAX < MAX_BUF_FILL
    BY DEF Line!IInv, Line!LineSafety, Line!TypeOK, Line!LineAssumption
<1>2. F \in 0 .. Len(line)
    BY <1>1, FirstWordIs
<1>3. a = Line!Min({F, FNAME_MAX}) + 1
    <2>1. F \in Nat
        BY <1>1, <1>2
    <2> HIDE DEF F
    <2>2. F = Len(Line!FirstWord)
        BY DEF F
    <2> QED
        BY <2>1, <2>2, NameIs
<1>4. a \in 1 .. MAX_BUF_FILL /\ (F <= FNAME_MAX => a = F + 1)
    <2> DEFINE e == IF F <= FNAME_MAX THEN F ELSE FNAME_MAX
    <2>1. {F, FNAME_MAX} \in SUBSET Int /\ e \in {F, FNAME_MAX} /\ \A y \in {F, FNAME_MAX} : e <= y
        BY <1>1, <1>2
    <2>2. Line!Min({F, FNAME_MAX}) = e
        <3> HIDE DEF e, F
        <3> QED
            BY <2>1, MinIs
    <2> HIDE DEF F, a
    <2> QED
        BY <1>1, <1>2, <1>3, <2>2
<1>5. /\ cmd \in [Line!Indices -> Line!Bytes]
      /\ Len(line) \in 0 .. MAX_BUF_FILL
      /\ cmd[Len(line)] = Line!NUL
      /\ \A x \in 0 .. Len(line) - 1 : cmd[x] = line[x + 1]
    BY CommandIs
<1>6. Line!ArgsIn(cmd) \in Seq(Line!Bytes)
    <2> DEFINE Ends == {x \in a .. MAX_BUF_FILL : x = MAX_BUF_FILL \/ cmd[x] \in {Line!NUL}}
    <2>1. Ends \in SUBSET Nat /\ Ends \in SUBSET Int /\ MAX_BUF_FILL \in Ends
        BY <1>1, <1>4
    <2>2. PICK e \in Ends : \A y \in Ends : e <= y
        <3> HIDE DEF Ends
        <3> QED
            BY <2>1, LeastIs
    <2>3. Line!Min(Ends) = e
        <3> HIDE DEF Ends
        <3> QED
            BY <2>1, <2>2, MinIs
    <2>4. Line!ArgsIn(cmd) = Line!Slice(cmd, a, e)
        BY <2>3 DEF Line!ArgsIn, Line!Run
    <2>5. e \in a .. MAX_BUF_FILL
        OBVIOUS
    <2>6. e - a \in Nat /\ \A k \in 1 .. e - a : a + k - 1 \in Line!Indices
        <3> HIDE DEF a, Ends
        <3> QED
            BY <1>1, <1>4, <2>5 DEF Line!Indices
    <2>7. \A k \in 1 .. e - a : cmd[a + k - 1] \in Line!Bytes
        <3> HIDE DEF a, Ends, cmd
        <3> QED
            BY <1>5, <2>6
    <2>8. Line!Slice(cmd, a, e) \in Seq(Line!Bytes)
        <3> HIDE DEF a, Ends, cmd
        <3> QED
            BY <2>6, <2>7 DEF Line!Slice
    <2> QED
        BY <2>4, <2>8
<1>7. ASSUME F < Len(line), F < FNAME_MAX PROVE Line!ArgsIn(cmd) = SubSeq(line, F + 2, Len(line))
    <2>1. a = F + 1 /\ Len(line) \in a .. MAX_BUF_FILL /\ a \in Int /\ MAX_BUF_FILL \in Int
        BY <1>1, <1>2, <1>4, <1>5, <1>7
    <2>2. \A k \in 1 .. Len(line) : line[k] \in Chars
        BY <1>1
    <2>3. \A x \in a .. Len(line) - 1 : cmd[x] \notin {Line!NUL}
        <3> TAKE x \in a .. Len(line) - 1
        <3>1. x + 1 \in 1 .. Len(line) /\ x \in 0 .. Len(line) - 1
            BY <1>1, <1>2, <2>1
        <3>2. cmd[x] = line[x + 1] /\ line[x + 1] \in Chars
            BY <1>5, <2>2, <3>1
        <3> HIDE DEF cmd
        <3> QED
            BY <3>2 DEF Line!LineAssumption, Line!Space, Line!NUL, Line!Newline, Line!Backspace
    <2>4. Line!ArgsIn(cmd) = Line!Slice(cmd, a, Len(line))
        <3>1. cmd[Len(line)] \in {Line!NUL}
            BY <1>5
        <3>2. Line!Run(cmd, a, MAX_BUF_FILL, {Line!NUL}) = Line!Slice(cmd, a, Len(line))
            <4> HIDE DEF a, cmd
            <4> QED
                BY <2>1, <2>3, <3>1, RunIs
        <3> QED
            BY <3>2 DEF Line!ArgsIn
    <2>5. Line!Slice(cmd, a, Len(line)) = [k \in 1 .. Len(line) - F - 1 |-> line[F + 1 + k]]
        <3>1. Len(line) - a = Len(line) - F - 1
            BY <1>1, <1>2, <2>1
        <3>2. \A k \in 1 .. Len(line) - a : cmd[a + k - 1] = line[F + 1 + k]
            <4> TAKE k \in 1 .. Len(line) - a
            <4>1. a + k - 1 \in 0 .. Len(line) - 1 /\ a + k - 1 + 1 = F + 1 + k
                BY <1>1, <1>2, <2>1
            <4> HIDE DEF a, cmd
            <4> QED
                BY <1>5, <4>1
        <3> HIDE DEF a, cmd, F
        <3> QED
            BY <3>1, <3>2 DEF Line!Slice
    <2>6. SubSeq(line, F + 2, Len(line)) = [k \in 1 .. Len(line) - F - 1 |-> line[F + 1 + k]]
        <3> HIDE DEF F
        <3>1. Len(line) - (F + 2) + 1 = Len(line) - F - 1 /\ \A k \in 1 .. Len(line) - F - 1 : F + 2 + k - 1 = F + 1 + k
            BY <1>1, <1>2
        <3>2. SubSeq(line, F + 2, Len(line)) = [k \in 1 .. (Len(line) - (F + 2) + 1) |-> line[(F + 2) + k - 1]]
            BY <1>1, <1>2
        <3> QED
            BY <3>1, <3>2
    <2> QED
        BY <2>4, <2>5, <2>6
<1> QED
    BY <1>6, <1>7

\* The first states satisfy the line's invariant.
LEMMA LineInitInv == Line!LineAssumption /\ Line!Init => Line!IInv
BY EmptySeq DEF Line!LineAssumption, Line!Init, Line!IInv, Line!LineSafety, Line!InCount, Line!TypeOK, Line!Indices,
   Line!Bytes, Line!LineIsEdited, Line!LineIsReturned, Line!BytesBounded, Line!NameAsTyped, Line!ArgsAfterSpace

\* A key that is taken keeps the buffer and the line the same.
LEMMA TakenInv ==
    ASSUME Line!LineAssumption, Line!IInv,
           (\E c \in Letters \cup {Line!Space} : Line!Type(c)) \/ Line!Erase
    PROVE  Line!IInv'
<1> DEFINE Chars == Letters \cup {Line!Space}
<1> USE DEF Line!LineAssumption, Line!Take
<1>1. /\ phase = "reading" /\ i \in 0 .. MAX_BUF_FILL - 1 /\ MAX_BUF_FILL \in Nat
      /\ nbytes \in Int /\ nbytes <= MAX_BUF_FILL /\ (nbytes >= 0 => i <= nbytes)
      /\ buf \in [Line!Indices -> Line!Bytes] /\ line \in Seq(Chars) /\ keys \in Nat
    BY DEF Line!IInv, Line!LineSafety, Line!TypeOK, Line!Room, Line!Type, Line!Erase, Line!Indices
<1>2. Len(line) = i /\ \A k \in 1 .. i : line[k] = buf[k - 1]
    <2>1. Line!Slice(buf, 0, i) = line /\ i \in Nat
        BY <1>1 DEF Line!IInv, Line!LineSafety, Line!LineIsEdited
    <2> QED
        BY <1>1, <2>1, PrefixIs
<1>3. /\ phase' = "reading" /\ nbytes' = nbytes /\ ret' = ret /\ fname' = fname /\ args' = args
      /\ keys' \in Nat
    BY <1>1 DEF Line!Type, Line!Erase
<1>4. /\ i' \in 0 .. i + 1 /\ buf' \in [Line!Indices -> Line!Bytes] /\ line' \in Seq(Chars)
      /\ Len(line') = i' /\ \A k \in 1 .. i' : line'[k] = buf'[k - 1]
    <2>1. ASSUME NEW c \in Chars, Line!Type(c)
          PROVE  /\ i' \in 0 .. i + 1 /\ buf' \in [Line!Indices -> Line!Bytes] /\ line' \in Seq(Chars)
                 /\ Len(line') = i' /\ \A k \in 1 .. i' : line'[k] = buf'[k - 1]
        <3>1. c \notin {Line!Newline, Line!Backspace} /\ c \in Line!Bytes
            BY DEF Line!Space, Line!Newline, Line!Backspace, Line!NUL, Line!Bytes
        <3>2. line' = Append(line, c) /\ buf' = [buf EXCEPT ![i] = c] /\ i' = i + 1 /\ i \in Line!Indices
            BY <1>1, <2>1, <3>1 DEF Line!Type, Line!Edit, Line!Indices
        <3>3. /\ Append(line, c) \in Seq(Chars) /\ Len(Append(line, c)) = i + 1
              /\ \A k \in 1 .. i : Append(line, c)[k] = line[k]
              /\ Append(line, c)[i + 1] = c
            BY <1>1, <1>2
        <3>4. buf' \in [Line!Indices -> Line!Bytes] /\ buf'[i] = c /\ \A k \in 1 .. i : buf'[k - 1] = buf[k - 1]
            <4>1. \A k \in 1 .. i : k - 1 \in Line!Indices /\ k - 1 # i
                BY <1>1 DEF Line!Indices
            <4> QED
                BY <1>1, <3>1, <3>2, <4>1
        <3>5. \A k \in 1 .. i + 1 : Append(line, c)[k] = buf'[k - 1]
            <4> TAKE k \in 1 .. i + 1
            <4>1. k \in 1 .. i \/ (k = i + 1 /\ k - 1 = i)
                BY <1>1
            <4> QED
                BY <1>2, <3>3, <3>4, <4>1
        <3> QED
            BY <1>1, <3>2, <3>3, <3>4, <3>5
    <2>2. ASSUME Line!Erase
          PROVE  /\ i' \in 0 .. i + 1 /\ buf' \in [Line!Indices -> Line!Bytes] /\ line' \in Seq(Chars)
                 /\ Len(line') = i' /\ \A k \in 1 .. i' : line'[k] = buf'[k - 1]
        <3>1. line' = (IF line = << >> THEN line ELSE Line!Front(line)) /\ buf' = buf /\ i' = IF i = 0 THEN 0 ELSE i - 1
            <4>1. Line!Edit(line, Line!Backspace) = IF line = << >> THEN line ELSE Line!Front(line)
                BY DEF Line!Edit, Line!Backspace, Line!Newline
            <4>2. line' = Line!Edit(line, Line!Backspace)
                BY <2>2 DEF Line!Erase
            <4>3. buf' = buf /\ i' = IF i = 0 THEN 0 ELSE i - 1
                BY <2>2 DEF Line!Erase
            <4> QED
                BY <4>1, <4>2, <4>3
        <3>2. CASE i = 0
            <4>1. line = << >>
                BY <1>1, <1>2, <3>2
            <4> QED
                BY <1>1, <1>2, <3>1, <3>2, <4>1
        <3>3. CASE i # 0
            <4>1. line # << >> /\ line' = SubSeq(line, 1, i - 1) /\ i' = i - 1
                BY <1>1, <1>2, <3>1, <3>3 DEF Line!Front
            <4>2. /\ SubSeq(line, 1, i - 1) \in Seq(Chars) /\ Len(SubSeq(line, 1, i - 1)) = i - 1
                  /\ \A k \in 1 .. i - 1 : SubSeq(line, 1, i - 1)[k] = line[k]
                BY <1>1, <1>2, <3>3
            <4>3. \A k \in 1 .. i - 1 : k \in 1 .. i
                BY <1>1
            <4> QED
                BY <1>1, <1>2, <3>1, <3>3, <4>1, <4>2, <4>3
        <3> QED
            BY <3>2, <3>3
    <2> QED
        BY <2>1, <2>2
<1>5. Line!Slice(buf', 0, i') = line'
    <2>1. i' \in Nat
        BY <1>1, <1>4
    <2> QED
        BY <1>4, <2>1, PrefixIs
<1>6. Line!TypeOK'
    BY <1>1, <1>3, <1>4 DEF Line!IInv, Line!LineSafety, Line!TypeOK, Line!Indices
<1>7. Line!BytesBounded' /\ Line!InCount'
    BY <1>1, <1>3, <1>4 DEF Line!BytesBounded, Line!InCount
<1>8. Line!LineIsEdited' /\ Line!LineIsReturned' /\ Line!NameAsTyped' /\ Line!ArgsAfterSpace'
    BY <1>3, <1>5 DEF Line!LineIsEdited, Line!LineIsReturned, Line!NameAsTyped, Line!ArgsAfterSpace
<1> QED
    BY <1>6, <1>7, <1>8 DEF Line!IInv, Line!LineSafety

\* The end of a line returns the line that was seen, and a newline.
LEMMA EndedInv ==
    ASSUME Line!LineAssumption, Line!IInv, Line!Enter \/ Line!Full
    PROVE  Line!IInv'
<1> DEFINE Chars == Letters \cup {Line!Space}
<1> USE DEF Line!LineAssumption, Line!Take
<1>1. /\ phase = "reading" /\ i \in 0 .. MAX_BUF_FILL /\ MAX_BUF_FILL \in Nat
      /\ nbytes \in Int /\ nbytes <= MAX_BUF_FILL /\ (nbytes >= 0 => i <= nbytes + 1)
      /\ buf \in [Line!Indices -> Line!Bytes] /\ line \in Seq(Chars) /\ keys \in Nat
    BY DEF Line!IInv, Line!LineSafety, Line!TypeOK, Line!InCount, Line!Enter, Line!Full, Line!Indices
<1>2. Len(line) = i /\ \A k \in 1 .. i : line[k] = buf[k - 1]
    <2>1. Line!Slice(buf, 0, i) = line /\ i \in Nat
        BY <1>1 DEF Line!IInv, Line!LineSafety, Line!LineIsEdited
    <2> QED
        BY <1>1, <2>1, PrefixIs
<1>3. /\ phase' = "command" /\ nbytes' = nbytes /\ ret' = i + 1 /\ i' = i + 1 /\ fname' = fname /\ args' = args
      /\ buf' = Line!Ended
    BY DEF Line!Enter, Line!Full, Line!EndLine
<1>4. line' = line /\ keys' \in Nat
    <2>1. Line!Edit(line, Line!Newline) = line
        BY DEF Line!Edit, Line!Backspace, Line!Newline
    <2> QED
        BY <1>1, <2>1 DEF Line!Enter, Line!Full
<1>5. /\ buf' \in [Line!Indices -> Line!Bytes] /\ buf'[i] = Line!Newline
      /\ \A k \in 1 .. i : buf'[k - 1] = buf[k - 1]
    <2>1. \A k \in 1 .. i : k - 1 \in Line!Indices /\ k - 1 # i /\ ~(i + 2 <= k - 1)
        BY <1>1 DEF Line!Indices
    <2>2. i \in Line!Indices
        BY <1>1 DEF Line!Indices
    <2>3. Line!Ended \in [Line!Indices -> Line!Bytes]
        BY <1>1 DEF Line!Ended, Line!Bytes
    <2>4. Line!Ended[i] = Line!Newline
        BY <1>1, <2>2 DEF Line!Ended
    <2>5. \A x \in Line!Indices : x # i /\ ~(i + 2 <= x) => Line!Ended[x] = buf[x]
        BY DEF Line!Ended
    <2>6. \A k \in 1 .. i : Line!Ended[k - 1] = buf[k - 1]
        BY <2>1, <2>5
    <2> QED
        BY <1>3, <2>3, <2>4, <2>6
<1>6. Line!Slice(buf', 0, i + 1) = Append(line, Line!Newline)
    <2>1. /\ Append(line, Line!Newline) \in Seq(Line!Bytes) /\ Len(Append(line, Line!Newline)) = i + 1
          /\ \A k \in 1 .. i : Append(line, Line!Newline)[k] = line[k]
          /\ Append(line, Line!Newline)[i + 1] = Line!Newline
        <3>1. line \in Seq(Line!Bytes)
            BY <1>1, SeqMonotonic DEF Line!Bytes
        <3> QED
            BY <1>2, <3>1, AppendProperties DEF Line!Bytes
    <2>2. \A k \in 1 .. i + 1 : Append(line, Line!Newline)[k] = buf'[k - 1]
        <3> TAKE k \in 1 .. i + 1
        <3>1. k \in 1 .. i \/ (k = i + 1 /\ k - 1 = i)
            BY <1>1
        <3> QED
            BY <1>2, <1>5, <2>1, <3>1
    <2> DEFINE n == i + 1
               t == Append(line, Line!Newline)
    <2>3. n \in Nat
        BY <1>1
    <2>4. t \in Seq(Line!Bytes) /\ Len(t) = n /\ \A k \in 1 .. n : t[k] = buf'[k - 1]
        BY <2>1, <2>2
    <2>5. Line!Slice(buf', 0, n) = t
        <3> HIDE DEF n, t
        <3> QED
            BY <2>3, <2>4, PrefixIs
    <2> QED
        BY <2>5
<1>7. Line!TypeOK'
    BY <1>1, <1>3, <1>4, <1>5 DEF Line!IInv, Line!LineSafety, Line!TypeOK, Line!Indices
<1>8. Line!BytesBounded' /\ Line!InCount'
    BY <1>1, <1>3, <1>4 DEF Line!BytesBounded, Line!InCount
<1>9. Line!LineIsEdited' /\ Line!LineIsReturned' /\ Line!NameAsTyped' /\ Line!ArgsAfterSpace'
    BY <1>2, <1>3, <1>4, <1>6 DEF Line!LineIsEdited, Line!LineIsReturned, Line!NameAsTyped, Line!ArgsAfterSpace
<1> QED
    BY <1>7, <1>8, <1>9 DEF Line!IInv, Line!LineSafety

\* create_process finds the name and the arguments in the line.
LEMMA ParsedInv ==
    ASSUME Line!LineAssumption, Line!IInv, Line!Parse
    PROVE  Line!IInv'
<1> DEFINE F == Len(Line!FirstWord)
<1>1. phase = "command" /\ Line!FromShell /\ Line!TypeOK
    BY DEF Line!Parse, Line!IInv, Line!LineSafety
<1>2. /\ phase' = "parsed" /\ UNCHANGED <<nbytes, i, ret, line, keys>>
      /\ buf' = Line!Command /\ fname' = Line!NameIn(Line!Command) /\ args' = Line!ArgsIn(Line!Command)
    BY DEF Line!Parse
<1>3. buf' \in [Line!Indices -> Line!Bytes]
    BY <1>1, <1>2, CommandIs
<1>4. line \in Seq(Letters \cup {Line!Space}) /\ F \in Nat
    BY <1>1, FirstWordIs DEF Line!TypeOK
<1>5. fname' = SubSeq(Line!FirstWord, 1, Line!Min({F, FNAME_MAX})) /\ fname' \in Seq(Line!Bytes)
    <2>1. F = Len(Line!FirstWord)
        OBVIOUS
    <2> HIDE DEF F
    <2> QED
        BY <1>1, <1>2, <1>4, <2>1, NameIs
<1>6. /\ args' \in Seq(Line!Bytes)
      /\ F < Len(line) /\ F < FNAME_MAX => args' = SubSeq(line, F + 2, Len(line))
    BY <1>1, <1>2, ArgsIs
<1>7. Line!FirstWord' = Line!FirstWord
    BY <1>2 DEF Line!FirstWord
<1>8. Line!TypeOK'
    BY <1>1, <1>2, <1>3, <1>5, <1>6 DEF Line!TypeOK
<1>9. Line!BytesBounded' /\ Line!InCount' /\ Line!LineIsEdited' /\ Line!LineIsReturned'
    BY <1>1, <1>2 DEF Line!BytesBounded, Line!InCount, Line!LineIsEdited, Line!LineIsReturned,
       Line!IInv, Line!LineSafety
<1>10. Line!NameAsTyped' /\ Line!ArgsAfterSpace'
    BY <1>2, <1>5, <1>6, <1>7 DEF Line!NameAsTyped, Line!ArgsAfterSpace
<1> QED
    BY <1>8, <1>9, <1>10 DEF Line!IInv, Line!LineSafety

\* A new line is empty.
LEMMA ReadInv ==
    ASSUME Line!LineAssumption, Line!IInv, NEW asked \in Sizes \cup {ShellSize}, Line!Read(asked)
    PROVE  Line!IInv'
<1>0. Line!TypeOK /\ MAX_BUF_FILL \in Nat
    BY DEF Line!IInv, Line!LineSafety, Line!LineAssumption
<1>1. Line!Cap(asked) \in Int /\ Line!Cap(asked) <= MAX_BUF_FILL
    BY DEF Line!Cap, Line!LineAssumption
<1>2. /\ phase' = "reading" /\ nbytes' \in Int /\ nbytes' <= MAX_BUF_FILL
      /\ i' = 0 /\ line' = << >> /\ keys' = 0 /\ UNCHANGED <<buf, ret, fname, args>>
    BY <1>1 DEF Line!Read
<1>3. << >> \in Seq(Letters \cup {Line!Space}) /\ Len(<< >>) = 0
    BY EmptySeq
<1>4. Line!TypeOK'
    BY <1>0, <1>2, <1>3 DEF Line!TypeOK, Line!Indices
<1>5. Line!Slice(buf', 0, i') = line'
    <2>1. i' \in Nat /\ line' \in Seq(Letters \cup {Line!Space}) /\ Len(line') = i'
        BY <1>2, <1>3
    <2>2. \A k \in 1 .. i' : line'[k] = buf'[k - 1]
        BY <1>2
    <2> QED
        BY <2>1, <2>2, PrefixIs
<1>6. Line!BytesBounded' /\ Line!InCount'
    <2>1. \A m \in Int : m >= 0 => 0 <= m + 1
        OBVIOUS
    <2>2. 0 <= MAX_BUF_FILL
        BY <1>0
    <2>3. i' <= MAX_BUF_FILL /\ (nbytes' >= 0 => i' <= nbytes' + 1)
        BY <1>2, <2>1, <2>2, Zenon
    <2> QED
        BY <1>2, <2>3 DEF Line!BytesBounded, Line!InCount
<1>7. Line!LineIsEdited' /\ Line!LineIsReturned' /\ Line!NameAsTyped' /\ Line!ArgsAfterSpace'
    BY <1>2, <1>5 DEF Line!LineIsEdited, Line!LineIsReturned, Line!NameAsTyped, Line!ArgsAfterSpace
<1> QED
    BY <1>4, <1>6, <1>7 DEF Line!IInv, Line!LineSafety

\* Between lines nothing is promised but the types.
LEMMA BetweenInv ==
    ASSUME Line!LineAssumption, Line!IInv, Line!Blank \/ Line!Resume \/ Line!Consume
    PROVE  Line!IInv'
<1>0. Line!TypeOK /\ MAX_BUF_FILL \in Nat
    BY DEF Line!IInv, Line!LineSafety, Line!LineAssumption
<1>1. /\ phase' = "shell" /\ nbytes' = 0 /\ i' = 0 /\ ret' = 0 /\ line' = << >> /\ keys' = 0
    BY DEF Line!Blank, Line!Resume, Line!Consume
<1>2. fname' \in Seq(Line!Bytes) /\ args' \in Seq(Line!Bytes)
    BY <1>0, EmptySeq DEF Line!Blank, Line!Resume, Line!Consume, Line!TypeOK
<1>3. buf' \in [Line!Indices -> Line!Bytes]
    <2>1. CASE Line!Blank
        BY <2>1, CommandIs DEF Line!Blank
    <2>2. CASE Line!Resume
        BY <1>0, <2>2 DEF Line!Resume, Line!TypeOK
    <2>3. CASE Line!Consume
        BY <2>3 DEF Line!Consume, Line!Bytes
    <2> QED
        BY <2>1, <2>2, <2>3
<1>4. << >> \in Seq(Letters \cup {Line!Space})
    BY EmptySeq
<1>5. 0 \in 0 .. MAX_BUF_FILL /\ 0 \in Line!Indices /\ 0 \in 0 .. MAX_BUF_FILL + 2 /\ 0 \in Nat /\ 0 \in Int /\ 0 <= MAX_BUF_FILL
    BY <1>0 DEF Line!Indices
<1>6. Line!TypeOK'
    <2>1. phase' \in {"shell", "reading", "command", "parsed", "outside"}
        BY <1>1
    <2> QED
        BY <1>1, <1>2, <1>3, <1>4, <1>5, <2>1, Zenon DEF Line!TypeOK
<1> QED
    BY <1>1, <1>6 DEF Line!IInv, Line!LineSafety, Line!InCount, Line!BytesBounded, Line!LineIsEdited,
       Line!LineIsReturned, Line!NameAsTyped, Line!ArgsAfterSpace

\* A key stored outside of terminal_buf ends all promises but the types.
LEMMA OverrunInv ==
    ASSUME Line!LineAssumption, Line!IInv, Line!Overrun
    PROVE  Line!IInv'
<1>1. /\ Line!TypeOK /\ phase = "reading" /\ phase' = "outside"
      /\ UNCHANGED <<nbytes, i, buf, ret, fname, args, line, keys>>
    BY DEF Line!IInv, Line!LineSafety, Line!Overrun
<1>2. Line!TypeOK'
    BY <1>1 DEF Line!TypeOK
<1>3. nbytes < 0 \/ nbytes = MAX_BUF_FILL
    BY <1>1 DEF Line!Overrun, Line!Room, Line!TypeOK, Line!Indices, Line!LineAssumption
<1> QED
    BY <1>1, <1>2, <1>3 DEF Line!IInv, Line!LineSafety, Line!InCount, Line!BytesBounded, Line!LineIsEdited,
       Line!LineIsReturned, Line!NameAsTyped, Line!ArgsAfterSpace

\* Every step preserves the invariant.
LEMMA LineInvariance == ASSUME Line!LineAssumption PROVE Line!Spec => []Line!IInv
<1>1. Line!Init => Line!IInv
    BY LineInitInv
<1>2. Line!IInv /\ [Line!Next]_(Line!vars) => Line!IInv'
    <2>1. ASSUME Line!IInv, UNCHANGED Line!vars PROVE Line!IInv'
        BY <2>1 DEF Line!vars, Line!IInv, Line!LineSafety, Line!InCount, Line!TypeOK, Line!BytesBounded,
           Line!LineIsEdited, Line!LineIsReturned, Line!NameAsTyped, Line!ArgsAfterSpace, Line!FirstWord
    <2> QED
        BY <2>1, TakenInv, EndedInv, OverrunInv, ParsedInv, ReadInv, BetweenInv DEF Line!Next, Line!Unknown
<1> QED
    BY <1>1, <1>2, PTL DEF Line!Spec

\* While another part runs, the line rests.
LEMMA LinePart == ConsoleSpec => Line!Spec
<1>1. ConsoleInit => Line!Init
    BY DEF ConsoleInit
<1>2. [ConsoleNext]_console => [Line!Next]_(Line!vars)
    BY DEF ConsoleNext, OfKeyboard, OfLine, OfText, console, lineVars, Line!vars
<1> QED
    BY <1>1, <1>2, PTL DEF ConsoleSpec, Line!Spec

(* In the console, of whatever sizes, the line that terminal_read returns  *)
(* is the line that was edited, however many keys and erasures it took, as *)
(* long as none is stored after terminal_buf, and create_process finds in  *)
(* it the name and the arguments that were typed, whatever an older line   *)
(* left in the shell's buffer: Terminal's LineSafety (terminal.c:30-75,    *)
(* process.c:48-69).                                                       *)
THEOREM ConsoleLine == ASSUME Line!LineAssumption PROVE ConsoleSpec => []LineSafety
<1>1. Line!IInv => LineSafety
    BY DEF Line!IInv, LineSafety
<1> QED
    BY <1>1, LineInvariance, LinePart, PTL
====
