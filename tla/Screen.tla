------------------------------- MODULE Screen -------------------------------
(***************************************************************************)
(* The text screen of lib.c: putc, backspace, scrolling and the cursor,    *)
(* called by the running process with interrupts enabled, and the keyboard *)
(* handler's ctrl+L, which works on the same globals.                      *)
(*                                                                         *)
(* ctrl+L leaves screen_x as it finds it, so it makes a difference only    *)
(* between a use of screen_y and the next: those are the steps.  Scrolling *)
(* is split by rows.  A cell is blank or has ink; attribute bytes and the  *)
(* hardware's own cursor are left out.                                     *)
(***************************************************************************)
EXTENDS Integers

CONSTANTS NUM_ROWS, NUM_COLS

VARIABLES
    screen_x, screen_y,
    ink,            \* the cells that are not blank, as <<row, column>>
    pc,             \* where the running process is in putc
    reg,            \* a value of screen_y, loaded and not stored yet
    at,             \* the cell whose address has been computed
    row,            \* scroll_one_unit_down's next row
    after,          \* where scroll_one_unit_down returns to
    calls           \* history: "interrupted" once ctrl+L came inside putc

vars == <<screen_x, screen_y, ink, pc, reg, at, row, after, calls>>

Rows == 0 .. NUM_ROWS - 1
Cols == 0 .. NUM_COLS - 1
Cells == Rows \X Cols

Labels == {"idle", "store", "advance", "wrap", "feed", "setY", "setYX",
           "scroll", "home", "back", "aimBlank", "storeBlank"}

TypeOK ==
    /\ screen_x \in Int /\ screen_y \in Int
    /\ ink \subseteq Cells
    /\ pc \in Labels
    /\ reg \in Int
    /\ at \in Int \X Int
    /\ row \in Rows
    /\ after \in {"idle", "aimBlank"}
    /\ calls \in {"whole", "interrupted"}

\* After clear().
Init ==
    /\ screen_x = 0 /\ screen_y = 0
    /\ ink = {}
    /\ pc = "idle"
    /\ reg = 0 /\ at = <<0, 0>> /\ row = 0 /\ after = "idle"
    /\ calls = "whole"

\* The process goes on from one label to another.
Goto(from, to) == pc = from /\ pc' = to

\* It calls scroll_one_unit_down, to go on at label from there.
Scroll(label) == pc' = "scroll" /\ row' = 0 /\ after' = label

-----------------------------------------------------------------------------
(* putc of a character: it is written, then the cursor moves on.           *)

Aim ==
    /\ Goto("idle", "store")
    /\ at' = <<screen_y, screen_x>>
    /\ UNCHANGED <<screen_x, screen_y, ink, reg, row, after, calls>>

Store ==
    /\ Goto("store", "advance")
    /\ ink' = ink \cup {at}
    /\ UNCHANGED <<screen_x, screen_y, reg, at, row, after, calls>>

\* Variant: the last column is recognized one column late.
LastColumnLate == screen_x >= NUM_COLS

LastColumn == screen_x + 1 >= NUM_COLS

\* Within a row screen_x goes up and screen_y is stored back unchanged.
Advance ==
    /\ Goto("advance", "setY") /\ ~LastColumn
    /\ screen_x' = screen_x + 1
    /\ reg' = screen_y
    /\ UNCHANGED <<screen_y, ink, at, row, after, calls>>

SetY ==
    /\ Goto("setY", "idle")
    /\ screen_y' = reg
    /\ UNCHANGED <<screen_x, ink, reg, at, row, after, calls>>

LastRow == screen_y + 1 >= NUM_ROWS

AdvanceScrolls ==
    /\ pc = "advance" /\ LastColumn /\ LastRow
    /\ Scroll("idle")
    /\ UNCHANGED <<screen_x, screen_y, ink, reg, at, calls>>

AdvanceWraps ==
    /\ Goto("advance", "wrap") /\ LastColumn /\ ~LastRow
    /\ screen_x' = 0
    /\ UNCHANGED <<screen_y, ink, reg, at, row, after, calls>>

Wrap ==
    /\ Goto("wrap", "setY")
    /\ reg' = screen_y + 1
    /\ UNCHANGED <<screen_x, screen_y, ink, at, row, after, calls>>

(* putc of a newline.                                                      *)

NewlineScrolls ==
    /\ pc = "idle" /\ LastRow
    /\ Scroll("idle")
    /\ UNCHANGED <<screen_x, screen_y, ink, reg, at, calls>>

Newline ==
    /\ Goto("idle", "feed") /\ ~LastRow
    /\ UNCHANGED <<screen_x, screen_y, ink, reg, at, row, after, calls>>

Feed ==
    /\ Goto("feed", "setYX")
    /\ reg' = screen_y + 1
    /\ UNCHANGED <<screen_x, screen_y, ink, at, row, after, calls>>

SetYX ==
    /\ Goto("setYX", "idle")
    /\ screen_y' = reg
    /\ screen_x' = 0
    /\ UNCHANGED <<ink, reg, at, row, after, calls>>

-----------------------------------------------------------------------------
(* scroll_one_unit_down: rows move up, the last one is blanked, and the    *)
(* cursor goes to its start.                                               *)

InRow(r) == {cell \in ink : cell[1] = r}

MoveRow ==
    /\ pc = "scroll" /\ row < NUM_ROWS - 1
    /\ ink' = (ink \ InRow(row)) \cup {<<row, cell[2]>> : cell \in InRow(row + 1)}
    /\ row' = row + 1
    /\ UNCHANGED <<screen_x, screen_y, pc, reg, at, after, calls>>

\* Variant: the last row is left as it is.
BlankRowNot ==
    /\ Goto("scroll", "home") /\ row = NUM_ROWS - 1
    /\ UNCHANGED <<screen_x, screen_y, ink, reg, at, row, after, calls>>

BlankRow ==
    /\ Goto("scroll", "home") /\ row = NUM_ROWS - 1
    /\ ink' = ink \ InRow(row)
    /\ UNCHANGED <<screen_x, screen_y, reg, at, row, after, calls>>

Home ==
    /\ Goto("home", after)
    /\ screen_x' = 0
    /\ screen_y' = NUM_ROWS - 1
    /\ UNCHANGED <<ink, reg, at, row, after, calls>>

-----------------------------------------------------------------------------
(* backspace: one place back, then a blank there.  At the first column the *)
(* row asked for is the one above, which the first row does not have:      *)
(* set_cursor_position scrolls instead.                                    *)

Back ==
    /\ Goto("idle", "back")
    /\ screen_x' = IF screen_x = 0 THEN NUM_COLS - 1 ELSE screen_x - 1
    /\ reg' = IF screen_x = 0 THEN screen_y - 1 ELSE screen_y
    /\ UNCHANGED <<screen_y, ink, at, row, after, calls>>

\* Variant: the row asked for is not checked.
BackYUnchecked ==
    /\ Goto("back", "aimBlank")
    /\ screen_y' = reg
    /\ UNCHANGED <<screen_x, ink, reg, at, row, after, calls>>

BackY ==
    /\ Goto("back", "aimBlank") /\ reg \in Rows
    /\ screen_y' = reg
    /\ UNCHANGED <<screen_x, ink, reg, at, row, after, calls>>

BackScrolls ==
    /\ pc = "back" /\ reg \notin Rows
    /\ Scroll("aimBlank")
    /\ UNCHANGED <<screen_x, screen_y, ink, reg, at, calls>>

AimBlank ==
    /\ Goto("aimBlank", "storeBlank")
    /\ at' = <<screen_y, screen_x>>
    /\ UNCHANGED <<screen_x, screen_y, ink, reg, row, after, calls>>

StoreBlank ==
    /\ Goto("storeBlank", "idle")
    /\ ink' = ink \ {at}
    /\ UNCHANGED <<screen_x, screen_y, reg, at, row, after, calls>>

-----------------------------------------------------------------------------
(* handle_keyboard on ctrl+L: the cursor's row is scrolled to the top, and *)
(* the column kept.                                                        *)

ScrolledUp(n) == {<<cell[1] - n, cell[2]>> : cell \in {c \in ink : c[1] >= n}}

CtrlL ==
    /\ ink' = ScrolledUp(screen_y)
    /\ screen_y' = 0
    /\ calls' = IF pc = "idle" THEN calls ELSE "interrupted"
    /\ UNCHANGED <<screen_x, pc, reg, at, row, after>>

Next ==
    \/ Aim \/ Store \/ Advance \/ SetY \/ AdvanceScrolls \/ AdvanceWraps \/ Wrap
    \/ NewlineScrolls \/ Newline \/ Feed \/ SetYX
    \/ MoveRow \/ BlankRow \/ Home
    \/ Back \/ BackY \/ BackScrolls \/ AimBlank \/ StoreBlank
    \/ CtrlL

Spec == Init /\ [][Next]_vars

-----------------------------------------------------------------------------
(***************************************************************************)
(* Properties.                                                             *)
(***************************************************************************)

(***************************************************************************)
(* The cursor stays on the screen, and so does every cell whose address    *)
(* putc and backspace compute, wherever ctrl+L comes between their loads   *)
(* and stores of screen_y.  video_mem has nothing after the last cell.     *)
(***************************************************************************)
CursorInBounds == screen_x \in Cols /\ screen_y \in Rows /\ at \in Cells

(***************************************************************************)
(* As long as ctrl+L has come between calls only, nothing is written at    *)
(* the cursor or after it, so what is typed never mixes with older text,   *)
(* through wraps, scrolls, backspaces over line ends and ctrl+L.  Inside a *)
(* call ctrl+L may leave an erased character standing at the cursor.       *)
(***************************************************************************)
TailBlank ==
    pc = "idle" /\ calls = "whole" => \A cell \in ink :
        \/ cell[1] < screen_y
        \/ cell[1] = screen_y /\ cell[2] < screen_x

(* The cursor and every address stay on the screen, and new text does not  *)
(* mix with old as far as TailBlank says (lib.c:170-300).                  *)
TextSafety == TypeOK /\ CursorInBounds /\ TailBlank

-----------------------------------------------------------------------------
(***************************************************************************)
(* The inductive invariant; the proofs are in MCConsole.                   *)
(*                                                                         *)
(* The cursor stays on the screen, for every size of the screen and with   *)
(* ctrl+L anywhere in putc.  The bounds alone are not inductive: a value   *)
(* loaded from screen_y is stored after the handler may have run, and the  *)
(* test against the last row comes before the load.                        *)
(***************************************************************************)

\* A value about to be stored is a row, and screen_y + 1 will be one: ctrl+L
\* only ever lowers screen_y.
LoadsInBounds ==
    /\ pc \in {"setY", "setYX"} => reg \in Rows
    /\ pc \in {"wrap", "feed"} => screen_y + 1 \in Rows

IInv ==
    /\ ink \subseteq Cells
    /\ pc \in Labels
    /\ reg \in Int
    /\ row \in Rows
    /\ after \in {"idle", "aimBlank"}
    /\ calls \in {"whole", "interrupted"}
    /\ CursorInBounds
    /\ LoadsInBounds

\* lib.h has 25 and 80.
HasSize == NUM_ROWS \in Nat \ {0} /\ NUM_COLS \in Nat \ {0}

-----------------------------------------------------------------------------
(***************************************************************************)
(* Nothing stands at the cursor or after it.  Inside a call the place that *)
(* bounds the text is where the call will leave the cursor: a row loaded   *)
(* and not stored yet, the cell just written, the row being blanked.       *)
(***************************************************************************)

\* All text lies before column x of row y.
Before(y, x) == \A cell \in ink : cell[1] < y \/ (cell[1] = y /\ cell[2] < x)

TextBefore ==
    calls = "whole" =>
        /\ pc \in {"idle", "store", "feed"} => Before(screen_y, screen_x)
        /\ pc \in {"advance", "aimBlank", "storeBlank"} => Before(screen_y, screen_x + 1)
        /\ pc \in {"store", "storeBlank"} => at = <<screen_y, screen_x>>
        /\ pc = "wrap" => Before(screen_y + 1, 0) /\ screen_x = 0
        /\ pc = "setY" => Before(reg, screen_x)
        /\ pc = "setYX" => Before(reg, 0)
        /\ pc = "back" => Before(reg, screen_x + 1)
        /\ pc = "home" => \A cell \in ink : cell[1] # NUM_ROWS - 1
=============================================================================
