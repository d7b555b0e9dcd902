---- MODULE InputCommands ----
(* input.c run by itself, as mp2_ssbonde2 has it for the keyboard and      *)
(* originals/ECE391-MP2-Device-Drivers for the controller: main asks for   *)
(* commands until it is told to quit.  Characters arrive at any time, so   *)
(* the three of an arrow key may be spread over several calls.             *)
EXTENDS MazeLattice, Sequences

CONSTANTS
    Chars,          \* what may be typed
    Presses,        \* what the ioctl of the buttons may give
    MaxRead         \* bound on the characters and polls of a behaviour

VARIABLES
    version,                       \* "keyboard" or "tux"
    main, term, saved, stdin_blocks,
    dir, prev_cur, pushed, state,  \* main's and get_command's
    tail, told, reads              \* history: last characters, last direction told, how many

terminalVars == <<term, saved, stdin_blocks>>
commandVars == <<dir, prev_cur, pushed, state>>
historyVars == <<tail, told, reads>>
vars == <<version, main, terminalVars, commandVars, historyVars>>

\* tio_orig is static: all zero until it is saved.
Init ==
    /\ version \in {"keyboard", "tux"}
    /\ main = "ioperm" /\ term = "orig" /\ saved = "zero" /\ stdin_blocks = TRUE
    /\ dir = DIR_UP /\ prev_cur = DIR_STOP /\ pushed = DIR_STOP /\ state = 0
    /\ tail = << >> /\ told = DIR_UP /\ reads = 0

\* Ports are asked for; without them main returns 3.
Ioperm ==
    /\ main = "ioperm" /\ main' \in {"fcntl", "done"}
    /\ UNCHANGED <<version, terminalVars, commandVars, historyVars>>

\* Three calls, each of which may be the last; main does not look.
init_input ==
    /\ \/ main \in {"fcntl", "tcgetattr", "tcsetattr"} /\ main' = "call" /\ UNCHANGED terminalVars
       \/ main = "fcntl" /\ main' = "tcgetattr" /\ stdin_blocks' = FALSE /\ UNCHANGED <<term, saved>>
       \/ main = "tcgetattr" /\ main' = "tcsetattr" /\ saved' = "orig" /\ UNCHANGED <<term, stdin_blocks>>
       \/ main = "tcsetattr" /\ main' = "call" /\ term' = "raw" /\ UNCHANGED <<saved, stdin_blocks>>
    /\ UNCHANGED <<version, commandVars, historyVars>>

\* get_command begins: a direction pushed before the last turn is forgotten.
Enter ==
    /\ main = "call" /\ main' = "getc"
    /\ prev_cur' = dir
    /\ pushed' = (IF prev_cur # dir THEN DIR_STOP ELSE pushed)
    /\ UNCHANGED <<version, terminalVars, dir, state, historyVars>>

Arrow == [c \in 65 .. 68 |->
    CASE c = 65 -> DIR_UP [] c = 66 -> DIR_DOWN [] c = 67 -> DIR_RIGHT [] c = 68 -> DIR_LEFT]

\* Variant: 91 is the second character whatever was before it.
AfterCharAny(s, c) == IF c = 27 THEN 1 ELSE IF c = 91 THEN 2 ELSE 0

\* The small FSM for arrow keys.
AfterChar(s, c) == IF c = 27 THEN 1 ELSE IF c = 91 /\ s = 1 THEN 2 ELSE 0

\* getc gives a character: a backquote ends the call at once.
Getc ==
    /\ main = "getc" /\ reads < MaxRead
    /\ \E c \in Chars :
           /\ main' = (IF c = 96 THEN "quit" ELSE "getc")
           /\ IF version = "tux" \/ c = 96 THEN UNCHANGED <<pushed, state, tail, told>>
              ELSE /\ state' = AfterChar(state, c)
                   /\ pushed' = (IF state = 2 /\ c \in DOMAIN Arrow THEN Arrow[c] ELSE pushed)
                   /\ tail' = (IF Len(tail) < 2 THEN Append(tail, c) ELSE <<tail[2], c>>)
                   /\ told' = (IF tail = <<27, 91>> /\ c \in DOMAIN Arrow THEN Arrow[c] ELSE told)
    /\ reads' = reads + 1
    /\ UNCHANGED <<version, terminalVars, dir, prev_cur>>

\* Nothing more was typed.
Eof ==
    /\ main = "getc"
    /\ main' = (IF version = "tux" THEN "poll" ELSE "turn")
    /\ UNCHANGED <<version, terminalVars, commandVars, historyVars>>

Button == [b \in {16, 32, 64, 128} |->
    CASE b = 16 -> DIR_UP [] b = 32 -> DIR_DOWN [] b = 64 -> DIR_LEFT [] b = 128 -> DIR_RIGHT]

\* The controller's part of get_command; an ioctl that fails leaves any value.
TuxButtons ==
    /\ main = "poll" /\ main' = "turn" /\ reads < MaxRead
    /\ \E b \in Presses :
           /\ pushed' = (IF b \in DOMAIN Button THEN Button[b] ELSE DIR_STOP)
           /\ prev_cur' = (IF b \in {1, 2, 4, 8} THEN DIR_STOP ELSE prev_cur)
           /\ told' = (IF b \in DOMAIN Button THEN Button[b] ELSE told)
    /\ reads' = reads + 1
    /\ UNCHANGED <<version, terminalVars, dir, state, tail>>

\* Variant: the turn is the other way round.
CommandBack == IF pushed = DIR_STOP THEN 0 ELSE (dir - pushed + 4) % 4

Command == IF pushed = DIR_STOP THEN 0 ELSE (pushed - dir + 4) % 4

\* get_command returns and main turns, by TURN_NONE too.
Turn ==
    /\ main = "turn" /\ main' = "call"
    /\ dir' = (dir + Command) % 4
    /\ UNCHANGED <<version, terminalVars, prev_cur, pushed, state, historyVars>>

\* Variant: what is restored is what init_input has set.
RestoredNew == term

Restored == saved

shutdown_input ==
    /\ main = "quit" /\ main' = "done"
    /\ term' = Restored
    /\ UNCHANGED <<version, saved, stdin_blocks, commandVars, historyVars>>

Next == Ioperm \/ init_input \/ Enter \/ Getc \/ Eof \/ TuxButtons \/ Turn \/ shutdown_input

Spec == Init /\ [][Next]_vars

------------------------------------------------------------------------------

(* Between two commands main goes where it was told last: by the last      *)
(* three characters of an arrow key, however they were spread over calls,  *)
(* or by the last button.  The FSM stands where the last two characters    *)
(* leave it (input.c:133-177, and :160-241 with the controller).           *)
TurnsAsTold ==
    /\ main = "call" => dir = told
    /\ state = 2 <=> tail = <<27, 91>>

(* After quitting the terminal is as it was if init_input had saved it;    *)
(* if not it is set to zeros, though shutdown_input "restores original     *)
(* terminal settings" (input.c:62, 186-196).  stdin never blocks again.    *)
TerminalLeft ==
    /\ main = "done" => term \in {"orig", "zero"} /\ (saved = "orig" => term = "orig")
    /\ term = "raw" => saved = "orig" /\ ~stdin_blocks

InputSafety == TurnsAsTold /\ TerminalLeft

------------------------------------------------------------------------------
(* Why InputSafety is so whatever is typed and pressed: what has been      *)
(* pushed is what was told last, or it has been turned to; and the FSM     *)
(* knows of the last two characters all that an arrow key needs.           *)

ToldInv ==
    /\ dir \in Dirs /\ told \in Dirs /\ pushed \in {DIR_STOP, told}
    /\ pushed = DIR_STOP => dir = told
    /\ main \in {"ioperm", "fcntl", "tcgetattr", "tcsetattr", "call"} => dir = told
    /\ main = "poll" => version = "tux"
    /\ version = "tux" /\ main \in {"getc", "poll"} => dir = told

StateInv ==
    /\ tail \in Seq(Chars) /\ Len(tail) <= 2
    /\ state \in 0 .. 2
    /\ state = 1 <=> tail # << >> /\ tail[Len(tail)] = 27
    /\ state = 2 <=> tail = <<27, 91>>

SavedInv ==
    /\ main \in {"ioperm", "fcntl", "tcgetattr"} => term = "orig"
    /\ main \in {"tcgetattr", "tcsetattr"} => ~stdin_blocks
    /\ main = "tcsetattr" => saved = "orig" /\ term = "orig"
    /\ saved \in {"zero", "orig"}
    /\ term = "raw" => saved = "orig" /\ ~stdin_blocks
    /\ main = "done" => term \in {"orig", "zero"} /\ (saved = "orig" => term = "orig")

InputInv == ToldInv /\ StateInv /\ SavedInv
====
