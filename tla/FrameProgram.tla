---------------------------- MODULE FrameProgram ----------------------------
(***************************************************************************)
(* The programs that use the blinking characters: mp1_testcases.c, with    *)
(* the kernel's tasklet or, linked with mp1_userspace.c, its own, and fish *)
(* (fish.c).  Both draw two text files over each other as one picture that *)
(* alternates, then add, sync and remove one more character.  The calls    *)
(* are those of Blinkers.                                                  *)
(***************************************************************************)
EXTENDS Blinkers

CONSTANTS
    Files,      \* pairs of files, sequences of characters
    COLS,       \* columns of the screen
    OFFSET,     \* where the picture starts
    MARK,       \* location of the one more character
    SOUGHT,     \* location that RTC_FIND looks at
    WAIT,       \* reads of the clock that a program waits for
    ON, OFF,    \* lengths of the phases of a frame
    MARK_ON, MARK_OFF

VARIABLES
    by,         \* which program: "mp1" or "fish"
    file,       \* the two files
    pos, c, eof,    \* of each file: position, last character, end reached
    r, col,     \* where the next character goes
    step,       \* of main
    count,      \* iterations of its loop
    pending,    \* the clock ticked since it was last read
    dx,         \* what RTC_SYNC has loaded
    raced,      \* history: the clock ticked between RTC_SYNC's copies
    text        \* what the characters show, the newest first

frame == <<file, pos, c, eof, r, col>>
sync == <<dx, raced>>
vars == <<by, frame, step, count, pending, sync, row, text>>

blank == " "
newline == "nl"
Both == {1, 2}

\* Variant: interrupts are turned on after the first wait.
mp1_mainLate ==
    <<"null", "frames", "wait", "start", "mark", "wait", "sync", "wait", "find", "remove", "wait",
      "clear", "stop", "exit">>

mp1_main ==
    <<"null", "frames", "start", "wait", "mark", "wait", "sync", "wait", "find", "remove", "wait",
      "clear", "stop", "exit">>

fish_main == <<"frames", "wait", "mark", "wait", "sync", "wait", "remove", "wait", "exit">>

Main == IF by = "mp1" THEN mp1_main ELSE fish_main
Doing(name) == step \in DOMAIN Main /\ Main[step] = name
Then == step' = step + 1 /\ count' = 0

\* The steps that come before or after a step of that name.
Before(name) == \E k \in step + 1 .. Len(Main) : Main[k] = name
After(name) == \E k \in 1 .. step - 1 : Main[k] = name

ProgramInit ==
    /\ by \in {"mp1", "fish"}
    /\ file \in Files
    /\ pos = <<0, 0>> /\ c = <<"0", "0">> /\ eof = <<FALSE, FALSE>>
    /\ r = 0 /\ col = 0
    /\ step = 1 /\ count = 0 /\ pending = FALSE
    /\ row = << >> /\ text = << >>
    /\ dx = 0 /\ raced = FALSE

-----------------------------------------------------------------------------
(* add_frames.                                                             *)

\* Variant: a line that has ended is read on.
EndedNot(i) == FALSE

\* A line that has ended waits for the other file's.
Ended(i) == c[i] = newline

AtEnd(i) == pos[i] = Len(file[i])

\* The character read, a newline at the end of the file.
Char(i) == IF Ended(i) \/ AtEnd(i) THEN newline ELSE file[i][pos[i] + 1]

Advance ==
    /\ eof' = [i \in Both |-> eof[i] \/ (~Ended(i) /\ AtEnd(i))]
    /\ pos' = [i \in Both |-> IF Ended(i) \/ AtEnd(i) THEN pos[i] ELSE pos[i] + 1]

Drawn(ch) == IF ch = newline THEN blank ELSE ch

Visible == \E i \in Both : Drawn(Char(i)) # blank

\* One character of each line.
DrawChar ==
    /\ Doing("frames") /\ ~(eof[1] /\ eof[2])
    /\ \E i \in Both : Char(i) # newline
    /\ Advance
    /\ c' = [i \in Both |-> Char(i)]
    /\ col' = col + 1
    /\ IF Visible
       THEN /\ RTC_ADD(r * COLS + col + OFFSET, ON, OFF)
            /\ text' = << <<Drawn(Char(1)), Drawn(Char(2))>> >> \o text
       ELSE UNCHANGED <<row, text>>
    /\ UNCHANGED <<by, sync, file, r, step, count, pending>>

NextLine(ended) == [i \in Both |-> IF ended[i] THEN newline ELSE "0"]

\* Both lines have ended.
EndRow ==
    /\ Doing("frames") /\ ~(eof[1] /\ eof[2])
    /\ \A i \in Both : Char(i) = newline
    /\ Advance
    /\ c' = NextLine(eof')
    /\ r' = r + 1 /\ col' = 0
    /\ UNCHANGED <<by, sync, file, step, count, pending, row, text>>

EndFrames ==
    /\ Doing("frames") /\ eof[1] /\ eof[2]
    /\ Then
    /\ UNCHANGED <<by, sync, frame, pending, row, text>>

-----------------------------------------------------------------------------
(* main.                                                                   *)

\* RTC_ADD of no structure: the fault is caught and nothing is added.
AddNull ==
    /\ Doing("null")
    /\ Then
    /\ UNCHANGED <<by, sync, frame, pending, row, text>>

\* RTC_IRQP_SET and RTC_PIE_ON; the clock of fish runs from its open on.
Start ==
    /\ Doing("start")
    /\ Then
    /\ UNCHANGED <<by, sync, frame, pending, row, text>>

Running == by = "mp1" /\ After("start") /\ (Before("stop") \/ Doing("stop"))

\* RTC_SYNC of mp1.S loads and stores one field after another; count says
\* how many of these it has done.
Fields == <<"status", "countdown", "off", "on">>
Copying == Doing("sync") /\ count \in 1 .. 2 * Len(Fields) - 1

\* Interrupts come whatever the program does: the tasklet runs, or the
\* signal that does its work in mp1_userspace.c.
Clock ==
    /\ Running
    /\ Tick
    /\ pending' = TRUE
    /\ raced' = (raced \/ Copying)
    /\ UNCHANGED <<by, frame, step, count, dx, text>>

\* A read returns after an interrupt; fish calls the tasklet then.
Read ==
    /\ Doing("wait") /\ count < WAIT
    /\ by = "mp1" => pending
    /\ pending' = FALSE
    /\ IF by = "fish" THEN Tick ELSE UNCHANGED row
    /\ count' = count + 1
    /\ UNCHANGED <<by, sync, frame, step, text>>

EndWait ==
    /\ Doing("wait") /\ count = WAIT
    /\ Then
    /\ UNCHANGED <<by, sync, frame, pending, row, text>>

AddMark ==
    /\ Doing("mark")
    /\ RTC_ADD(MARK, MARK_ON, MARK_OFF)
    /\ text' = << <<"I", "M">> >> \o text
    /\ Then
    /\ UNCHANGED <<by, sync, frame, pending>>

\* The newest at MARK gets the times of the first character of the picture.
\* The tasklet of fish is called by fish alone.
SyncMark ==
    /\ Doing("sync") /\ by = "fish"
    /\ \/ RTC_SYNC(MARK, OFFSET)
       \/ At(OFFSET) = {} /\ UNCHANGED row
    /\ Then
    /\ UNCHANGED <<by, frame, pending, sync, text>>

LoadField ==
    /\ Doing("sync") /\ by = "mp1" /\ At(OFFSET) # {}
    /\ count < 2 * Len(Fields) /\ count % 2 = 0
    /\ dx' = row[First(OFFSET)][Fields[count \div 2 + 1]]
    /\ count' = count + 1
    /\ UNCHANGED <<by, frame, step, pending, raced, row, text>>

StoreField ==
    /\ Doing("sync") /\ count % 2 = 1
    /\ row' = [row EXCEPT ![First(MARK)][Fields[count \div 2 + 1]] = dx]
    /\ dx' = 0
    /\ count' = count + 1
    /\ UNCHANGED <<by, frame, step, pending, raced, text>>

EndSync ==
    /\ Doing("sync") /\ by = "mp1"
    /\ count = 2 * Len(Fields) \/ At(OFFSET) = {}
    /\ Then
    /\ UNCHANGED <<by, frame, pending, sync, row, text>>

\* RTC_FIND, whose result is not used.  mp1_userspace.c copies what is there;
\* where nothing is, and in the kernel always, it fails and nothing is known.
Find ==
    /\ Doing("find")
    /\ \/ At(SOUGHT) # {} /\ step' = step + 1
       \/ step' = 0
    /\ count' = 0
    /\ UNCHANGED <<by, frame, pending, sync, row, text>>

\* Variant: the character that was there before is taken.
TakenOldest(loc) == CHOOSE k \in At(loc) : \A j \in At(loc) : j <= k

Taken(loc) == First(loc)

TakeAt(loc) ==
    /\ row' = RemoveAt(row, Taken(loc))
    /\ text' = RemoveAt(text, Taken(loc))

RemoveMark ==
    /\ Doing("remove")
    /\ TakeAt(MARK)
    /\ Then
    /\ UNCHANGED <<by, sync, frame, pending>>

\* RTC_REMOVE of every location of the screen.
Clear ==
    /\ Doing("clear") /\ count < SCREEN
    /\ IF At(count) = {} THEN UNCHANGED <<row, text>> ELSE TakeAt(count)
    /\ count' = count + 1
    /\ UNCHANGED <<by, sync, frame, step, pending>>

EndClear ==
    /\ Doing("clear") /\ count = SCREEN
    /\ Then
    /\ UNCHANGED <<by, sync, frame, pending, row, text>>

Stop ==
    /\ Doing("stop")
    /\ Then
    /\ UNCHANGED <<by, sync, frame, pending, row, text>>

Steps ==
    \/ DrawChar \/ EndRow \/ EndFrames \/ AddNull \/ Start
    \/ Read \/ EndWait \/ AddMark \/ SyncMark \/ LoadField \/ StoreField \/ EndSync \/ Find \/ RemoveMark \/ Clear \/ EndClear \/ Stop

ProgramNext == Steps \/ Clock

\* A program goes on, and the clock ticks.
ProgramSpec == ProgramInit /\ [][ProgramNext]_vars /\ WF_vars(Steps) /\ WF_vars(Clock)

-----------------------------------------------------------------------------
(***************************************************************************)
(* Properties.                                                             *)
(***************************************************************************)

\* The column of the character at k, and its line: how many newlines are before.
Line(f, k) == Cardinality({j \in 1 .. k - 1 : f[j] = newline})
Column(f, k) == Cardinality({j \in 1 .. k - 1 : Line(f, j) = Line(f, k) /\ f[j] # newline})

\* What a file shows at a line and a column.
Pixel(f, l, m) ==
    LET there == {k \in DOMAIN f : f[k] # newline /\ Line(f, k) = l /\ Column(f, k) = m}
    IN  IF there = {} THEN blank ELSE f[CHOOSE k \in there : TRUE]

Picture ==
    LET most == Len(file[1]) + Len(file[2])
        places == {<<l, m>> \in (0 .. most) \X (0 .. most) :
                      Pixel(file[1], l, m) # blank \/ Pixel(file[2], l, m) # blank}
    IN  {<<p[1] * COLS + p[2] + OFFSET, Pixel(file[1], p[1], p[2]), Pixel(file[2], p[1], p[2])>> : p \in places}

Showing(ks) == {<<row[k].location, text[k][1], text[k][2]>> : k \in ks}

(***************************************************************************)
(* The characters are the two files, each place once, whatever the lengths *)
(* of their lines, with or without a newline at the end, one file longer   *)
(* than the other; and they are so again when the one that was added over  *)
(* them has been removed.                                                  *)
(***************************************************************************)
DrawsFiles ==
    (After("frames") /\ ~After("mark")) \/ (After("remove") /\ ~Doing("clear") /\ ~After("clear")) =>
        Showing(DOMAIN row) = Picture /\ Len(row) = Cardinality(Picture)

(***************************************************************************)
(* The characters of the picture change together, so that at any time one  *)
(* of the two files is seen, in whole; after RTC_SYNC the one more changes *)
(* with them until it is removed, if the clock did not tick between the    *)
(* copies: a tick there may leave it out of step for good.                 *)
(***************************************************************************)
BlinkTogether ==
    LET times == [k \in DOMAIN row |-> [row[k] EXCEPT !.location = 0]]
        together == {k \in DOMAIN row : text[k] # <<"I", "M">> \/ (After("sync") /\ At(OFFSET) # {} /\ ~raced)}
    IN  \A j, k \in together : times[j] = times[k]

\* mp1_testcases leaves nothing on the screen, not even where two characters were.
LeavesNone == Doing("exit") /\ by = "mp1" => row = << >>

\* Both programs end, or RTC_FIND leads to where nothing is known.
Ends == <>(Doing("exit") \/ step = 0)

(* What is drawn is the two files, it changes as one picture, and what is  *)
(* added last goes first (fish.c:79-148, mp1_testcases.c:22-145).          *)
ProgramSafety == DrawsFiles /\ BlinkTogether /\ LeavesNone

=============================================================================
