---- MODULE MCTextMode ----
(* The screen in text mode and who uses it: the console of MCConsole, and  *)
(* characters that blink - on the list of the kernel, on that of fish, and *)
(* under the programs that use them; one of these in each behaviour while  *)
(* the others rest.  The list of fish has a place more, for fish does not  *)
(* use location 0.                                                         *)
EXTENDS MCConsole, SequencesExt

CONSTANTS Locations, SCREEN, Phases, HALF, Addresses, LowZero, MaxCalls

VARIABLES version,
    mem, next, head, used, screen, step, dst, src, dx, ioctls, raced, pairs, age, plain,
    blink_array, fishnext, fishhead, fishscreen, fishcalls, synced,
    by, file, pos, c, eof, r, col, stage, count, pending, loaded, apart, blinkers, texts

Mp1 == INSTANCE BlinkList WITH pc <- step, calls <- ioctls

\* One location is outside either screen.
Fish == INSTANCE FishBlink WITH ARRAY <- Cardinality(Addresses), SCREEN <- SCREEN + 1,
            Locations <- (Locations \ {0}) \union {SCREEN + 1},
            next <- fishnext, head <- fishhead, screen <- fishscreen, calls <- fishcalls

\* Files that end with and without a newline, with empty lines and with blanks,
\* over one another, and longer ones.
Short == {<< >>, <<"x">>, <<"nl">>, <<"x", "nl">>, <<"nl", "x">>, <<" ", "x">>, <<"x", "x">>}
Longer == {<<"x", "nl", " ", "x">>, <<" ", "x", "nl">>, <<"nl", "nl", "x">>}
MCFiles == (Short \X (Short \union Longer)) \union (Longer \X {<<"x", "nl">>, <<"nl", "x">>})

Program == INSTANCE FrameProgram WITH Locations <- {1}, SCREEN <- 20, HALF <- 4, Phases <- {<<2, 2>>, <<1, 2>>},
               Files <- MCFiles, COLS <- 4, OFFSET <- 1, MARK <- 6, SOUGHT <- 2, WAIT <- 2, ON <- 2, OFF <- 2,
               MARK_ON <- 1, MARK_OFF <- 2, Room <- 20,
               step <- stage, dx <- loaded, raced <- apart, row <- blinkers, text <- texts

mp1 == <<mem, next, head, used, screen, step, dst, src, dx, ioctls, raced, pairs, age, plain>>
fish == <<blink_array, fishnext, fishhead, fishscreen, fishcalls, synced>>
program == <<by, file, pos, c, eof, r, col, stage, count, pending, loaded, apart, blinkers, texts>>

NoProgram ==
    /\ by = "none" /\ file = << >> /\ pos = << >> /\ c = << >> /\ eof = << >> /\ r = 0 /\ col = 0
    /\ stage = 0 /\ count = 0 /\ pending = FALSE /\ loaded = 0 /\ apart = FALSE
    /\ blinkers = << >> /\ texts = << >>

TextModeInit ==
    /\ Mp1!Init /\ Fish!Init
    /\ \/ version = "none" /\ NoProgram /\ ConsoleInit
       \/ /\ part = "rest" /\ Init /\ Line!Init /\ Text!Init
          /\ \/ version \in {"kernel", "fish"} /\ NoProgram
             \/ version = "program" /\ Program!ProgramInit

InConsole(A) == version = "none" /\ A /\ UNCHANGED <<version, mp1, fish, program>>
InKernel(A) == version = "kernel" /\ A /\ UNCHANGED <<version, console, fish, program>>
InFish(A) == version = "fish" /\ A /\ UNCHANGED <<version, console, mp1, program>>
InProgram(A) == version = "program" /\ A /\ UNCHANGED <<version, console, mp1, fish>>

\* A program has ended, or nothing is known any more.
NoneLeft ==
    /\ \/ version = "kernel" /\ step = "undefined"
       \/ version = "program" /\ (Program!Doing("exit") \/ stage = 0)
    /\ UNCHANGED <<version, console, mp1, fish, program>>

TextModeNext ==
    \/ InConsole(ConsoleNext) \/ InKernel(Mp1!Next) \/ InFish(Fish!Next) \/ InProgram(Program!ProgramNext)
    \/ NoneLeft

\* The clock ticks and programs go on, as do those at the console.
TextModeSpec ==
    /\ TextModeInit /\ [][TextModeNext]_<<version, console, mp1, fish, program>>
    /\ ConsoleFairness
    /\ WF_program(InProgram(Program!Steps)) /\ WF_program(InProgram(Program!Clock))

(* The list of mp1 stays whole, in step and true: BlinkList's BlinkSafety  *)
(* (mp1.S:40-330).                                                         *)
BlinkSafety == version = "kernel" => Mp1!BlinkSafety

(* The list of fish is a row of blinking characters, and its cells show    *)
(* what the row says: FishBlink's FishSafety (blink.S:49-300).             *)
FishSafety == Fish!FishSafety

(* What the programs draw is the two files, blinking as one picture        *)
(* (mp1_testcases.c:24-154, fish.c:23-148).                                *)
ProgramSafety == version = "program" => Program!ProgramSafety

(* What is due blinks in time, and the programs end (mp1.S:50-97,          *)
(* mp1_testcases.c:24-80, fish.c:23-76).                                   *)
InTime ==
    /\ Mp1!BlinksInTime
    /\ version = "program" => Program!Ends

MCPhases == {<<2, 3>>, <<0, 2>>}

ASSUME Mp1!BlinkAssumption /\ Mp1!BlinkListAssumption /\ Fish!BlinkAssumption
====
