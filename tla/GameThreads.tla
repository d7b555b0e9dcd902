---- MODULE GameThreads ----
(* main and the three threads of originals/ECE391-MP2-Device-Drivers, from *)
(* the first ioctl to what the terminal is left like, with every way main  *)
(* may fail on its way; and the player's colour that fades as the clock    *)
(* ticks.  originals/mp2_ssbonde2 has two threads and one colour, and      *)
(* FirstGame its drawing.  Steering and drawing are in MazeGame and        *)
(* ClockedGame: here a tick may win the level.  What is done with the      *)
(* mutex held is one step: it writes next_dir once, or steers the player.  *)
EXTENDS MazeLattice

CONSTANTS
    MAX_LEVEL,
    MaxTicks,       \* ticks of one read of the clock; 8 in the code
    BRIGHTEST,      \* 63 in the code
    Keys,           \* what getc may return
    Presses         \* what the ioctl of the buttons may give

VARIABLES
    with_tux,                                     \* the game has a controller
    main, term, stdin_blocks, video, outcome,     \* main and what outlives it
    level, ticks, rtc,                            \* rtc_thread
    comp, fade_dir, rgb,                          \* color_fader's static variables
    state, key, keyboard,                         \* keyboard_thread
    buttonpress, tux,                             \* tux_thread
    next_dir, quit_flag, winner,                  \* shared
    unmade                                        \* history: a level could not be prepared

mainVars == <<main, term, stdin_blocks, video, outcome>>
fadeVars == <<comp, fade_dir, rgb>>
rtcVars == <<level, ticks, rtc, fadeVars>>
keyboardVars == <<state, key, keyboard>>
tuxVars == <<buttonpress, tux>>
vars == <<with_tux, mainVars, rtcVars, keyboardVars, tuxVars, next_dir, quit_flag, winner, unmade>>

Init ==
    /\ with_tux \in BOOLEAN
    /\ main = "fcntl" /\ term = "orig" /\ stdin_blocks = TRUE /\ video = "text" /\ outcome = "none"
    /\ level = 1 /\ ticks = 0 /\ rtc = "none"
    /\ comp = 0 /\ fade_dir = 0 /\ rgb = <<0, 0, 0>>
    /\ state = 0 /\ key = 65 /\ keyboard = "none"
    /\ buttonpress = 0 /\ tux = "none"
    /\ next_dir = 65 /\ quit_flag = 0 /\ winner = 0 /\ unmade = FALSE

------------------------------------------------------------------------------
(* main: nothing that the serial line or the clock answers is looked at *)

\* A call that may fail, and main returns -1: nothing is undone.
Fails == main' = "returned" /\ outcome' = "error" /\ UNCHANGED <<term, stdin_blocks, video>>

\* sanity_check or set_mode_X fails, and main returns 3.
NoGame == Fails

Prepare ==
    /\ \/ /\ main \in {"fcntl", "tcgetattr", "tcsetattr"} /\ Fails
       \/ main = "fcntl" /\ main' = "tcgetattr" /\ stdin_blocks' = FALSE /\ UNCHANGED <<term, video, outcome>>
       \/ main = "tcgetattr" /\ main' = "tcsetattr" /\ UNCHANGED <<term, stdin_blocks, video, outcome>>
       \/ main = "tcsetattr" /\ main' = "mode" /\ term' = "raw" /\ UNCHANGED <<stdin_blocks, video, outcome>>
       \/ main = "mode" /\ NoGame
       \/ main = "mode" /\ main' = "create" /\ video' = "X" /\ UNCHANGED <<term, stdin_blocks, outcome>>
    /\ UNCHANGED <<rtcVars, keyboardVars, tuxVars, next_dir, quit_flag, winner, unmade>>

\* The first two pthread_create, and a third one for the controller.
Create ==
    /\ main = "create"
    /\ \/ rtc = "none" /\ rtc' = "level" /\ UNCHANGED <<keyboard, tux, main>>
       \/ rtc # "none" /\ keyboard = "none" /\ keyboard' = "test" /\ UNCHANGED <<rtc, tux, main>>
       \/ with_tux /\ keyboard # "none" /\ tux = "none" /\ tux' = "test" /\ main' = "join" /\ UNCHANGED <<rtc, keyboard>>
    /\ UNCHANGED <<term, stdin_blocks, video, outcome, level, ticks, fadeVars, state, key, buttonpress,
                   next_dir, quit_flag, winner, unmade>>

\* Without a controller main waits at once.
CreateNoMore ==
    /\ ~with_tux /\ main = "create" /\ keyboard # "none"
    /\ main' = "join"
    /\ UNCHANGED <<term, stdin_blocks, video, outcome, rtcVars, keyboardVars, tuxVars, next_dir, quit_flag, winner, unmade>>

\* Variant: main joins the first thread only.
JoinedFirst == rtc = "done"

\* A pthread_join of each.
Joined == rtc = "done" /\ keyboard = "done" /\ (with_tux => tux = "done")

\* clear_mode_X and tcsetattr, and the outcome is printed.
CleanUp ==
    /\ main = "join" /\ Joined
    /\ video' = "text" /\ term' = "orig"
    /\ outcome' = (IF winner = 1 THEN "win" ELSE IF quit_flag = 1 THEN "quit" ELSE "lose")
    /\ main' = "returned"
    /\ UNCHANGED <<stdin_blocks, rtcVars, keyboardVars, tuxVars, next_dir, quit_flag, winner, unmade>>

Main == with_tux /\ (Prepare \/ Create \/ CleanUp)

\* The main that has no line to the controller to open or to close.
MainOfTwo == ~with_tux /\ (Prepare \/ Create \/ CreateNoMore \/ CleanUp)

------------------------------------------------------------------------------
(* rtc_thread *)

\* A level begins, and writes next_dir without the mutex; or it cannot be
\* prepared, and the loop is left; or there is none.
Level ==
    /\ rtc = "level"
    /\ IF level <= MAX_LEVEL /\ quit_flag = 0
       THEN \/ next_dir' = DIR_STOP /\ rtc' = "wait" /\ UNCHANGED unmade
            \/ unmade' = TRUE /\ rtc' = "over" /\ UNCHANGED next_dir
       ELSE rtc' = "over" /\ UNCHANGED <<next_dir, unmade>>
    /\ UNCHANGED <<mainVars, level, ticks, fadeVars, keyboardVars, tuxVars, quit_flag, winner>>

\* Variant: the way back begins where the way there has ended.
FadedBack ==
    LET last == IF fade_dir = 0 THEN BRIGHTEST ELSE 0
        step == IF fade_dir = 0 THEN 1 ELSE -1
    IN  IF rgb[comp + 1] # last THEN <<comp, fade_dir, [rgb EXCEPT ![comp + 1] = @ + step]>>
        ELSE IF comp < 2 THEN <<comp + 1, fade_dir, rgb>> ELSE <<comp, 1 - fade_dir, rgb>>

\* color_fader: one component becomes brighter, or darker, or it is the next
\* one's turn, and after the last one the other direction's.
Faded ==
    LET last == IF fade_dir = 0 THEN BRIGHTEST ELSE 0
        step == IF fade_dir = 0 THEN 1 ELSE -1
    IN  IF rgb[comp + 1] # last THEN <<comp, fade_dir, [rgb EXCEPT ![comp + 1] = @ + step]>>
        ELSE IF comp < 2 THEN <<comp + 1, fade_dir, rgb>> ELSE <<0, 1 - fade_dir, rgb>>

\* The loop's test, the read of the clock, and the colour.
Wait ==
    /\ rtc = "wait"
    /\ IF quit_flag = 0
       THEN /\ IF with_tux THEN comp' = Faded[1] /\ fade_dir' = Faded[2] /\ rgb' = Faded[3]
                               ELSE UNCHANGED fadeVars
            /\ ticks' \in 1 .. MaxTicks
            /\ rtc' = "tick" /\ UNCHANGED level
       ELSE rtc' = "level" /\ level' = level + 1 /\ UNCHANGED <<ticks, fadeVars>>
    /\ UNCHANGED <<mainVars, keyboardVars, tuxVars, next_dir, quit_flag, winner, unmade>>

\* With the mutex: the player is steered, and may win the level.
Tick ==
    /\ rtc = "tick"
    /\ \/ rtc' = "level" /\ level' = level + 1 /\ ticks' = 0
       \/ rtc' = (IF ticks = 1 THEN "wait" ELSE "tick") /\ ticks' = ticks - 1 /\ UNCHANGED level
    /\ UNCHANGED <<mainVars, fadeVars, keyboardVars, tuxVars, next_dir, quit_flag, winner, unmade>>

\* Variant: a game that was left is won.
TestQuitNot == "win"

\* if (quit_flag == 0) winner = 1: a test, then a write.
TestQuit == IF quit_flag = 0 THEN "win" ELSE "done"

Over ==
    /\ \/ rtc = "over" /\ rtc' = TestQuit /\ UNCHANGED winner
       \/ rtc = "win" /\ rtc' = "done" /\ winner' = 1
    /\ UNCHANGED <<mainVars, level, ticks, fadeVars, keyboardVars, tuxVars, next_dir, quit_flag, unmade>>

RtcThread == Level \/ Wait \/ Tick \/ Over

------------------------------------------------------------------------------
(* keyboard_thread: 27, 91 and a letter are an arrow; getc never blocks *)

Arrow == [k \in 65 .. 68 |->
    CASE k = 65 -> DIR_UP [] k = 66 -> DIR_DOWN [] k = 67 -> DIR_RIGHT [] k = 68 -> DIR_LEFT]

\* The test of winner, which the getc after it may make old.
TestWinner ==
    /\ keyboard = "test" /\ keyboard' = (IF winner = 0 THEN "getc" ELSE "done")
    /\ UNCHANGED <<state, key, quit_flag>>

GetKey ==
    /\ keyboard = "getc"
    /\ \E k \in Keys \union {-1} :
           /\ quit_flag' = (IF k = 96 THEN 1 ELSE quit_flag)
           /\ state' = (CASE k = 96 -> state [] k = 27 -> 1 [] k = 91 /\ state = 1 -> 2
                          [] k \notin {27, 96} /\ ~(k = 91 /\ state = 1) -> 0)
           /\ key' = (IF state = 2 /\ k \in DOMAIN Arrow THEN k ELSE key)
           /\ keyboard' = (IF k = 96 THEN "done" ELSE IF state = 2 /\ k \in DOMAIN Arrow THEN "set" ELSE "test")

KeyboardThread ==
    /\ \/ (TestWinner \/ GetKey) /\ UNCHANGED next_dir
       \/ /\ keyboard = "set" /\ next_dir' = Arrow[key]
          /\ keyboard' = "test" /\ key' = 65 /\ UNCHANGED <<state, quit_flag>>
    /\ UNCHANGED <<mainVars, rtcVars, tuxVars, winner, unmade>>

------------------------------------------------------------------------------
(* tux_thread *)

Button == [b \in {16, 32, 64, 128} |->
    CASE b = 16 -> DIR_UP [] b = 32 -> DIR_DOWN [] b = 64 -> DIR_LEFT [] b = 128 -> DIR_RIGHT]

Leaves == winner = 1 \/ quit_flag = 1

\* Polls without the mutex, which it takes to write.
TuxThread ==
    /\ \/ tux = "test" /\ Leaves /\ tux' = "done" /\ UNCHANGED <<buttonpress, next_dir>>
       \/ tux = "test" /\ ~Leaves /\ tux' = "set" /\ buttonpress' \in Presses /\ UNCHANGED next_dir
       \/ /\ tux = "set" /\ tux' = "test" /\ buttonpress' = 0
          /\ next_dir' = (IF buttonpress \in DOMAIN Button THEN Button[buttonpress] ELSE next_dir)
    /\ UNCHANGED <<mainVars, rtcVars, keyboardVars, quit_flag, winner, unmade>>

Next ==
    /\ Main \/ MainOfTwo \/ RtcThread \/ KeyboardThread \/ TuxThread
    /\ UNCHANGED with_tux

------------------------------------------------------------------------------

Running == {rtc, keyboard, tux} \ {"none", "done"} # {}

(* The threads run on a screen in mode X and a terminal that gives single  *)
(* keys, and nothing of that is taken away before all of them have ended.  *)
(* Then the screen shows text again and the terminal is as it was; stdin   *)
(* never blocks again.  A main that fails undoes nothing: the terminal     *)
(* stays raw when the screen cannot be set up (mazegame.c:884-930).        *)
LeftTidy ==
    /\ Running => video = "X" /\ term = "raw" /\ main \in {"create", "join"}
    /\ main = "returned" =>
           /\ video = "text"
           /\ outcome # "error" => term = "orig" /\ ~stdin_blocks

(* "You win" is printed for a game whose levels were all left, or of which *)
(* one could not be prepared ("just let the player win"), "Quitter" for    *)
(* one that was quit, and "Sorry, you lose" never: no thread's write of    *)
(* winner or quit_flag comes in between (mazegame.c:492-494, 684,          *)
(* 939-950).                                                               *)
OutcomeEarned ==
    /\ outcome = "win" => level > MAX_LEVEL \/ unmade
    /\ outcome = "quit" => quit_flag = 1 /\ winner = 0
    /\ outcome # "lose"
    /\ rtc = "win" \/ winner = 1 => level > MAX_LEVEL \/ unmade

(* The colour goes from black over red and yellow to white and back over   *)
(* cyan and blue, without a jump: whose turn it is, all before are where   *)
(* they go, and all after are still where they come from                   *)
(* (mazegame.c:747-810).                                                   *)
FadeInTurn ==
    LET goal == IF fade_dir = 0 THEN BRIGHTEST ELSE 0
    IN  /\ \A i \in 1 .. 3 : rgb[i] \in 0 .. BRIGHTEST
        /\ \A i \in 1 .. comp : rgb[i] = goal
        /\ \A i \in comp + 2 .. 3 : rgb[i] = BRIGHTEST - goal

ThreadsSafety == LeftTidy /\ OutcomeEarned /\ FadeInTurn

(* Once the game is won or quit, main returns.                             *)
MainReturns == (winner = 1 \/ quit_flag = 1) ~> (main = "returned")

------------------------------------------------------------------------------
(* Why ThreadsSafety is so for all levels, ticks and keys: what main has   *)
(* done before it creates a thread, what a thread that is over leaves, and *)
(* which level the clock's thread was in when it left its loop.            *)

\* Levels and brightness are counted from zero.
Counted == MAX_LEVEL \in Nat /\ BRIGHTEST \in Nat

Started == rtc # "none" \/ keyboard # "none" \/ tux # "none"

MainInv ==
    /\ Started => main \in {"create", "join", "returned"}
    /\ ~with_tux => tux = "none"
    /\ video = (IF main \in {"create", "join"} THEN "X" ELSE "text")
    /\ main \in {"mode", "create", "join"} => term = "raw"
    /\ main \notin {"fcntl", "returned"} => ~stdin_blocks
    /\ main = "returned" =>
           IF Started THEN Joined /\ term = "orig" /\ ~stdin_blocks ELSE outcome = "error"
    /\ outcome # "none" => main = "returned"
    /\ outcome \notin {"none", "error"} => Joined

LevelsLeft == level > MAX_LEVEL \/ unmade

OutcomeInv ==
    /\ winner \in {0, 1} /\ quit_flag \in {0, 1}
    /\ rtc = "over" => LevelsLeft \/ quit_flag = 1
    /\ rtc = "win" => LevelsLeft
    /\ winner = 1 => LevelsLeft /\ rtc = "done"
    /\ rtc = "done" => winner = 1 \/ quit_flag = 1
    /\ outcome = "win" => winner = 1
    /\ outcome = "quit" => quit_flag = 1 /\ winner = 0
    /\ outcome # "lose"

FadeInv ==
    /\ comp \in 0 .. 2 /\ fade_dir \in {0, 1}
    /\ rgb \in [1 .. 3 -> 0 .. BRIGHTEST]
    /\ FadeInTurn

ThreadsInv == level \in Nat /\ MainInv /\ OutcomeInv /\ FadeInv
====
