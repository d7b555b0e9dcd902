---- MODULE GameButtons ----
(* The maze game of ECE_391_MP2: here rtc_thread polls the controller,     *)
(* and hands what it reads to tux_thread, which sleeps on a condition      *)
(* variable.  buttons and buttons_pressed are written outside the mutex.   *)
(* Steering and levels are those of MazeGame: a tick may win the level.    *)
EXTENDS MazeLattice

CONSTANTS
    MaxTicks,       \* ticks of one read of the clock
    MAX_LEVEL,
    Reads           \* what a poll of the buttons may give

VARIABLES
    buttons, buttons_pressed, next_dir,     \* shared
    mtx,                                    \* who holds it
    quit_flag, winner,
    level, ticks, rtc,                      \* rtc_thread
    keyboard,                               \* keyboard_thread
    tux,                                    \* tux_thread
    taken,                                  \* history: buttons tux_thread last obeyed
    ended                                   \* main has printed the outcome

rtcVars == <<level, ticks, rtc>>
vars == <<buttons, buttons_pressed, next_dir, mtx, quit_flag, winner, rtcVars, keyboard, tux, taken, ended>>

TUX_UP == 239

TUX_LEFT == 191

TUX_DOWN == 223

TUX_RIGHT == 127

Arrows == {TUX_UP, TUX_LEFT, TUX_DOWN, TUX_RIGHT}

Init ==
    /\ buttons = 0 /\ buttons_pressed = 0 /\ next_dir = 65 /\ mtx = "none"
    /\ quit_flag = 0 /\ winner = 0 /\ level = 1 /\ ticks = 0
    /\ rtc = "level" /\ keyboard = "test" /\ tux = "test"
    /\ taken = 0 /\ ended = FALSE

------------------------------------------------------------------------------
(* rtc_thread *)

\* The start of a level writes next_dir without the mutex.  A level that
\* cannot be prepared ends the game as the last one does.
Level ==
    /\ rtc = "level"
    /\ \/ level <= MAX_LEVEL /\ quit_flag = 0 /\ next_dir' = DIR_STOP /\ rtc' = "frame"
       \/ UNCHANGED next_dir /\ rtc' = "over"
    /\ UNCHANGED <<buttons, buttons_pressed, mtx, quit_flag, winner, level, ticks, keyboard, tux, taken, ended>>

Frame ==
    /\ rtc = "frame"
    /\ IF quit_flag = 0
       THEN rtc' = "poll" /\ ticks' \in 1 .. MaxTicks /\ UNCHANGED level
       ELSE rtc' = "level" /\ level' = level + 1 /\ UNCHANGED ticks
    /\ UNCHANGED <<buttons, buttons_pressed, next_dir, mtx, quit_flag, winner, keyboard, tux, taken, ended>>

Poll ==
    /\ rtc = "poll"
    /\ buttons' \in Reads
    /\ rtc' = "flag" /\ ticks' = ticks - 1
    /\ UNCHANGED <<buttons_pressed, next_dir, mtx, quit_flag, winner, level, keyboard, tux, taken, ended>>

Pressed == IF buttons \in Arrows THEN 1 ELSE buttons_pressed

Flag ==
    /\ rtc = "flag"
    /\ buttons_pressed' = Pressed
    /\ rtc' = "signal"
    /\ UNCHANGED <<buttons, next_dir, mtx, quit_flag, winner, level, ticks, keyboard, tux, taken, ended>>

\* Variant: nobody is signalled.
WakesNobody == FALSE

Wakes == buttons_pressed = 1

\* With the mutex: pthread_cond_signal, if anybody waits.
Signal ==
    /\ rtc = "signal" /\ mtx = "none"
    /\ tux' = IF Wakes /\ tux = "waiting" THEN "lock" ELSE tux
    /\ rtc' = "tick"
    /\ UNCHANGED <<buttons, buttons_pressed, next_dir, mtx, quit_flag, winner, level, ticks, keyboard, taken, ended>>

\* With the mutex: the player is steered, and may win the level.
Tick ==
    /\ rtc = "tick" /\ mtx = "none"
    /\ \/ rtc' = "level" /\ level' = level + 1 /\ ticks' = 0
       \/ rtc' = (IF ticks = 0 THEN "frame" ELSE "poll") /\ UNCHANGED <<level, ticks>>
    /\ UNCHANGED <<buttons, buttons_pressed, next_dir, mtx, quit_flag, winner, keyboard, tux, taken, ended>>

Over ==
    /\ \/ rtc = "over" /\ rtc' = (IF quit_flag = 0 THEN "win" ELSE "done") /\ UNCHANGED winner
       \/ rtc = "win" /\ rtc' = "done" /\ winner' = 1
    /\ UNCHANGED <<buttons, buttons_pressed, next_dir, mtx, quit_flag, level, ticks, keyboard, tux, taken, ended>>

RtcThread == ~ended /\ (Level \/ Frame \/ Poll \/ Flag \/ Signal \/ Tick \/ Over)

------------------------------------------------------------------------------
(* keyboard_thread: the test of winner, a key, and an arrow key's write. *)

ReadKey ==
    \/ keyboard = "test" /\ keyboard' = (IF winner = 0 THEN "getc" ELSE "done") /\ UNCHANGED quit_flag
    \/ keyboard = "getc" /\ keyboard' \in {"test", "set"} /\ UNCHANGED quit_flag
    \/ keyboard = "getc" /\ keyboard' = "done" /\ quit_flag' = 1

SetFromKey ==
    /\ keyboard = "set" /\ mtx = "none"
    /\ next_dir' \in Dirs
    /\ keyboard' = "test"
    /\ UNCHANGED quit_flag

KeyboardThread ==
    /\ ~ended
    /\ SetFromKey \/ (ReadKey /\ UNCHANGED next_dir)
    /\ UNCHANGED <<buttons, buttons_pressed, mtx, winner, rtcVars, tux, taken, ended>>

------------------------------------------------------------------------------
(* tux_thread *)

TestWinner ==
    /\ tux = "test"
    /\ tux' = IF winner = 0 THEN "lock" ELSE "done"
    /\ UNCHANGED <<buttons_pressed, next_dir, mtx, taken>>

\* pthread_mutex_lock, and pthread_cond_wait once it is woken.
Lock ==
    /\ tux = "lock" /\ mtx = "none"
    /\ mtx' = "tux" /\ tux' = "check"
    /\ UNCHANGED <<buttons_pressed, next_dir, taken>>

CheckOrWait ==
    /\ tux = "check"
    /\ IF buttons_pressed = 0 THEN tux' = "waiting" /\ mtx' = "none"
       ELSE tux' = "first" /\ UNCHANGED mtx
    /\ UNCHANGED <<buttons_pressed, next_dir, taken>>

DirOf(b) ==
    CASE b = TUX_UP -> DIR_UP [] b = TUX_DOWN -> DIR_DOWN [] b = TUX_RIGHT -> DIR_RIGHT
      [] b = TUX_LEFT -> DIR_LEFT [] OTHER -> next_dir

\* buttons_pressed = 0, and the switch on buttons.
Obey(what) ==
    \/ what = "clear" /\ buttons_pressed' = 0 /\ UNCHANGED <<next_dir, taken>>
    \/ what = "switch" /\ next_dir' = DirOf(buttons) /\ taken' = buttons /\ UNCHANGED buttons_pressed

\* Variant: the mark is cleared once the buttons have been read.
OrderSwapped == <<"switch", "clear">>

\* Polls may come between the two.
Order == <<"clear", "switch">>

TakePress ==
    \/ tux = "first" /\ Obey(Order[1]) /\ tux' = "second" /\ UNCHANGED mtx
    \/ tux = "second" /\ Obey(Order[2]) /\ tux' = "test" /\ mtx' = "none"

TuxThread ==
    /\ ~ended
    /\ TestWinner \/ Lock \/ CheckOrWait \/ TakePress
    /\ UNCHANGED <<buttons, quit_flag, winner, rtcVars, keyboard, ended>>

\* pthread_cond_wait may return without a signal.
WakeUnasked ==
    /\ ~ended /\ tux = "waiting" /\ tux' = "lock"
    /\ UNCHANGED <<buttons, buttons_pressed, next_dir, mtx, quit_flag, winner, rtcVars, keyboard, taken, ended>>

------------------------------------------------------------------------------

\* Variant: main joins all three threads, as the other versions do.
JoinedAll == rtc = "done" /\ keyboard = "done" /\ tux = "done"

\* main joins two threads, and cancels the third wherever it is.
Joined == rtc = "done" /\ keyboard = "done"

End ==
    /\ Joined /\ ~ended
    /\ ended' = TRUE
    /\ UNCHANGED <<buttons, buttons_pressed, next_dir, mtx, quit_flag, winner, rtcVars, keyboard, tux, taken>>

Next == RtcThread \/ KeyboardThread \/ TuxThread \/ WakeUnasked \/ End

------------------------------------------------------------------------------

(* As long as the newest poll is that of a press, the press is marked, or  *)
(* the thread is about to act on it, or has, though polls write buttons    *)
(* and the mark without the mutex (mazegame.c:569-576 against :406-408).   *)
(* A press that the next poll replaces before the thread has run is lost:  *)
(* it has marked itself, but the thread finds the newer value.             *)
NewestKept ==
    buttons \in Arrows /\ buttons_pressed = 0 /\ rtc # "flag" /\ tux # "second" => taken = buttons

(* A button that is held is obeyed in the end: no signal is sent between   *)
(* the thread's test and its sleep, and no poll is taken for an old one.   *)
HeldIsObeyed ==
    \A b \in Arrows : <>[](buttons = b /\ rtc # "done") => <>[](taken = b)

(* A game that is won or quit ends, although the thread of the controller  *)
(* may sleep for ever (mazegame.c:825-827).                                *)
GameEnds == (winner = 1 \/ quit_flag = 1) ~> ended

(* What a player who holds a button, wins or quits is owed.                *)
GameGoesOn == HeldIsObeyed /\ GameEnds

====
