---- MODULE ClockedGame ----
(* The thread of the clock in originals/ECE391-MP2-Device-Drivers: it      *)
(* counts interrupts into seconds and minutes itself, draws the player     *)
(* only for a frame and takes it out of the picture again, and shows the   *)
(* level's time and fruits in a status bar and the time on the controller. *)
EXTENDS MazeWalk

CONSTANTS
    Mazes,                     \* what make_maze may return
    RTC_DIV, MINUTE,           \* 32 and 60 in the code
    MaxTicks,                  \* 8 in the code
    MaxMinutes                 \* bound: of a level

VARIABLES
    maze, walk, pic,                           \* the build buffer, as far as it is in view
    rtc_div, seconds, minutes,                 \* the level's clock
    reads,                                     \* history: how often it was read
    bar, led, old,                             \* shown: status bar, controller; last time sent
    need_redraw, shown, ticks, pc

clockVars == <<rtc_div, seconds, minutes, reads>>
statusVars == <<bar, led, old>>
vars == <<maze, walk, pic, clockVars, statusVars, need_redraw, shown, ticks, pc>>

Time(m, s) == <<m, s>>

Never == <<-1, -1>>

\* update_status: level, fruits and time as a text (text_convert in TextBar).
Status(m, mins, secs) == [fruits |-> Cardinality(m.fruits), time |-> Time(mins, secs)]

\* What is saved of the picture before the player is drawn.
update_background_buffer(p, w) == BlockAt(p, w)

\* A picture with the player in it, for as long as the screen is copied.
WithPlayer(p, w) == WithBlock(p, w.x, w.y, PlayerOver(BlockAt(p, w), w))

\* Variant: the player is not taken out of the picture.
RestoredNot(p, background, w) == p

\* draw_full_block of the saved background.
Restored(p, background, w) == WithBlock(p, w.x, w.y, background)

\* The thread begins: the controller shows 00.00.
Init ==
    /\ maze = NoMaze /\ walk = Nowhere /\ pic = NoPicture
    /\ rtc_div = 0 /\ seconds = 0 /\ minutes = 0 /\ reads = 0
    /\ bar = [fruits |-> 0, time |-> Never] /\ led = Time(0, 0) /\ old = Never
    /\ need_redraw = 0 /\ shown = Screen(pic, walk) /\ ticks = 0 /\ pc = "level"

\* prepare_maze_level and the start of a level.  The status bar is written
\* before a fruit at the start is eaten, and the controller is left alone.
StartLevel ==
    /\ pc = "level"
    /\ \E m \in Mazes :
           LET met == unveil_around_player(MapPicture(m, AtStart), m, AtStart)
           IN  /\ maze' = met.maze
               /\ bar' = Status(m, 0, 0)
               /\ shown' = Screen(WithPlayer(met.pic, AtStart), AtStart)
               /\ pic' = Restored(WithPlayer(met.pic, AtStart), update_background_buffer(met.pic, AtStart), AtStart)
    /\ walk' = AtStart
    /\ rtc_div' = 0 /\ seconds' = 0 /\ minutes' = 0 /\ reads' = 0 /\ old' = Never
    /\ pc' = "wait"
    /\ UNCHANGED <<led, need_redraw, ticks>>

\* Variant: the read that makes a second is not counted for the next.
DividerKept == IF rtc_div < RTC_DIV THEN rtc_div + 1 ELSE 1

\* One read more, or the divider begins again.
Divider == IF rtc_div < RTC_DIV THEN rtc_div + 1 ELSE 0

\* The read of the clock: the ticks that passed since the last, which count
\* once for seconds and minutes, however many they are.
Wait ==
    /\ pc = "wait" /\ minutes < MaxMinutes
    /\ reads' = reads + 1
    /\ rtc_div' = Divider
    /\ LET counted == IF rtc_div < RTC_DIV THEN seconds ELSE seconds + 1
       IN  /\ seconds' = IF counted = MINUTE THEN 0 ELSE counted
           /\ minutes' = IF counted = MINUTE THEN minutes + 1 ELSE minutes
           /\ need_redraw' = IF counted = seconds THEN need_redraw ELSE 1
    /\ ticks' \in 1 .. MaxTicks
    /\ pc' = "tick"
    /\ UNCHANGED <<maze, walk, pic, statusVars, shown>>

\* A step: the view moves, and a line comes into it.
Move(p, m, w) ==
    /\ walk' = Stepped(w)
    /\ pic' = Scrolled(p, m, walk')
    /\ need_redraw' = 1

\* A tick between two squares.
Between ==
    /\ pc = "tick" /\ ticks > 0
    /\ \E next \in Dirs :
           LET w == Turned(walk, next)
           IN  w.moves > 0 /\ Move(pic, maze, w)
    /\ ticks' = ticks - 1
    /\ UNCHANGED <<maze, clockVars, statusVars, shown, pc>>

\* A tick at a new square: fruit, mist, win, the way on, and a step on it.
NewSquare ==
    /\ pc = "tick" /\ ticks > 0
    /\ \E next \in Dirs \union {walk.dir} :
           LET w == Turned(walk, next)
               met == unveil_around_player(pic, maze, w)
               on == Chosen(w, next)
           IN  /\ w.moves = 0
               /\ maze' = met.maze
               /\ \/ /\ check_for_win(met.maze, w)
                     /\ pic' = met.pic /\ walk' = w /\ ticks' = 0 /\ pc' = "won"
                     /\ UNCHANGED need_redraw
                  \/ /\ ~check_for_win(met.maze, w)
                     /\ ticks' = ticks - 1
                     /\ UNCHANGED pc
                     /\ IF on.dir = DIR_STOP THEN pic' = met.pic /\ walk' = on /\ UNCHANGED need_redraw
                        ELSE Move(met.pic, met.maze, on)
    /\ UNCHANGED <<clockVars, statusVars, shown>>

\* Variant: the controller is told the time only at a full minute.
SendsMinutes == minutes # old[1]

\* Whether the time on the controller is to be changed.
SendsTime == Time(minutes, seconds) # old

\* After the ticks: the player is drawn, shown and taken out again.
Redraw ==
    /\ (pc = "tick" /\ ticks = 0) \/ pc = "won"
    /\ IF need_redraw = 1
       THEN /\ bar' = Status(maze, minutes, seconds)
            /\ led' = IF SendsTime THEN Time(minutes, seconds) ELSE led
            /\ old' = IF SendsTime THEN Time(minutes, seconds) ELSE old
            /\ shown' = Screen(WithPlayer(pic, walk), walk)
            /\ pic' = Restored(WithPlayer(pic, walk), update_background_buffer(pic, walk), walk)
       ELSE UNCHANGED <<statusVars, shown, pic>>
    /\ need_redraw' = 0
    /\ pc' = (IF pc = "won" THEN "level" ELSE "wait")
    /\ UNCHANGED <<maze, walk, clockVars, ticks>>

\* The loop over levels is left: all are done, one cannot be prepared, or the
\* game was quit, which is looked at here and before each read of the clock.
Leave ==
    /\ pc \in {"level", "wait"} /\ pc' = "over"
    /\ UNCHANGED <<maze, walk, pic, clockVars, statusVars, need_redraw, shown, ticks>>

Next == StartLevel \/ Wait \/ Between \/ NewSquare \/ Redraw \/ Leave

Spec == Init /\ [][Next]_vars

------------------------------------------------------------------------------

(* Between frames the picture is the map and nothing else, however many    *)
(* ticks were taken up at once and whatever was unveiled in between, and   *)
(* the screen is the map with the player over it; a player who stopped may *)
(* be shown what was there before (mazegame.c:558-681).                    *)
FrameTrue ==
    pc = "wait" =>
        /\ pic = MapPicture(maze, walk)
        /\ walk.dir # DIR_STOP => shown = Screen(WithPlayer(pic, walk), walk)

(* The bar shows the level's time, the controller too once there was a     *)
(* frame in the level.  A second is one read of the clock more than the    *)
(* divider, not "every 32 interrupts" (mazegame.c:539-555): 33 of them if  *)
(* each read tells of one, and more if reads tell of several, so that the  *)
(* time falls behind.  The fruits in the bar are those left, or more while *)
(* the player is stopped: eating asks for no redraw.                       *)
StatusTrue ==
    pc = "wait" =>
        /\ minutes * MINUTE + seconds = reads \div (RTC_DIV + 1)
        /\ bar.time = Time(minutes, seconds)
        /\ old # Never => led = bar.time
        /\ bar.fruits >= Cardinality(maze.fruits)
        /\ walk.dir # DIR_STOP => bar.fruits = Cardinality(maze.fruits)
====
