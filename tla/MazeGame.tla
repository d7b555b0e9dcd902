---- MODULE MazeGame ----
(* mazegame.c: the thread of the clock moves the player, the threads of    *)
(* the keyboard and of the Tux controller set the direction wanted next,   *)
(* and main waits for the three.  The mutex guards next_dir.  A maze is    *)
(* what make_maze returns (MakeMaze); drawing is in ViewWindow.            *)
EXTENDS MazeLattice

CONSTANTS
    MAZE_MIN_X_DIM, MAZE_MAX_X_DIM, MAZE_MIN_Y_DIM, MAZE_MAX_Y_DIM,
    BLOCK_X_DIM, BLOCK_Y_DIM,      \* pixels of a location
    SCROLL_X_DIM, SCROLL_Y_DIM,    \* pixels of the view
    PAN_BORDER, SHOW_MIN, MAX_LEVEL,
    MaxTicks,                      \* 8 in the code: ticks taken up by one read
    Mazes,                         \* the mazes of each level
    Keys, Buttons                  \* what the player may press

VARIABLES
    level, open, fruits, exit, n_fruits, seen,             \* the maze
    map_x, map_y, play_x, play_y, dir, move_cnt,           \* the player
    num_fruits, goto_next_level, ticks, reversing, rtc,    \* rtc_thread
    state, key, keyboard,                                  \* keyboard_thread
    detected_buttons, tux,                                 \* tux_thread
    next_dir, mtx, quit_flag, winner,                      \* shared
    outcome                                                \* what main prints

mazeVars == <<level, open, fruits, exit, n_fruits, seen>>
playerVars == <<map_x, map_y, play_x, play_y, dir, move_cnt>>
rtcVars == <<mazeVars, playerVars, num_fruits, goto_next_level, ticks, reversing, rtc>>
keyboardVars == <<state, key, keyboard>>
tuxVars == <<detected_buttons, tux>>
vars == <<rtcVars, keyboardVars, tuxVars, next_dir, mtx, quit_flag, winner, outcome>>

BACKQUOTE == 96

ESC == 27

BRACKET == 91

\* UP, DOWN, RIGHT and LEFT as a terminal sends them, and what they ask for.
ArrowDir == [k \in 65 .. 68 |->
    CASE k = 65 -> DIR_UP [] k = 66 -> DIR_DOWN [] k = 67 -> DIR_RIGHT [] k = 68 -> DIR_LEFT]

\* The bits of the controller's direction buttons.
ButtonDir == [b \in {16, 32, 64, 128} |->
    CASE b = 16 -> DIR_UP [] b = 32 -> DIR_DOWN [] b = 64 -> DIR_LEFT [] b = 128 -> DIR_RIGHT]

Min2(a, b) == IF a < b THEN a ELSE b

XDimOf(l) == Min2(MAZE_MIN_X_DIM + 2 * (l - 1), MAZE_MAX_X_DIM)

YDimOf(l) == Min2(MAZE_MIN_Y_DIM + 2 * (l - 1), MAZE_MAX_Y_DIM)

\* The location of the block at these pixels.
At(px, py) == MAZE_INDEX(XDimOf(level), px \div BLOCK_X_DIM, py \div BLOCK_Y_DIM)

\* Locations that unveil_around_player clears of mist.
Unveiled(l, a, b) ==
    {MAZE_INDEX(XDimOf(l), c[1], c[2]) :
        c \in {c \in (((a - 1) .. (a + 1)) \X ((b - 1) .. (b + 1))) \union
                         {<<a, b - 2>>, <<a + 2, b>>, <<a, b + 2>>, <<a - 2, b>>} :
                  c[1] \in 0 .. 2 * XDimOf(l) /\ c[2] \in 0 .. 2 * YDimOf(l)}}

Init ==
    /\ level = 1 /\ open = {} /\ fruits = {} /\ exit = 0 /\ n_fruits = 0 /\ seen = {}
    /\ map_x = 0 /\ map_y = 0 /\ play_x = 0 /\ play_y = 0 /\ dir = DIR_UP /\ move_cnt = 0
    /\ num_fruits = 0 /\ goto_next_level = 0 /\ ticks = 0 /\ reversing = FALSE /\ rtc = "level"
    /\ state = 0 /\ key = 65 /\ keyboard = "test"
    /\ detected_buttons = 0 /\ tux = "test"
    /\ next_dir = 65 /\ mtx = "none" /\ quit_flag = 0 /\ winner = 0 /\ outcome = "none"

------------------------------------------------------------------------------
(* rtc_thread *)

\* Variant: the direction of the last level is kept.
StartDirKept == dir

StartDir == DIR_STOP

\* prepare_maze_level and the start of a level: a fruit at (1,1) is eaten at
\* once, after the thread has taken its own count of the fruits.
StartLevel ==
    /\ rtc = "level" /\ level <= MAX_LEVEL /\ quit_flag = 0
    /\ \E m \in Mazes[level] :
           LET start == MAZE_INDEX(XDimOf(level), 1, 1)
           IN  /\ open' = m.open /\ exit' = m.exit
               /\ fruits' = m.fruits \ {start}
               /\ num_fruits' = Cardinality(m.fruits)
               /\ n_fruits' = Cardinality(m.fruits) - (IF start \in m.fruits THEN 1 ELSE 0)
    /\ seen' = Unveiled(level, 1, 1)
    /\ map_x' = SHOW_MIN /\ map_y' = SHOW_MIN
    /\ play_x' = BLOCK_X_DIM /\ play_y' = BLOCK_Y_DIM
    /\ dir' = StartDir /\ next_dir' = DIR_STOP /\ move_cnt' = 0
    /\ goto_next_level' = 0
    /\ rtc' = "first"
    /\ UNCHANGED <<level, ticks, reversing, keyboardVars, tuxVars, mtx, quit_flag, winner, outcome>>

NoMoreLevels ==
    /\ rtc = "level" /\ (level > MAX_LEVEL \/ quit_flag = 1)
    /\ rtc' = "over"
    /\ UNCHANGED <<mazeVars, playerVars, num_fruits, goto_next_level, ticks, reversing,
                   keyboardVars, tuxVars, next_dir, mtx, quit_flag, winner, outcome>>

\* The loop over ticks, after the first read or the last tick: the test, and
\* the read of the clock, which gives the ticks that were missed together.
TestLevel ==
    /\ rtc = "first" \/ (rtc = "tick" /\ ticks = 0)
    /\ \/ /\ quit_flag = 0 /\ goto_next_level = 0
          /\ rtc' = "tick" /\ ticks' \in 1 .. MaxTicks
          /\ UNCHANGED level
       \/ /\ quit_flag = 1 \/ goto_next_level = 1
          /\ rtc' = "level" /\ level' = level + 1
          /\ UNCHANGED ticks
    /\ UNCHANGED <<open, fruits, exit, n_fruits, seen, playerVars, num_fruits, goto_next_level,
                   reversing, keyboardVars, tuxVars, next_dir, mtx, quit_flag, winner, outcome>>

Backwards == dir \in Dirs /\ next_dir \in Dirs /\ next_dir = Opposite(dir)

LockTick ==
    /\ rtc = "tick" /\ ticks > 0 /\ mtx = "none"
    /\ mtx' = "rtc" /\ ticks' = ticks - 1
    /\ reversing' = Backwards
    /\ rtc' = "steer"
    /\ UNCHANGED <<mazeVars, playerVars, num_fruits, goto_next_level,
                   keyboardVars, tuxVars, next_dir, quit_flag, winner, outcome>>

BlockDim(d) == IF d \in {DIR_UP, DIR_DOWN} THEN BLOCK_Y_DIM ELSE BLOCK_X_DIM

\* Moves left to the next square after turning around between two.
Turned == IF reversing /\ move_cnt > 0 THEN BlockDim(dir) - move_cnt ELSE move_cnt

\* Variant: the view follows only once the player has left the border behind.
PannedLate(map, pos, delta, scroll, block, dim) ==
    IF delta = -1 /\ pos - 1 < map /\ map > SHOW_MIN THEN map - 1
    ELSE IF delta = 1 /\ pos + 1 > map + scroll
                      /\ map + scroll < (2 * dim + 1) * block - SHOW_MIN THEN map + 1
    ELSE map

\* The view's corner after a step of delta pixels from pos along one axis.
Panned(map, pos, delta, scroll, block, dim) ==
    IF delta = -1 /\ pos - 1 < map + block * PAN_BORDER /\ map > SHOW_MIN THEN map - 1
    ELSE IF delta = 1 /\ pos + 1 > map + scroll - block * (PAN_BORDER + 1)
                      /\ map + scroll < (2 * dim + 1) * block - SHOW_MIN THEN map + 1
    ELSE map

DeltaX(d) == IF d = DIR_RIGHT THEN 1 ELSE IF d = DIR_LEFT THEN -1 ELSE 0

DeltaY(d) == IF d = DIR_DOWN THEN 1 ELSE IF d = DIR_UP THEN -1 ELSE 0

\* The pixel that move_up, move_right, move_down or move_left walks.
Move(d, moves) ==
    /\ dir' = d
    /\ move_cnt' = IF d = DIR_STOP THEN moves ELSE moves - 1
    /\ play_x' = play_x + DeltaX(d) /\ play_y' = play_y + DeltaY(d)
    /\ map_x' = Panned(map_x, play_x, DeltaX(d), SCROLL_X_DIM, BLOCK_X_DIM, XDimOf(level))
    /\ map_y' = Panned(map_y, play_y, DeltaY(d), SCROLL_Y_DIM, BLOCK_Y_DIM, YDimOf(level))

\* The direction taken from a new square.  With next_dir = DIR_STOP the code
\* reads open[] one past its end: either outcome of that test.
Chosen(d) ==
    LET way(e) == IsOpen(XDimOf(level), open, At(play_x, play_y), e)
        asked == IF next_dir = DIR_STOP THEN {d, DIR_STOP}
                 ELSE IF way(next_dir) THEN {next_dir} ELSE {d}
    IN  {IF e # DIR_STOP /\ ~way(e) THEN DIR_STOP ELSE e : e \in asked}

\* check_for_win
Wins(left, here) == left = 0 /\ here = exit

\* Variant: the count of what is left is not kept.
FruitsAfterSame(here) == n_fruits

\* check_for_fruit: the count once the fruit here is eaten.
FruitsAfter(here) == IF here \in fruits THEN n_fruits - 1 ELSE n_fruits

\* A new square, with the mutex held: fruit, mist, win, and the way on.
NewSquare(d) ==
    LET here == At(play_x, play_y)
        left == FruitsAfter(here)
    IN  /\ fruits' = fruits \ {here} /\ n_fruits' = left
        /\ seen' = seen \union Unveiled(level, play_x \div BLOCK_X_DIM, play_y \div BLOCK_Y_DIM)
        /\ IF Wins(left, here)
           THEN /\ goto_next_level' = 1 /\ ticks' = 0
                /\ dir' = d
                /\ UNCHANGED <<map_x, map_y, play_x, play_y, move_cnt, num_fruits>>
           ELSE /\ num_fruits' = IF num_fruits # left THEN num_fruits - 1 ELSE num_fruits
                /\ \E e \in Chosen(d) : Move(e, IF e = DIR_STOP THEN 0 ELSE BlockDim(e))
                /\ UNCHANGED <<goto_next_level, ticks>>

\* Variant: the way out of the loop that wins the level leaves the mutex locked.
UnlockedUnlessWon == IF goto_next_level' = 1 THEN "rtc" ELSE "none"

\* Both ways out of the tick unlock.
Unlocked == "none"

\* The rest of a tick: turn around, enter a new square, unlock and move.
Steer ==
    /\ rtc = "steer"
    /\ LET d == IF reversing THEN next_dir ELSE dir
       IN  IF Turned = 0 THEN NewSquare(d)
           ELSE /\ Move(d, Turned)
                /\ UNCHANGED <<fruits, n_fruits, seen, num_fruits, goto_next_level, ticks>>
    /\ mtx' = Unlocked
    /\ reversing' = FALSE
    /\ rtc' = "tick"
    /\ UNCHANGED <<level, open, exit, keyboardVars, tuxVars, next_dir, quit_flag, winner, outcome>>

\* Variant: whoever leaves the levels has won.
TestQuitNever == "win"

\* if (quit_flag == 0) winner = 1: a test, then a write.
TestQuit == IF quit_flag = 0 THEN "win" ELSE "done"

Over ==
    /\ \/ rtc = "over" /\ rtc' = TestQuit /\ UNCHANGED winner
       \/ rtc = "win" /\ rtc' = "done" /\ winner' = 1
    /\ UNCHANGED <<mazeVars, playerVars, num_fruits, goto_next_level, ticks, reversing,
                   keyboardVars, tuxVars, next_dir, mtx, quit_flag, outcome>>

RtcThread ==
    StartLevel \/ NoMoreLevels \/ TestLevel \/ LockTick \/ Steer \/ Over

------------------------------------------------------------------------------
(* keyboard_thread *)

\* Variant: the thread never looks at winner.
KeepReadingAlways == TRUE

KeepReading == winner = 0

TestWinner ==
    /\ keyboard = "test"
    /\ keyboard' = IF KeepReading THEN "getc" ELSE "done"
    /\ UNCHANGED <<rtcVars, state, key, tuxVars, next_dir, mtx, quit_flag, winner, outcome>>

\* getc on a non-blocking stdin: a key, or none, which also ends a sequence.
GetKey ==
    /\ keyboard = "getc"
    /\ \E k \in Keys \union {-1} :
           \/ /\ k = BACKQUOTE
              /\ quit_flag' = 1 /\ keyboard' = "done" /\ UNCHANGED <<state, key>>
           \/ /\ k = ESC \/ (k = BRACKET /\ state = 1)
              /\ state' = (IF k = ESC THEN 1 ELSE 2)
              /\ keyboard' = "test" /\ UNCHANGED <<key, quit_flag>>
           \/ /\ k \notin {BACKQUOTE, ESC} /\ ~(k = BRACKET /\ state = 1)
              /\ state' = 0
              /\ IF k \in DOMAIN ArrowDir /\ state = 2
                 THEN key' = k /\ keyboard' = "set"
                 ELSE key' = key /\ keyboard' = "test"
              /\ UNCHANGED quit_flag
    /\ UNCHANGED <<rtcVars, tuxVars, next_dir, mtx, winner, outcome>>

\* Variant: next_dir is written without the mutex.
MayWriteAlways == TRUE

MayWrite == mtx = "none"

SetFromKey ==
    /\ keyboard = "set" /\ MayWrite
    /\ next_dir' = ArrowDir[key]
    /\ key' = 65 /\ keyboard' = "test"      \* key is not read again: dropped
    /\ UNCHANGED <<rtcVars, state, tuxVars, mtx, quit_flag, winner, outcome>>

KeyboardThread == TestWinner \/ GetKey \/ SetFromKey

------------------------------------------------------------------------------
(* tux_thread *)

TestEnd == winner = 1 \/ quit_flag = 1

\* The loop's test and, if the game goes on, the ioctl for the buttons.
PollButtons ==
    /\ tux = "test"
    /\ \/ TestEnd /\ tux' = "done" /\ UNCHANGED detected_buttons
       \/ ~TestEnd /\ tux' = "set" /\ detected_buttons' \in Buttons
    /\ UNCHANGED <<rtcVars, keyboardVars, next_dir, mtx, quit_flag, winner, outcome>>

SetFromButtons ==
    /\ tux = "set" /\ MayWrite
    /\ next_dir' = IF detected_buttons \in DOMAIN ButtonDir THEN ButtonDir[detected_buttons] ELSE next_dir
    /\ detected_buttons' = 0 /\ tux' = "test"      \* nor are the buttons
    /\ UNCHANGED <<rtcVars, keyboardVars, mtx, quit_flag, winner, outcome>>

TuxThread == PollButtons \/ SetFromButtons

------------------------------------------------------------------------------
\* main joins the three threads, in that order, and prints the outcome.
JoinAll ==
    /\ rtc = "done" /\ keyboard = "done" /\ tux = "done" /\ outcome = "none"
    /\ outcome' = IF winner = 1 THEN "win" ELSE IF quit_flag = 1 THEN "quit" ELSE "lose"
    /\ UNCHANGED <<rtcVars, keyboardVars, tuxVars, next_dir, mtx, quit_flag, winner>>

Next == RtcThread \/ KeyboardThread \/ TuxThread \/ JoinAll

(* Each thread is scheduled, the clock ticks for ever, and neither getc    *)
(* (non-blocking) nor the ioctl of the buttons waits.                      *)
Fairness ==
    /\ WF_vars(RtcThread) /\ WF_vars(KeyboardThread) /\ WF_vars(TuxThread) /\ WF_vars(JoinAll)

Spec == Init /\ [][Next]_vars /\ Fairness

------------------------------------------------------------------------------

Playing == rtc \notin {"level", "over", "win", "done"}

(* The variables have their types; a thread holds the mutex only while it  *)
(* is in a tick, and tells where it is.                                    *)
TypeOK ==
    /\ level \in 1 .. MAX_LEVEL + 1
    /\ dir \in Dirs \union {DIR_STOP} /\ next_dir \in Dirs \union {DIR_STOP, 65}
    /\ rtc \in {"level", "first", "tick", "steer", "over", "win", "done"}
    /\ keyboard \in {"test", "getc", "set", "done"} /\ tux \in {"test", "set", "done"}
    /\ ticks \in 0 .. MaxTicks /\ state \in 0 .. 2
    /\ mtx = (IF rtc = "steer" THEN "rtc" ELSE "none")
    /\ quit_flag \in {0, 1} /\ winner \in {0, 1}

(* The player is on a passage: move_cnt pixels ahead lies a square that is *)
(* open and seen, one block back lies another, and between the two nothing *)
(* is crossed.  A direction written between the test for turning around    *)
(* (mazegame.c:557) and its use (:567) would walk the player into a wall.  *)
OnPath ==
    Playing =>
        LET ax == play_x + move_cnt * DeltaX(dir)
            ay == play_y + move_cnt * DeltaY(dir)
            bx == ax - BLOCK_X_DIM * DeltaX(dir)
            by == ay - BLOCK_Y_DIM * DeltaY(dir)
        IN  /\ ax % BLOCK_X_DIM = 0 /\ ay % BLOCK_Y_DIM = 0
            /\ At(ax, ay) \in open \intersect seen
            /\ move_cnt > 0 => /\ dir \in Dirs /\ move_cnt < BlockDim(dir)
                              /\ At(bx, by) \in open \intersect seen

(* While no direction has been asked for, open[] is read past its end      *)
(* (mazegame.c:603): whatever is there, the player has not been moving.    *)
StopIsStill == Playing /\ next_dir = DIR_STOP => dir = DIR_STOP /\ move_cnt = 0

(* The player's block is in the view, and the view within the maze, as     *)
(* draw_full_block's clipping and the line drawing need (mazegame.c:177).  *)
InView ==
    Playing =>
        /\ map_x <= play_x /\ play_x + BLOCK_X_DIM <= map_x + SCROLL_X_DIM
        /\ map_y <= play_y /\ play_y + BLOCK_Y_DIM <= map_y + SCROLL_Y_DIM
        /\ SHOW_MIN <= map_x /\ map_x + SCROLL_X_DIM <= (2 * XDimOf(level) + 1) * BLOCK_X_DIM - SHOW_MIN
        /\ SHOW_MIN <= map_y /\ map_y + SCROLL_Y_DIM <= (2 * YDimOf(level) + 1) * BLOCK_Y_DIM - SHOW_MIN

(* n_fruits is what lies in the maze, and the thread's own count, which    *)
(* shows one caption per change (mazegame.c:579), is never behind by more  *)
(* than one, nor behind at all once the player moves.                      *)
FruitsCounted ==
    Playing =>
        /\ n_fruits = Cardinality(fruits)
        /\ num_fruits - n_fruits \in {0, 1}
        /\ dir # DIR_STOP => num_fruits = n_fruits

(* The game is won in one way: the last level's fruits are eaten and the   *)
(* player stands on its exit.  Quitting at any point, the last test and    *)
(* its write included, does not win a game (mazegame.c:490-679).           *)
WinEarned ==
    winner = 1 \/ rtc = "win" =>
        level = MAX_LEVEL + 1 /\ goto_next_level = 1 /\ n_fruits = 0 /\ fruits = {}

(* The player stays on the passages and in the view, whatever the threads  *)
(* write between two looks at next_dir (mazegame.c:549-656).               *)
PlayerSafety == TypeOK /\ OnPath /\ StopIsStill /\ InView

(* A win is earned, and by fruits that were really there                   *)
(* (mazegame.c:571-679).                                                   *)
WinsEarned == WinEarned /\ FruitsCounted

(* Once the game is won or quit, all three threads end and main says so,   *)
(* whatever the others were doing (mazegame.c:778-800).                    *)
AllEnd == (quit_flag = 1 \/ winner = 1) ~> (outcome # "none")

------------------------------------------------------------------------------
(***************************************************************************)
(* The inductive invariant, for mazes of every size and any proportions of *)
(* block and view in which the maze fills the view; the proofs are in      *)
(* MCMazeGame.                                                             *)
(***************************************************************************)

\* A block fits twice into what the view shows of the border and the maze,
\* and the smallest maze fills the view.
Proportions ==
    /\ MAZE_MIN_X_DIM \in Nat \ {0} /\ MAZE_MAX_X_DIM \in Nat /\ MAZE_MIN_X_DIM <= MAZE_MAX_X_DIM
    /\ MAZE_MIN_Y_DIM \in Nat \ {0} /\ MAZE_MAX_Y_DIM \in Nat /\ MAZE_MIN_Y_DIM <= MAZE_MAX_Y_DIM
    /\ BLOCK_X_DIM \in Nat \ {0} /\ BLOCK_Y_DIM \in Nat \ {0}
    /\ SCROLL_X_DIM \in Nat /\ SCROLL_Y_DIM \in Nat
    /\ PAN_BORDER \in Nat /\ MAX_LEVEL \in Nat \ {0} /\ MaxTicks \in Nat \ {0}
    /\ SHOW_MIN \in 0 .. BLOCK_X_DIM /\ SHOW_MIN \in 0 .. BLOCK_Y_DIM
    /\ 2 * BLOCK_X_DIM <= SHOW_MIN + SCROLL_X_DIM
    /\ 2 * BLOCK_Y_DIM <= SHOW_MIN + SCROLL_Y_DIM
    /\ SCROLL_X_DIM + 2 * SHOW_MIN <= (2 * MAZE_MIN_X_DIM + 1) * BLOCK_X_DIM
    /\ SCROLL_Y_DIM + 2 * SHOW_MIN <= (2 * MAZE_MIN_Y_DIM + 1) * BLOCK_Y_DIM

\* The mazes of each level are such as make_maze returns.
MazesGood ==
    \A l \in 1 .. MAX_LEVEL : \A m \in Mazes[l] :
        GoodMaze(XDimOf(l), YDimOf(l), m.open, m.fruits, m.exit)

\* A location of the maze, by its column and row, that is open and seen.
Square(a, b) ==
    /\ a \in 1 .. 2 * XDimOf(level) - 1 /\ b \in 1 .. 2 * YDimOf(level) - 1
    /\ MAZE_INDEX(XDimOf(level), a, b) \in open \intersect seen

\* The player is move_cnt pixels before square (a, b), on the way there from
\* the square before it.
Approaches(a, b) ==
    /\ Square(a, b)
    /\ play_x = BLOCK_X_DIM * a - move_cnt * DeltaX(dir)
    /\ play_y = BLOCK_Y_DIM * b - move_cnt * DeltaY(dir)
    /\ \/ move_cnt = 0
       \/ /\ dir \in Dirs /\ move_cnt \in 1 .. BlockDim(dir) - 1
          /\ Square(a - DeltaX(dir), b - DeltaY(dir))

PathInv ==
    /\ open \subseteq Inside(XDimOf(level), YDimOf(level))
    /\ \E a \in 1 .. 2 * XDimOf(level) - 1, b \in 1 .. 2 * YDimOf(level) - 1 : Approaches(a, b)
    /\ map_x \in Int /\ map_y \in Int

\* Before the player's first square the thread may count a fruit more.
FruitInv ==
    /\ IsFiniteSet(fruits) /\ exit \notin fruits
    /\ num_fruits \in Int
    /\ num_fruits # n_fruits => At(play_x, play_y) \notin fruits
    /\ goto_next_level \in {0, 1}
    /\ goto_next_level = 1 => n_fruits = 0 /\ fruits = {}

\* What a level that was left, and not by quitting, was left with.
LeftWon == goto_next_level = 1 /\ n_fruits = 0 /\ fruits = {}

\* The threads beside the player's, and what they agree on.
ThreadsInv ==
    /\ TypeOK
    /\ keyboard = "set" => key \in 65 .. 68
    /\ rtc = "steer" => reversing = Backwards
    /\ Playing => level <= MAX_LEVEL /\ next_dir # 65

\* How a game comes to be won.
WinInv ==
    /\ rtc \in {"level", "over"} /\ quit_flag = 0 /\ level > 1 => LeftWon
    /\ rtc = "over" /\ quit_flag = 0 => level = MAX_LEVEL + 1
    /\ WinEarned /\ (winner = 1 => rtc = "done")

IInv ==
    /\ ThreadsInv /\ WinInv
    /\ Playing => PathInv /\ FruitInv
    /\ StopIsStill /\ InView /\ FruitsCounted

\* What InView says of the view, whoever plays.
ViewOK ==
    /\ map_x <= play_x /\ play_x + BLOCK_X_DIM <= map_x + SCROLL_X_DIM
    /\ map_y <= play_y /\ play_y + BLOCK_Y_DIM <= map_y + SCROLL_Y_DIM
    /\ SHOW_MIN <= map_x /\ map_x + SCROLL_X_DIM <= (2 * XDimOf(level) + 1) * BLOCK_X_DIM - SHOW_MIN
    /\ SHOW_MIN <= map_y /\ map_y + SCROLL_Y_DIM <= (2 * YDimOf(level) + 1) * BLOCK_Y_DIM - SHOW_MIN

\* Where the player is, what is drawn, and where to go.
Steered ==
    /\ PathInv /\ ViewOK /\ dir \in Dirs \union {DIR_STOP}
    /\ next_dir = DIR_STOP => dir = DIR_STOP /\ move_cnt = 0

\* The fruits that lie and the fruits that are counted.
Counted ==
    /\ FruitInv /\ n_fruits = Cardinality(fruits)
    /\ num_fruits - n_fruits \in {0, 1}
    /\ dir # DIR_STOP => num_fruits = n_fruits
====
