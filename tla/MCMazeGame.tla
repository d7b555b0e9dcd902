---- MODULE MCMazeGame ----
(* Playing, making the mazes that are played, the threads of an earlier    *)
(* version, and the program that tries the input: four parts that share no *)
(* variable, of which a behaviour runs one.                                *)
EXTENDS MazeGame, SequenceTheorems, FiniteSetTheorems, TLAPS

CONSTANTS MAKE_X_DIM, MAKE_Y_DIM, StartFruits, Few, MaxTrials, BRIGHTEST, Chars, Presses, MaxRead

VARIABLES
    part, with_tux,
    stage, made_open, reach, remaining, x, y, pref_dir, trials, made_fruits, made_count, made_exit,
    begun, term, stdin_blocks, video, printed, at_level, passed, clock, comp, fade_dir, rgb,
    escape, char, keys, buttonpress, controller, wanted, quit, won, unmade,
    version, main, tty, saved, tty_blocks, heading, prev_cur, pushed, chars_state, tail, told, reads

Make == INSTANCE MakeMaze WITH
    XDim <- MAKE_X_DIM, YDim <- MAKE_Y_DIM,
    open <- made_open, fruits <- made_fruits, n_fruits <- made_count, exit <- made_exit

Threads == INSTANCE GameThreads WITH
    Keys <- {96, 27, 91, 65}, Presses <- {0, 64}, main <- begun, outcome <- printed,
    level <- at_level, ticks <- passed, rtc <- clock,
    state <- escape, key <- char, keyboard <- keys, tux <- controller,
    next_dir <- wanted, quit_flag <- quit, winner <- won

Input == INSTANCE InputCommands WITH
    term <- tty, stdin_blocks <- tty_blocks, dir <- heading, state <- chars_state

making == <<stage, made_open, reach, remaining, x, y, pref_dir, trials, made_fruits, made_count, made_exit>>
threads == <<begun, term, stdin_blocks, video, printed, at_level, passed, clock, comp, fade_dir, rgb,
             escape, char, keys, buttonpress, controller, wanted, quit, won, unmade>>
asking ==
    <<version, main, tty, saved, tty_blocks, heading, prev_cur, pushed, chars_state, tail, told, reads>>
all == <<part, with_tux, vars, making, threads, asking>>

MCInit ==
    /\ part \in {"play", "make", "threads", "input"}
    /\ Init /\ Make!Init /\ Threads!Init /\ Input!Init
    /\ part # "input" => version = "keyboard"
    /\ part # "threads" => with_tux

Play(A) == part = "play" /\ A /\ UNCHANGED <<part, with_tux, making, threads, asking>>
Making(A) == part = "make" /\ A /\ UNCHANGED <<part, with_tux, vars, threads, asking>>
Threaded(A) == part = "threads" /\ A /\ UNCHANGED <<part, with_tux, vars, making, asking>>
Asking(A) == part = "input" /\ A /\ UNCHANGED <<part, with_tux, vars, making, threads>>

MCNext == Play(Next) \/ Making(Make!Next) \/ Threaded(Threads!Next) \/ Asking(Input!Next)

\* Each thread goes on, of whichever game, and so does the making of a maze.
MCSpec ==
    /\ MCInit /\ [][MCNext]_all
    /\ WF_all(Play(RtcThread) \/ Threaded(Threads!RtcThread) \/ Making(Make!Connect))
    /\ WF_all(Play(KeyboardThread) \/ Threaded(Threads!KeyboardThread))
    /\ WF_all(Play(TuxThread) \/ Threaded(Threads!TuxThread))
    /\ WF_all(Play(JoinAll) \/ Threaded(Threads!Main \/ Threads!MainOfTwo))

MazeSafety == Make!MazeSafety

(* Nothing is taken from threads that still run, what the programs around  *)
(* a game tell is what happened, and they restore the terminal that they   *)
(* have saved, with the exceptions that LeftTidy and TerminalLeft name:    *)
(* GameThreads' ThreadsSafety and InputCommands' InputSafety               *)
(* (mazegame.c:858-954 and input.c:125-242).                               *)
EndsSafely == Threads!ThreadsSafety /\ Input!InputSafety

(* Making a maze ends, and so does a game that is won or quit, in this     *)
(* version and in the earlier one.                                         *)
AllEnds == Make!ConnectEnds /\ AllEnd /\ Threads!MainReturns

\* A maze: its passages as pairs of coordinates.
Maze(xd, yd, passages, fruitful, out) ==
    [open |-> Points(xd, yd) \union {MAZE_INDEX(xd, p[1], p[2]) : p \in passages},
     fruits |-> {MAZE_INDEX(xd, p[1], p[2]) : p \in fruitful},
     exit |-> MAZE_INDEX(xd, out[1], out[2])]

MCMazes == <<
    {Maze(2, 1, {<<2, 1>>}, {<<3, 1>>}, <<1, 1>>)},
    {Maze(2, 2, {<<2, 1>>, <<3, 2>>, <<2, 3>>}, {<<1, 1>>}, <<3, 3>>)}>>

ASSUME Proportions /\ MazesGood /\ Threads!Counted

------------------------------------------------------------------------------
(* Proofs about playing, with the invariants of MazeGame.                  *)

(* Products of a dimension with a block, which the arithmetic of the view  *)
(* and of the array is about.                                              *)
LEMMA DimsOK ==
    ASSUME Proportions, NEW l \in Nat \ {0}
    PROVE  /\ XDimOf(l) \in Nat \ {0}  /\ YDimOf(l) \in Nat \ {0}
           /\ XDimOf(l) >= MAZE_MIN_X_DIM  /\ YDimOf(l) >= MAZE_MIN_Y_DIM
BY DEF Proportions, XDimOf, YDimOf, Min2

(* A product grows with its first factor.                                  *)
LEMMA Grows ==
    ASSUME NEW m \in Nat, NEW n \in Nat, NEW block \in Nat, m <= n
    PROVE  (2 * m + 1) * block <= (2 * n + 1) * block
<1>1. PICK k \in Nat : n = m + k
  <2>1. n - m \in Nat /\ n = m + (n - m)  OBVIOUS
  <2> QED BY <2>1
<1>2. k * block \in Nat  BY SMT
<1> QED
  BY <1>1, <1>2, SMT

(* In every level the maze fills the view.                                 *)
LEMMA ViewFits ==
    ASSUME Proportions, NEW l \in Nat \ {0}
    PROVE  /\ SCROLL_X_DIM + 2 * SHOW_MIN <= (2 * XDimOf(l) + 1) * BLOCK_X_DIM
           /\ SCROLL_Y_DIM + 2 * SHOW_MIN <= (2 * YDimOf(l) + 1) * BLOCK_Y_DIM
<1>1. /\ (2 * MAZE_MIN_X_DIM + 1) * BLOCK_X_DIM <= (2 * XDimOf(l) + 1) * BLOCK_X_DIM
      /\ (2 * MAZE_MIN_Y_DIM + 1) * BLOCK_Y_DIM <= (2 * YDimOf(l) + 1) * BLOCK_Y_DIM
  BY DimsOK, Grows DEF Proportions
<1>2. /\ (2 * XDimOf(l) + 1) * BLOCK_X_DIM \in Int /\ (2 * MAZE_MIN_X_DIM + 1) * BLOCK_X_DIM \in Int
      /\ (2 * YDimOf(l) + 1) * BLOCK_Y_DIM \in Int /\ (2 * MAZE_MIN_Y_DIM + 1) * BLOCK_Y_DIM \in Int
  BY DimsOK DEF Proportions
<1> QED
  BY <1>1, <1>2 DEF Proportions

(* A multiple of the block is divided without rest.                        *)
LEMMA MultipleIs ==
    ASSUME NEW block \in Nat \ {0}, NEW n \in Int
    PROVE  (block * n) \div block = n /\ (block * n) % block = 0
<1> DEFINE p == block * n
           q == p \div block
           r == p % block
<1>1. p \in Int /\ p = block * q + r /\ q \in Int /\ r \in 0 .. block - 1
  BY SMT
<1>2. block * (n - q) = r
  BY <1>1, SMT
<1>3. n - q = 0
  <2>1. CASE n - q >= 1
    <3>1. block * (n - q) >= block  BY <1>1, <2>1, SMT
    <3> QED BY <3>1, <1>2, <1>1, SMT
  <2>2. CASE n - q <= -1
    <3>1. block * (n - q) <= -block  BY <1>1, <2>2, SMT
    <3> QED BY <3>1, <1>2, <1>1, SMT
  <2> QED
    BY <1>1, <2>1, <2>2, SMT
<1> QED
  BY <1>1, <1>2, <1>3, SMT

(* The location under the corner of a block.                               *)
LEMMA AtCorner ==
    ASSUME Proportions, NEW a \in Int, NEW b \in Int
    PROVE  At(BLOCK_X_DIM * a, BLOCK_Y_DIM * b) = MAZE_INDEX(XDimOf(level), a, b)
BY MultipleIs DEF Proportions, At

(* Within the columns and rows of the maze, an index stands for one        *)
(* location: the boundary's two columns share theirs, and have none inside.*)
LEMMA InsideIs ==
    ASSUME NEW xd \in Nat \ {0}, NEW yd \in Nat \ {0}, NEW a \in 0 .. 2 * xd, NEW b \in Int,
           MAZE_INDEX(xd, a, b) \in Inside(xd, yd)
    PROVE  a \in 1 .. 2 * xd - 1 /\ b \in 1 .. 2 * yd - 1
<1>1. PICK c \in 1 .. 2 * xd - 1, e \in 1 .. 2 * yd - 1 :
        MAZE_INDEX(xd, a, b) = MAZE_INDEX(xd, c, e)
  BY DEF Inside
<1>2. (2 * xd) * (b - e) = c - a
  BY <1>1, SMT DEF MAZE_INDEX
<1> DEFINE w == 2 * xd
           k == b - e
<1>3. w \in Nat \ {0} /\ k \in Int /\ w * k = c - a /\ c - a < w /\ c - a > -w
  BY <1>2
<1>4. k = 0
  <2> HIDE DEF w, k
  <2>1. CASE k >= 1
    <3>1. w * k >= w  BY <1>3, <2>1, SMT
    <3> QED BY <3>1, <1>3, SMT
  <2>2. CASE k <= -1
    <3>1. w * k <= -w  BY <1>3, <2>2, SMT
    <3> QED BY <3>1, <1>3, SMT
  <2> QED
    BY <1>3, <2>1, <2>2
<1>5. a = c /\ b = e
  BY <1>3, <1>4, SMT
<1> QED
  BY <1>5

(* A step in a direction is a step from an index to an index.              *)
LEMMA StepIs ==
    ASSUME NEW xd \in Nat \ {0}, NEW a \in Int, NEW b \in Int, NEW d \in Dirs
    PROVE  MAZE_INDEX(xd, a, b) + StepOffset(xd, d) = MAZE_INDEX(xd, a + DeltaX(d), b + DeltaY(d))
<1>1. d \in {0, 1, 2, 3}
  BY DEF Dirs, DIR_UP, DIR_LEFT
<1>2. /\ (b + 1 + 1) * xd * 2 = (b + 1) * xd * 2 + 2 * xd
      /\ (b - 1 + 1) * xd * 2 = (b + 1) * xd * 2 - 2 * xd
  BY SMT
<1> QED
  BY <1>1, <1>2, SMT DEF MAZE_INDEX, StepOffset, DeltaX, DeltaY, DIR_UP, DIR_RIGHT, DIR_DOWN, DIR_LEFT

(* The view's corner after a step along one axis to a place within the     *)
(* maze's boundary: the block stays in the view, the view in the maze.     *)
LEMMA PannedIs ==
    ASSUME NEW map \in Int, NEW pos \in Int, NEW delta \in {-1, 0, 1},
           NEW scroll \in Nat, NEW block \in Nat \ {0}, NEW dim \in Nat,
           PAN_BORDER \in Nat, SHOW_MIN \in 0 .. block,
           map <= pos, pos + block <= map + scroll,
           SHOW_MIN <= map, map + scroll <= (2 * dim + 1) * block - SHOW_MIN,
           delta # 0 => /\ block <= pos + delta
                        /\ pos + delta + 2 * block <= (2 * dim + 1) * block
    PROVE  LET corner == Panned(map, pos, delta, scroll, block, dim)
           IN  /\ corner \in Int
               /\ corner <= pos + delta /\ pos + delta + block <= corner + scroll
               /\ SHOW_MIN <= corner /\ corner + scroll <= (2 * dim + 1) * block - SHOW_MIN
<1> DEFINE width == (2 * dim + 1) * block
           border == block * PAN_BORDER
<1>1. /\ width \in Int /\ border \in Nat
      /\ block * (PAN_BORDER + 1) = border + block
  BY SMT
<1>2. Panned(map, pos, delta, scroll, block, dim) =
        IF delta = -1 /\ pos - 1 < map + border /\ map > SHOW_MIN THEN map - 1
        ELSE IF delta = 1 /\ pos + 1 > map + scroll - (border + block) /\ map + scroll < width - SHOW_MIN
             THEN map + 1
             ELSE map
  BY <1>1 DEF Panned
<1>3. /\ map + scroll <= width - SHOW_MIN
      /\ delta # 0 => pos + delta + 2 * block <= width
  OBVIOUS
<1> DEFINE corner == Panned(map, pos, delta, scroll, block, dim)
           Fits == /\ corner \in Int
                   /\ corner <= pos + delta /\ pos + delta + block <= corner + scroll
                   /\ SHOW_MIN <= corner /\ corner + scroll <= width - SHOW_MIN
<1> HIDE DEF width, border
<1>4. CASE delta = -1
  <2>1. corner = IF pos - 1 < map + border /\ map > SHOW_MIN THEN map - 1 ELSE map
    BY <1>2, <1>4
  <2> HIDE DEF corner
  <2>2. Fits
    BY <1>1, <1>3, <1>4, <2>1
  <2> QED
    BY <2>2 DEF corner, width
<1>5. CASE delta = 1
  <2>1. corner = IF pos + 1 > map + scroll - (border + block) /\ map + scroll < width - SHOW_MIN
                 THEN map + 1 ELSE map
    BY <1>2, <1>5
  <2> HIDE DEF corner
  <2>2. Fits
    BY <1>1, <1>3, <1>5, <2>1
  <2> QED
    BY <2>2 DEF corner, width
<1>6. CASE delta = 0
  BY <1>1, <1>2, <1>3, <1>6 DEF width
<1> QED
  BY <1>4, <1>5, <1>6

(* The four directions, and the pixels they go.                            *)
LEMMA Deltas ==
    /\ \A d \in Dirs \union {DIR_STOP} : DeltaX(d) \in {-1, 0, 1} /\ DeltaY(d) \in {-1, 0, 1}
    /\ DeltaX(DIR_STOP) = 0 /\ DeltaY(DIR_STOP) = 0 /\ DIR_STOP \notin Dirs /\ 65 \notin Dirs
    /\ \A d \in Dirs :
           /\ DeltaX(d) # 0 <=> DeltaY(d) = 0
           /\ BlockDim(d) = IF DeltaX(d) = 0 THEN BLOCK_Y_DIM ELSE BLOCK_X_DIM
           /\ Opposite(d) \in Dirs
           /\ DeltaX(Opposite(d)) = -DeltaX(d) /\ DeltaY(Opposite(d)) = -DeltaY(d)
<1>1. Dirs = {0, 1, 2, 3}
  BY DEF Dirs, DIR_UP, DIR_LEFT
<1>2. /\ Opposite(0) = 2 /\ Opposite(1) = 3 /\ Opposite(2) = 0 /\ Opposite(3) = 1
  BY DEF Opposite
<1>3. /\ DeltaX(0) = 0 /\ DeltaX(1) = 1 /\ DeltaX(2) = 0 /\ DeltaX(3) = -1 /\ DeltaX(4) = 0
      /\ DeltaY(0) = -1 /\ DeltaY(1) = 0 /\ DeltaY(2) = 1 /\ DeltaY(3) = 0 /\ DeltaY(4) = 0
  BY DEF DeltaX, DeltaY, DIR_UP, DIR_RIGHT, DIR_DOWN, DIR_LEFT
<1>4. /\ BlockDim(0) = BLOCK_Y_DIM /\ BlockDim(1) = BLOCK_X_DIM
      /\ BlockDim(2) = BLOCK_Y_DIM /\ BlockDim(3) = BLOCK_X_DIM
  BY DEF BlockDim, DIR_UP, DIR_DOWN
<1>5. \A d \in Dirs \union {DIR_STOP} : d \in {0, 1, 2, 3, 4}
  BY <1>1 DEF DIR_STOP
<1>6. ASSUME NEW d \in Dirs
      PROVE  /\ DeltaX(d) # 0 <=> DeltaY(d) = 0
             /\ BlockDim(d) = IF DeltaX(d) = 0 THEN BLOCK_Y_DIM ELSE BLOCK_X_DIM
             /\ Opposite(d) \in Dirs
             /\ DeltaX(Opposite(d)) = -DeltaX(d) /\ DeltaY(Opposite(d)) = -DeltaY(d)
  <2>1. CASE d = 0  BY <1>1, <1>2, <1>3, <1>4, <2>1
  <2>2. CASE d = 1  BY <1>1, <1>2, <1>3, <1>4, <2>2
  <2>3. CASE d = 2  BY <1>1, <1>2, <1>3, <1>4, <2>3
  <2>4. CASE d = 3  BY <1>1, <1>2, <1>3, <1>4, <2>4
  <2> QED           BY <1>1, <2>1, <2>2, <2>3, <2>4
<1>7. \A d \in Dirs \union {DIR_STOP} : DeltaX(d) \in {-1, 0, 1} /\ DeltaY(d) \in {-1, 0, 1}
  BY <1>3, <1>5
<1>8. DeltaX(DIR_STOP) = 0 /\ DeltaY(DIR_STOP) = 0 /\ DIR_STOP \notin Dirs /\ 65 \notin Dirs
  BY <1>1, <1>3 DEF DIR_STOP
<1> QED
  BY <1>6, <1>7, <1>8

(* Along one axis: moves pixels before a column a, on the way from the     *)
(* column before it, a step towards it stays off the boundary.             *)
LEMMA OffBoundary ==
    ASSUME NEW block \in Nat \ {0}, NEW dim \in Nat, NEW delta \in {-1, 1}, NEW moves \in 1 .. block,
           NEW a \in 1 .. 2 * dim - 1, a - delta \in 1 .. 2 * dim - 1
    PROVE  LET pos == block * a - moves * delta + delta
           IN  block <= pos /\ pos + 2 * block <= (2 * dim + 1) * block
<1> DEFINE pa == block * a
           width == (2 * dim + 1) * block
<1>1. pa \in Int /\ width \in Int /\ pa >= block /\ pa + 2 * block <= width
  <2>1. block * (a - 1) >= 0 /\ block * (2 * dim - 1 - a) >= 0
    BY SMT
  <2>2. block * (a - 1) = pa - block /\ block * (2 * dim - 1 - a) = width - 2 * block - pa
    BY SMT
  <2>3. pa \in Int /\ width \in Int
    BY SMT
  <2> QED
    BY <2>1, <2>2, <2>3
<1>2. delta = 1 => pa >= 2 * block
  <2>1. ASSUME delta = 1 PROVE block * (a - 2) >= 0
    BY <2>1, SMT
  <2>2. block * (a - 2) = pa - 2 * block
    BY SMT
  <2> QED
    BY <2>1, <2>2, <1>1
<1>3. delta = -1 => pa + 3 * block <= width
  <2>1. ASSUME delta = -1 PROVE block * (2 * dim - 2 - a) >= 0
    BY <2>1, SMT
  <2>2. block * (2 * dim - 2 - a) = width - 3 * block - pa
    BY SMT
  <2> QED
    BY <2>1, <2>2, <1>1
<1>4. moves * 1 = moves /\ moves * (-1) = -moves
  BY SMT
<1> HIDE DEF pa, width
<1>5. CASE delta = 1
  BY <1>1, <1>2, <1>4, <1>5 DEF pa, width
<1>6. CASE delta = -1
  BY <1>1, <1>3, <1>4, <1>6 DEF pa, width
<1> QED
  BY <1>5, <1>6

(* A pixel walked in direction d, moves pixels before the square (a, b).   *)
LEMMA Walks ==
    ASSUME Proportions, level \in Nat \ {0}, NEW d \in Dirs, NEW moves \in 1 .. BlockDim(d),
           NEW a \in Int, NEW b \in Int, Square(a, b)', Square(a - DeltaX(d), b - DeltaY(d))',
           play_x = BLOCK_X_DIM * a - moves * DeltaX(d),
           play_y = BLOCK_Y_DIM * b - moves * DeltaY(d),
           map_x \in Int, map_y \in Int, ViewOK, Move(d, moves),
           level' = level
    PROVE  Approaches(a, b)' /\ ViewOK' /\ map_x' \in Int /\ map_y' \in Int
<1> DEFINE dx == DeltaX(d)
           dy == DeltaY(d)
<1>1. /\ dx \in {-1, 0, 1} /\ dy \in {-1, 0, 1} /\ (dx # 0 <=> dy = 0)
      /\ BlockDim(d) = IF dx = 0 THEN BLOCK_Y_DIM ELSE BLOCK_X_DIM
      /\ d # DIR_STOP
  BY Deltas
<1>2. /\ XDimOf(level) \in Nat \ {0} /\ YDimOf(level) \in Nat \ {0}
      /\ BLOCK_X_DIM \in Nat \ {0} /\ BLOCK_Y_DIM \in Nat \ {0}
      /\ SCROLL_X_DIM \in Nat /\ SCROLL_Y_DIM \in Nat /\ PAN_BORDER \in Nat
      /\ SHOW_MIN \in 0 .. BLOCK_X_DIM /\ SHOW_MIN \in 0 .. BLOCK_Y_DIM
  BY DimsOK DEF Proportions
<1>3. /\ dir' = d /\ move_cnt' = moves - 1
      /\ play_x' = play_x + dx /\ play_y' = play_y + dy
      /\ map_x' = Panned(map_x, play_x, dx, SCROLL_X_DIM, BLOCK_X_DIM, XDimOf(level))
      /\ map_y' = Panned(map_y, play_y, dy, SCROLL_Y_DIM, BLOCK_Y_DIM, YDimOf(level))
  BY <1>1 DEF Move
<1>4. moves \in Int /\ moves * dx \in Int /\ moves * dy \in Int
  BY <1>1, <1>2
<1>5. BLOCK_X_DIM * a \in Int /\ BLOCK_Y_DIM * b \in Int /\ play_x \in Int /\ play_y \in Int
  <2>1. BLOCK_X_DIM * a \in Int /\ BLOCK_Y_DIM * b \in Int
    BY <1>2
  <2> QED
    BY <2>1, <1>4
<1>6. /\ a \in 1 .. 2 * XDimOf(level) - 1 /\ a - dx \in 1 .. 2 * XDimOf(level) - 1
      /\ b \in 1 .. 2 * YDimOf(level) - 1 /\ b - dy \in 1 .. 2 * YDimOf(level) - 1
  BY DEF Square, XDimOf, YDimOf
<1>7. dx # 0 => /\ BLOCK_X_DIM <= play_x + dx
                /\ play_x + dx + 2 * BLOCK_X_DIM <= (2 * XDimOf(level) + 1) * BLOCK_X_DIM
  <2> SUFFICES ASSUME dx # 0
               PROVE  /\ BLOCK_X_DIM <= play_x + dx
                      /\ play_x + dx + 2 * BLOCK_X_DIM <= (2 * XDimOf(level) + 1) * BLOCK_X_DIM
    OBVIOUS
  <2>1. dx \in {-1, 1} /\ moves \in 1 .. BLOCK_X_DIM
    BY <1>1
  <2> HIDE DEF dx
  <2> QED
    BY <2>1, <1>2, <1>6, OffBoundary DEF dx
<1>8. dy # 0 => /\ BLOCK_Y_DIM <= play_y + dy
                /\ play_y + dy + 2 * BLOCK_Y_DIM <= (2 * YDimOf(level) + 1) * BLOCK_Y_DIM
  <2> SUFFICES ASSUME dy # 0
               PROVE  /\ BLOCK_Y_DIM <= play_y + dy
                      /\ play_y + dy + 2 * BLOCK_Y_DIM <= (2 * YDimOf(level) + 1) * BLOCK_Y_DIM
    OBVIOUS
  <2>1. dy \in {-1, 1} /\ moves \in 1 .. BLOCK_Y_DIM
    BY <1>1
  <2> HIDE DEF dy
  <2> QED
    BY <2>1, <1>2, <1>6, OffBoundary DEF dy
<1>9. /\ map_x' \in Int /\ map_x' <= play_x' /\ play_x' + BLOCK_X_DIM <= map_x' + SCROLL_X_DIM
      /\ SHOW_MIN <= map_x' /\ map_x' + SCROLL_X_DIM <= (2 * XDimOf(level) + 1) * BLOCK_X_DIM - SHOW_MIN
  <2> HIDE DEF dx
  <2> QED
    BY <1>1, <1>2, <1>3, <1>5, <1>7, PannedIs DEF ViewOK
<1>10. /\ map_y' \in Int /\ map_y' <= play_y' /\ play_y' + BLOCK_Y_DIM <= map_y' + SCROLL_Y_DIM
       /\ SHOW_MIN <= map_y' /\ map_y' + SCROLL_Y_DIM <= (2 * YDimOf(level) + 1) * BLOCK_Y_DIM - SHOW_MIN
  <2> HIDE DEF dy
  <2> QED
    BY <1>1, <1>2, <1>3, <1>5, <1>8, PannedIs DEF ViewOK
<1>11. ViewOK'
  BY <1>9, <1>10 DEF ViewOK, XDimOf, YDimOf
<1>12. /\ play_x' = BLOCK_X_DIM * a - move_cnt' * DeltaX(dir')
       /\ play_y' = BLOCK_Y_DIM * b - move_cnt' * DeltaY(dir')
  <2>1. (moves - 1) * dx = moves * dx - dx /\ (moves - 1) * dy = moves * dy - dy
    BY <1>1, <1>4, SMT
  <2> QED
    BY <2>1, <1>3, <1>4, <1>5, <1>1
<1>13. /\ Square(a, b)' /\ Square(a - DeltaX(d), b - DeltaY(d))'
       /\ DeltaX(dir') = DeltaX(d) /\ DeltaY(dir') = DeltaY(d) /\ BlockDim(dir') = BlockDim(d)
  BY <1>3
<1>14. move_cnt' = 0 \/ move_cnt' \in 1 .. BlockDim(dir') - 1
  BY <1>1, <1>2, <1>3
<1>15. Approaches(a, b)'
  BY <1>3, <1>12, <1>13, <1>14 DEF Approaches
<1> QED
  BY <1>9, <1>10, <1>11, <1>15

(* DIR_STOP moves nothing.                                                 *)
LEMMA Rests ==
    ASSUME NEW a \in Int, NEW b \in Int, Approaches(a, b), move_cnt = 0, Move(DIR_STOP, 0),
           Proportions, map_x \in Int, map_y \in Int,
           ViewOK, level' = level, open' = open, seen \subseteq seen'
    PROVE  Approaches(a, b)' /\ ViewOK' /\ map_x' \in Int /\ map_y' \in Int
<1>1. /\ dir' = DIR_STOP /\ move_cnt' = 0
      /\ play_x' = play_x + DeltaX(DIR_STOP) /\ play_y' = play_y + DeltaY(DIR_STOP)
      /\ DeltaX(DIR_STOP) = 0 /\ DeltaY(DIR_STOP) = 0
  BY Deltas DEF Move
<1>2. map_x' = map_x /\ map_y' = map_y
  BY Deltas DEF Move, Panned
<1>3. play_x = BLOCK_X_DIM * a /\ play_y = BLOCK_Y_DIM * b
  BY DEF Approaches, Proportions, DeltaX, DeltaY
<1>4. BLOCK_X_DIM * a \in Int /\ BLOCK_Y_DIM * b \in Int
  BY DEF Proportions
<1>5. play_x' = play_x /\ play_y' = play_y
  BY <1>1, <1>3, <1>4
<1>6. Square(a, b)'
  BY DEF Approaches, Square, XDimOf, YDimOf
<1>7. 0 * DeltaX(dir') = 0 /\ 0 * DeltaY(dir') = 0
  BY <1>1
<1>8. Approaches(a, b)'
  BY <1>1, <1>3, <1>4, <1>5, <1>6, <1>7 DEF Approaches
<1> QED
  BY <1>2, <1>5, <1>8 DEF ViewOK, XDimOf, YDimOf

(* An open wall leads to a square that is not on the boundary, and that    *)
(* the player, standing before it, has unveiled.                           *)
LEMMA OpenSquare ==
    ASSUME Proportions, level \in Nat \ {0}, open \subseteq Inside(XDimOf(level), YDimOf(level)),
           NEW a \in Int, NEW b \in Int, Square(a, b), NEW d \in Dirs,
           IsOpen(XDimOf(level), open, MAZE_INDEX(XDimOf(level), a, b), d)
    PROVE  LET c == a + DeltaX(d)
               e == b + DeltaY(d)
           IN  /\ c \in 1 .. 2 * XDimOf(level) - 1 /\ e \in 1 .. 2 * YDimOf(level) - 1
               /\ MAZE_INDEX(XDimOf(level), c, e) \in open \intersect Unveiled(level, a, b)
<1> DEFINE xd == XDimOf(level)
           yd == YDimOf(level)
           c == a + DeltaX(d)
           e == b + DeltaY(d)
<1>1. xd \in Nat \ {0} /\ yd \in Nat \ {0}
  BY DimsOK
<1>2. DeltaX(d) \in {-1, 0, 1} /\ DeltaY(d) \in {-1, 0, 1}
  BY Deltas
<1>3. a \in 1 .. 2 * xd - 1 /\ b \in 1 .. 2 * yd - 1
  BY DEF Square
<1>4. MAZE_INDEX(xd, c, e) \in open
  <2> HIDE DEF xd, yd
  <2>1. MAZE_INDEX(xd, a, b) + StepOffset(xd, d) = MAZE_INDEX(xd, c, e)
    BY <1>1, StepIs
  <2> QED
    BY <2>1 DEF IsOpen, xd
<1>5. c \in 0 .. 2 * xd /\ e \in 0 .. 2 * yd /\ c \in (a - 1) .. (a + 1) /\ e \in (b - 1) .. (b + 1)
  BY <1>1, <1>2, <1>3
<1>6. c \in 1 .. 2 * xd - 1 /\ e \in 1 .. 2 * yd - 1
  <2> HIDE DEF xd, yd, c, e
  <2>1. MAZE_INDEX(xd, c, e) \in Inside(xd, yd) /\ e \in Int
    BY <1>4, <1>5 DEF xd, yd
  <2> QED
    BY <1>1, <1>5, <2>1, InsideIs
<1>7. MAZE_INDEX(xd, c, e) \in Unveiled(level, a, b)
  <2> DEFINE near == ((a - 1) .. (a + 1)) \X ((b - 1) .. (b + 1))
  <2> HIDE DEF c, e
  <2>1. <<c, e>> \in near /\ <<c, e>>[1] = c /\ <<c, e>>[2] = e
    BY <1>5
  <2> QED
    BY <2>1, <1>5 DEF Unveiled
<1> QED
  BY <1>4, <1>6, <1>7

(* What is chosen at a square is to stop, or a direction that is open; and *)
(* who has not been moving and is not asked to, stops.                     *)
LEMMA ChosenIs ==
    ASSUME NEW d \in Dirs \union {DIR_STOP}, next_dir \in Dirs \union {DIR_STOP}, NEW e \in Chosen(d)
    PROVE  /\ \/ e = DIR_STOP
              \/ e \in Dirs /\ IsOpen(XDimOf(level), open, At(play_x, play_y), e)
           /\ d = DIR_STOP /\ next_dir = DIR_STOP => e = DIR_STOP
<1> DEFINE way(f) == IsOpen(XDimOf(level), open, At(play_x, play_y), f)
           asked == IF next_dir = DIR_STOP THEN {d, DIR_STOP}
                    ELSE IF way(next_dir) THEN {next_dir} ELSE {d}
<1> HIDE DEF way
<1>1. PICK f \in asked : e = IF f # DIR_STOP /\ ~way(f) THEN DIR_STOP ELSE f
  BY DEF Chosen, way
<1>2. f \in Dirs \union {DIR_STOP} /\ (d = DIR_STOP /\ next_dir = DIR_STOP => f = DIR_STOP)
  BY <1>1
<1> QED
  BY <1>1, <1>2 DEF way

(* The player stands on a square, or moves between two.                    *)
LEMMA Where ==
    ASSUME Proportions, NEW a \in Int, NEW b \in Int, Approaches(a, b), move_cnt = 0
    PROVE  /\ play_x = BLOCK_X_DIM * a /\ play_y = BLOCK_Y_DIM * b
           /\ play_x \div BLOCK_X_DIM = a /\ play_y \div BLOCK_Y_DIM = b
           /\ At(play_x, play_y) = MAZE_INDEX(XDimOf(level), a, b)
<1>1. 0 * DeltaX(dir) = 0 /\ 0 * DeltaY(dir) = 0
  BY DEF DeltaX, DeltaY
<1>2. BLOCK_X_DIM * a \in Int /\ BLOCK_Y_DIM * b \in Int
  BY DEF Proportions
<1>3. play_x = BLOCK_X_DIM * a /\ play_y = BLOCK_Y_DIM * b
  BY <1>1, <1>2 DEF Approaches
<1>4. BLOCK_X_DIM \in Nat \ {0} /\ BLOCK_Y_DIM \in Nat \ {0}
  BY DEF Proportions
<1> QED
  BY <1>3, <1>4, MultipleIs, AtCorner

(* The parts of the invariant, and back.                                   *)
LEMMA Parts ==
    IInv <=> ThreadsInv /\ WinInv /\ (Playing => Steered /\ Counted)
<1>1. ASSUME ThreadsInv PROVE dir \in Dirs \union {DIR_STOP}
  BY <1>1 DEF ThreadsInv, TypeOK
<1> QED
  BY <1>1 DEF IInv, StopIsStill, InView, FruitsCounted, Steered, Counted, ViewOK

(* The same after a step.                                                  *)
LEMMA PartsNext ==
    IInv' <=> ThreadsInv' /\ WinInv' /\ (Playing' => Steered' /\ Counted')
BY Parts, PTL

(* What holds of a player in the midst of a tick.                          *)
LEMMA InATick ==
    ASSUME Proportions, IInv, Playing
    PROVE  /\ level \in 1 .. MAX_LEVEL /\ level \in Nat \ {0} /\ Steered /\ Counted
           /\ next_dir \in Dirs \union {DIR_STOP} /\ (rtc = "steer" => reversing = Backwards)
BY Parts DEF ThreadsInv, TypeOK, Proportions

(* Between two squares the player goes on or turns around.                 *)
LEMMA Between ==
    ASSUME Proportions, IInv, Steer, Turned # 0
    PROVE  Steered' /\ Counted'
<1> DEFINE d == IF reversing THEN next_dir ELSE dir
<1>1. /\ level \in Nat \ {0} /\ Steered /\ Counted /\ reversing = Backwards
  BY InATick DEF Steer, Playing
<1>2. /\ Move(d, Turned) /\ UNCHANGED <<fruits, n_fruits, seen, num_fruits, goto_next_level, level, open, exit, next_dir>>
  BY DEF Steer
<1>3. PICK a \in 1 .. 2 * XDimOf(level) - 1, b \in 1 .. 2 * YDimOf(level) - 1 : Approaches(a, b)
  BY <1>1 DEF Steered, PathInv
<1>4. a \in Int /\ b \in Int /\ map_x \in Int /\ map_y \in Int
  BY <1>1, <1>3 DEF Steered, PathInv
<1>5. /\ Square(a, b) /\ Square(a - DeltaX(dir), b - DeltaY(dir))
      /\ dir \in Dirs /\ move_cnt \in 1 .. BlockDim(dir) - 1
      /\ play_x = BLOCK_X_DIM * a - move_cnt * DeltaX(dir)
      /\ play_y = BLOCK_Y_DIM * b - move_cnt * DeltaY(dir)
  <2>1. move_cnt # 0
    BY DEF Turned
  <2> QED
    BY <1>3, <2>1 DEF Approaches
<1>6. BLOCK_X_DIM \in Nat \ {0} /\ BLOCK_Y_DIM \in Nat \ {0} /\ BlockDim(dir) \in Nat \ {0}
  BY DEF Proportions, BlockDim
<1>7. \E p, q \in Int :
          /\ d \in Dirs /\ Turned \in 1 .. BlockDim(d) /\ Square(p, q)
          /\ p \in 1 .. 2 * XDimOf(level) - 1 /\ q \in 1 .. 2 * YDimOf(level) - 1
          /\ Square(p - DeltaX(d), q - DeltaY(d))
          /\ play_x = BLOCK_X_DIM * p - Turned * DeltaX(d)
          /\ play_y = BLOCK_Y_DIM * q - Turned * DeltaY(d)
  <2>1. CASE reversing
    <3> DEFINE dx == DeltaX(dir)
               dy == DeltaY(dir)
               size == BlockDim(dir)
               p == a - dx
               q == b - dy
    <3>1. /\ d = Opposite(dir) /\ d \in Dirs /\ Turned = size - move_cnt
      <4>1. next_dir = Opposite(dir) /\ next_dir \in Dirs
        <5>1. Backwards
          BY <1>1, <2>1
        <5> QED
          BY <5>1 DEF Backwards
      <4>2. move_cnt > 0
        BY <1>5, <1>6
      <4> QED
        BY <2>1, <4>1, <4>2 DEF Turned
    <3>2. /\ DeltaX(d) = -dx /\ DeltaY(d) = -dy
          /\ dx \in {-1, 0, 1} /\ dy \in {-1, 0, 1} /\ (dx # 0 <=> dy = 0)
          /\ size = IF dx = 0 THEN BLOCK_Y_DIM ELSE BLOCK_X_DIM
          /\ BlockDim(d) = size
      BY <1>5, <3>1, Deltas
    <3>3. Square(p, q) /\ p \in Int /\ q \in Int /\ p - DeltaX(d) = a /\ q - DeltaY(d) = b
      BY <1>4, <1>5, <3>2
    <3>4. p \in 1 .. 2 * XDimOf(level) - 1 /\ q \in 1 .. 2 * YDimOf(level) - 1
      BY <1>5 DEF Square
    <3>5. /\ play_x = BLOCK_X_DIM * p - (size - move_cnt) * DeltaX(d)
          /\ play_y = BLOCK_Y_DIM * q - (size - move_cnt) * DeltaY(d)
      <4>1. /\ BLOCK_X_DIM * p = BLOCK_X_DIM * a - BLOCK_X_DIM * dx
            /\ BLOCK_Y_DIM * q = BLOCK_Y_DIM * b - BLOCK_Y_DIM * dy
        BY <1>4, <1>6, <3>2, SMT
      <4>2. /\ (size - move_cnt) * DeltaX(d) = move_cnt * dx - size * dx
            /\ (size - move_cnt) * DeltaY(d) = move_cnt * dy - size * dy
        BY <1>5, <1>6, <3>2, SMT
      <4>3. BLOCK_X_DIM * dx = size * dx /\ BLOCK_Y_DIM * dy = size * dy
        BY <1>6, <3>2, SMT
      <4>4. /\ size * dx \in Int /\ move_cnt * dx \in Int /\ BLOCK_X_DIM * a \in Int
            /\ size * dy \in Int /\ move_cnt * dy \in Int /\ BLOCK_Y_DIM * b \in Int
        BY <1>4, <1>5, <1>6, <3>2, SMT
      <4> QED
        BY <1>5, <4>1, <4>2, <4>3, <4>4
    <3>6. Turned \in 1 .. BlockDim(d)
      BY <1>5, <1>6, <3>1, <3>2
    <3>7. Square(p - DeltaX(d), q - DeltaY(d))
      BY <1>5, <3>3
    <3> HIDE DEF p, q, size, dx, dy, d
    <3> QED
      BY <3>1, <3>3, <3>4, <3>5, <3>6, <3>7
  <2>2. CASE ~reversing
    BY <1>3, <1>4, <1>5, <1>6, <2>2 DEF Turned
  <2> QED
    BY <2>1, <2>2
<1>8. PICK w \in Dirs, p, q \in Int :
          /\ w = d /\ Turned \in 1 .. BlockDim(w) /\ Square(p, q)
          /\ p \in 1 .. 2 * XDimOf(level) - 1 /\ q \in 1 .. 2 * YDimOf(level) - 1
          /\ Square(p - DeltaX(w), q - DeltaY(w))
          /\ play_x = BLOCK_X_DIM * p - Turned * DeltaX(w)
          /\ play_y = BLOCK_Y_DIM * q - Turned * DeltaY(w)
  <2> HIDE DEF d
  <2> QED
    BY <1>7
<1>9. PICK moves \in 1 .. BlockDim(w) : moves = Turned
  BY <1>8
<1>10. Approaches(p, q)' /\ ViewOK' /\ map_x' \in Int /\ map_y' \in Int
  <2> HIDE DEF d
  <2>1. level' = level /\ open' = open /\ seen' = seen /\ ViewOK /\ Move(w, moves)
    BY <1>1, <1>2, <1>8, <1>9 DEF Steered
  <2>2. Square(p, q)' /\ Square(p - DeltaX(w), q - DeltaY(w))'
    BY <1>8, <2>1 DEF Square, XDimOf, YDimOf
  <2>3. /\ play_x = BLOCK_X_DIM * p - moves * DeltaX(w)
        /\ play_y = BLOCK_Y_DIM * q - moves * DeltaY(w)
    BY <1>8, <1>9
  <2> QED
    BY <1>1, <1>4, <2>1, <2>2, <2>3, Walks
<1>11. PathInv'
  BY <1>1, <1>2, <1>8, <1>10 DEF Steered, PathInv, XDimOf, YDimOf
<1>12. next_dir # DIR_STOP /\ dir' = w /\ dir # DIR_STOP
  BY <1>1, <1>2, <1>5, <1>8, Deltas DEF Steered, Move
<1>13. Steered'
  BY <1>2, <1>8, <1>10, <1>11, <1>12 DEF Steered
<1>14. num_fruits = n_fruits
  BY <1>1, <1>12 DEF Counted
<1>15. Counted'
  BY <1>1, <1>2, <1>14 DEF Counted, FruitInv
<1> QED
  BY <1>13, <1>15

(* Fruits are found where they lie: the exit has none, and once all are    *)
(* counted none is left.                                                   *)
LEMMA Eaten ==
    ASSUME Counted, NEW here, fruits' = fruits \ {here}, n_fruits' = FruitsAfter(here)
    PROVE  /\ IsFiniteSet(fruits') /\ n_fruits' = Cardinality(fruits') /\ n_fruits' \in Nat
           /\ n_fruits \in Nat
           /\ n_fruits' = IF here \in fruits THEN n_fruits - 1 ELSE n_fruits
           /\ n_fruits' = 0 => fruits' = {}
           /\ exit \notin fruits' /\ here \notin fruits'
<1>1. IsFiniteSet(fruits) /\ exit \notin fruits /\ n_fruits = Cardinality(fruits)
  BY DEF Counted, FruitInv
<1>2. IsFiniteSet(fruits') /\ Cardinality(fruits) \in Nat
  BY <1>1, FS_RemoveElement, FS_CardinalityType
<1>3. Cardinality(fruits') = IF here \in fruits THEN Cardinality(fruits) - 1 ELSE Cardinality(fruits)
  BY <1>1, FS_RemoveElement
<1>4. Cardinality(fruits') \in Nat /\ (Cardinality(fruits') = 0 => fruits' = {})
  BY <1>2, FS_CardinalityType, FS_EmptySet
<1> QED
  BY <1>1, <1>2, <1>3, <1>4 DEF FruitsAfter

(* At a square the player has won the level, or stops, or moves on.        *)
LEMMA AtSquare ==
    ASSUME Proportions, IInv, Steer, Turned = 0
    PROVE  Steered' /\ Counted'
<1> DEFINE d == IF reversing THEN next_dir ELSE dir
           here == At(play_x, play_y)
<1>1. /\ level \in Nat \ {0} /\ Steered /\ Counted /\ reversing = Backwards
      /\ next_dir \in Dirs \union {DIR_STOP}
  BY InATick DEF Steer, Playing
<1>2. NewSquare(d) /\ UNCHANGED <<level, open, exit, next_dir>>
  BY DEF Steer
<1>3. PICK a \in 1 .. 2 * XDimOf(level) - 1, b \in 1 .. 2 * YDimOf(level) - 1 : Approaches(a, b)
  BY <1>1 DEF Steered, PathInv
<1>4. a \in Int /\ b \in Int /\ map_x \in Int /\ map_y \in Int /\ ViewOK
  BY <1>1, <1>3 DEF Steered, PathInv
<1>5. BLOCK_X_DIM \in Nat \ {0} /\ BLOCK_Y_DIM \in Nat \ {0}
  BY DEF Proportions
<1>6. move_cnt = 0
  <2>1. ASSUME move_cnt \in 1 .. BlockDim(dir) - 1 PROVE FALSE
    BY <1>5, <2>1 DEF Turned, BlockDim
  <2> QED
    BY <1>3, <2>1 DEF Approaches
<1>7. /\ play_x = BLOCK_X_DIM * a /\ play_y = BLOCK_Y_DIM * b
      /\ play_x \div BLOCK_X_DIM = a /\ play_y \div BLOCK_Y_DIM = b
      /\ here = MAZE_INDEX(XDimOf(level), a, b)
  BY <1>3, <1>4, <1>6, Where
<1>8. d \in Dirs \union {DIR_STOP} /\ (next_dir = DIR_STOP => d = DIR_STOP)
      /\ (dir = DIR_STOP => d = DIR_STOP) /\ (d = DIR_STOP => dir = DIR_STOP)
  <2>1. reversing => dir \in Dirs /\ next_dir \in Dirs
    BY <1>1 DEF Backwards
  <2>2. DIR_STOP \notin Dirs
    BY Deltas
  <2> QED
    BY <1>1, <2>1, <2>2 DEF Steered
<1>9. /\ fruits' = fruits \ {here} /\ n_fruits' = FruitsAfter(here)
      /\ seen' = seen \union Unveiled(level, a, b)
  BY <1>2, <1>7 DEF NewSquare
<1>10. /\ IsFiniteSet(fruits') /\ n_fruits' = Cardinality(fruits') /\ n_fruits' \in Nat
       /\ n_fruits \in Nat
       /\ n_fruits' = IF here \in fruits THEN n_fruits - 1 ELSE n_fruits
       /\ n_fruits' = 0 => fruits' = {}
       /\ exit \notin fruits' /\ here \notin fruits'
  BY <1>1, <1>9, Eaten
<1>11. /\ num_fruits \in Int /\ num_fruits - n_fruits \in {0, 1}
       /\ num_fruits # n_fruits => here \notin fruits
       /\ dir # DIR_STOP => num_fruits = n_fruits
       /\ goto_next_level \in {0, 1}
       /\ goto_next_level = 1 => n_fruits = 0 /\ fruits = {}
  BY <1>1 DEF Counted, FruitInv
<1>12. open' \subseteq Inside(XDimOf(level'), YDimOf(level'))
  BY <1>1, <1>2 DEF Steered, PathInv
<1>13. seen \subseteq seen' /\ level' = level /\ open' = open
  BY <1>2, <1>9
<1>14. CASE Wins(FruitsAfter(here), here)
  <2>1. /\ goto_next_level' = 1 /\ dir' = d
        /\ UNCHANGED <<map_x, map_y, play_x, play_y, move_cnt, num_fruits>>
    BY <1>2, <1>14 DEF NewSquare
  <2>2. n_fruits' = 0 /\ here = exit
    BY <1>9, <1>14 DEF Wins
  <2>3. Approaches(a, b)'
    <3>1. Square(a, b)'
      BY <1>3, <1>13 DEF Approaches, Square, XDimOf, YDimOf
    <3>2. 0 * DeltaX(dir') = 0 /\ 0 * DeltaY(dir') = 0
      BY DEF DeltaX, DeltaY
    <3>3. BLOCK_X_DIM * a \in Int /\ BLOCK_Y_DIM * b \in Int
      BY <1>4, <1>5
    <3> QED
      BY <1>6, <1>7, <2>1, <3>1, <3>2, <3>3 DEF Approaches
  <2>4. PathInv'
    BY <1>3, <1>4, <1>12, <1>13, <2>1, <2>3 DEF PathInv, XDimOf, YDimOf
  <2>5. ViewOK'
    BY <1>4, <1>13, <2>1 DEF ViewOK, XDimOf, YDimOf
  <2>6. Steered'
    BY <1>2, <1>1, <1>6, <1>8, <2>1, <2>4, <2>5 DEF Steered
  <2>7. exit \notin fruits
    BY <1>1 DEF Counted, FruitInv
  <2>8. n_fruits' = n_fruits
    BY <1>10, <2>2, <2>7
  <2>9. At(play_x, play_y)' \notin fruits'
    BY <1>10, <1>13, <2>1 DEF At, XDimOf
  <2>10. Counted'
    BY <1>2, <1>8, <1>10, <1>11, <2>1, <2>2, <2>8, <2>9 DEF Counted, FruitInv
  <2> QED
    BY <2>6, <2>10
<1>15. CASE ~Wins(FruitsAfter(here), here)
  <2>1. PICK e \in Chosen(d) : Move(e, IF e = DIR_STOP THEN 0 ELSE BlockDim(e))
    BY <1>2, <1>15 DEF NewSquare
  <2>2. /\ num_fruits' = IF num_fruits # n_fruits' THEN num_fruits - 1 ELSE num_fruits
        /\ goto_next_level' = goto_next_level
    BY <1>2, <1>9, <1>15 DEF NewSquare
  <2>3. /\ \/ e = DIR_STOP
           \/ e \in Dirs /\ IsOpen(XDimOf(level), open, here, e)
        /\ d = DIR_STOP /\ next_dir = DIR_STOP => e = DIR_STOP
    BY <1>1, <1>8, ChosenIs
  <2>4. ASSUME e = DIR_STOP PROVE Steered'
    <3>1. Move(DIR_STOP, 0)
      BY <2>1, <2>4
    <3>2. Approaches(a, b)' /\ ViewOK' /\ map_x' \in Int /\ map_y' \in Int
      BY <1>3, <1>4, <1>6, <1>13, <3>1, Rests
    <3>3. PathInv'
      BY <1>3, <1>12, <1>13, <3>2 DEF PathInv, XDimOf, YDimOf
    <3>4. dir' = DIR_STOP /\ move_cnt' = 0
      BY <3>1 DEF Move
    <3> QED
      BY <3>2, <3>3, <3>4 DEF Steered
  <2>5. ASSUME e \in Dirs PROVE Steered'
    <3> DEFINE c == a + DeltaX(e)
               f == b + DeltaY(e)
    <3>1. /\ IsOpen(XDimOf(level), open, MAZE_INDEX(XDimOf(level), a, b), e)
          /\ e # DIR_STOP /\ Move(e, BlockDim(e))
      BY <1>7, <2>1, <2>3, <2>5, Deltas
    <3>2. Square(a, b) /\ open \subseteq Inside(XDimOf(level), YDimOf(level))
      BY <1>1, <1>3 DEF Approaches, Steered, PathInv
    <3>3. /\ c \in 1 .. 2 * XDimOf(level) - 1 /\ f \in 1 .. 2 * YDimOf(level) - 1
          /\ MAZE_INDEX(XDimOf(level), c, f) \in open \intersect Unveiled(level, a, b)
      BY <1>1, <1>4, <2>5, <3>1, <3>2, OpenSquare
    <3>4. Square(c, f)' /\ Square(a, b)'
      BY <1>9, <1>13, <3>2, <3>3 DEF Square, XDimOf, YDimOf
    <3>5. /\ DeltaX(e) \in {-1, 0, 1} /\ DeltaY(e) \in {-1, 0, 1}
          /\ (DeltaX(e) # 0 <=> DeltaY(e) = 0)
          /\ BlockDim(e) = IF DeltaX(e) = 0 THEN BLOCK_Y_DIM ELSE BLOCK_X_DIM
      BY <2>5, Deltas
    <3>6. c - DeltaX(e) = a /\ f - DeltaY(e) = b /\ c \in Int /\ f \in Int
      BY <1>4, <3>5
    <3>7. /\ play_x = BLOCK_X_DIM * c - BlockDim(e) * DeltaX(e)
          /\ play_y = BLOCK_Y_DIM * f - BlockDim(e) * DeltaY(e)
      <4>1. /\ BLOCK_X_DIM * c = BLOCK_X_DIM * a + BLOCK_X_DIM * DeltaX(e)
            /\ BLOCK_Y_DIM * f = BLOCK_Y_DIM * b + BLOCK_Y_DIM * DeltaY(e)
        BY <1>4, <1>5, <3>5, SMT
      <4>2. /\ BLOCK_X_DIM * DeltaX(e) = BlockDim(e) * DeltaX(e)
            /\ BLOCK_Y_DIM * DeltaY(e) = BlockDim(e) * DeltaY(e)
        BY <1>5, <3>5, SMT
      <4>3. /\ BLOCK_X_DIM * a \in Int /\ BLOCK_X_DIM * DeltaX(e) \in Int
            /\ BLOCK_Y_DIM * b \in Int /\ BLOCK_Y_DIM * DeltaY(e) \in Int
        BY <1>4, <1>5, <3>5, SMT
      <4> QED
        BY <1>7, <4>1, <4>2, <4>3
    <3>8. BlockDim(e) \in 1 .. BlockDim(e)
      BY <1>5, <3>5
    <3>9. Square(c - DeltaX(e), f - DeltaY(e))'
      BY <3>4, <3>6
    <3>10. Approaches(c, f)' /\ ViewOK' /\ map_x' \in Int /\ map_y' \in Int
      <4> HIDE DEF c, f
      <4> QED
        BY <1>1, <1>4, <1>13, <2>5, <3>1, <3>4, <3>6, <3>7, <3>8, <3>9, Walks
    <3>11. PathInv'
      <4> HIDE DEF c, f
      <4> QED
        BY <1>12, <1>13, <3>3, <3>10 DEF PathInv, XDimOf, YDimOf
    <3>12. dir' = e
      BY <3>1 DEF Move
    <3>13. next_dir # DIR_STOP
      BY <1>8, <2>3, <3>1
    <3> QED
      BY <1>2, <2>5, <3>10, <3>11, <3>12, <3>13 DEF Steered
  <2>6. Steered'
    BY <2>3, <2>4, <2>5
  <2>7. num_fruits' = n_fruits' /\ num_fruits' \in Int
    BY <1>10, <1>11, <2>2
  <2>8. goto_next_level' = 1 => n_fruits' = 0 /\ fruits' = {}
    BY <1>9, <1>10, <1>11, <2>2
  <2>9. Counted'
    BY <1>2, <1>10, <1>11, <2>2, <2>7, <2>8 DEF Counted, FruitInv
  <2> QED
    BY <2>6, <2>9
<1> QED
  BY <1>14, <1>15

(* Who does not touch the maze and the player may only write directions.   *)
LEMMA Keeps ==
    ASSUME Steered, Counted, UNCHANGED <<mazeVars, playerVars, num_fruits, goto_next_level>>,
           next_dir' = next_dir \/ next_dir' # DIR_STOP
    PROVE  Steered' /\ Counted'
<1> USE DEF mazeVars, playerVars
<1>1. \A a, b : Approaches(a, b) => Approaches(a, b)'
  BY DEF Approaches, Square, XDimOf, YDimOf
<1>2. PathInv'
  BY <1>1 DEF Steered, PathInv, XDimOf, YDimOf
<1>3. ViewOK'
  BY DEF Steered, ViewOK, XDimOf, YDimOf
<1>4. FruitInv'
  BY DEF Counted, FruitInv, At, XDimOf
<1> QED
  BY <1>2, <1>3, <1>4 DEF Steered, Counted

(* The player's tick.                                                      *)
LEMMA SteerInv ==
    ASSUME Proportions, IInv, Steer
    PROVE  IInv'
<1>1. Steered' /\ Counted'
  BY Between, AtSquare
<1>2. Playing
  BY DEF Steer, Playing
<1>3. ThreadsInv'
  <2>1. /\ ThreadsInv /\ dir' \in Dirs \union {DIR_STOP}
        /\ UNCHANGED <<level, open, exit, keyboardVars, tuxVars, next_dir, quit_flag, winner, outcome>>
        /\ rtc' = "tick" /\ mtx' = "none" /\ rtc = "steer"
    BY <1>1, Parts DEF Steer, Unlocked, Steered
  <2>2. ticks' = ticks \/ ticks' = 0
    BY DEF Steer, NewSquare
  <2>3. MaxTicks \in Nat
    BY DEF Proportions
  <2> QED
    BY <1>2, <2>1, <2>2, <2>3 DEF ThreadsInv, TypeOK, Playing, keyboardVars, tuxVars
<1>4. WinInv'
  <2>1. WinInv /\ rtc = "steer" /\ rtc' = "tick" /\ winner' = winner
    BY Parts DEF Steer
  <2> QED
    BY <2>1 DEF WinInv, WinEarned
<1> QED
  BY <1>1, <1>3, <1>4, PartsNext

(* A finite maze, and its first square.                                    *)
LEMMA PointsFinite ==
    ASSUME NEW xd \in Nat \ {0}, NEW yd \in Nat \ {0}
    PROVE  IsFiniteSet(Points(xd, yd)) /\ MAZE_INDEX(xd, 1, 1) \in Points(xd, yd)
<1> DEFINE last == 2 * xd + (2 * yd) * (2 * xd)
<1>1. last \in Int
  BY SMT
<1>2. Points(xd, yd) \subseteq 0 .. last
  <2> SUFFICES ASSUME NEW i \in 1 .. xd, NEW j \in 1 .. yd
               PROVE  MAZE_INDEX(xd, 2 * i - 1, 2 * j - 1) \in 0 .. last
    BY DEF Points
  <2>1. MAZE_INDEX(xd, 2 * i - 1, 2 * j - 1) = 2 * i - 1 + (2 * j) * (2 * xd)
    BY SMT DEF MAZE_INDEX
  <2>2. (2 * j) * (2 * xd) \in Nat /\ (2 * (yd - j)) * (2 * xd) \in Nat
    BY SMT
  <2>3. (2 * (yd - j)) * (2 * xd) = (2 * yd) * (2 * xd) - (2 * j) * (2 * xd)
    BY SMT
  <2>4. (2 * yd) * (2 * xd) \in Nat
    BY SMT
  <2> QED
    BY <2>1, <2>2, <2>3, <2>4
<1>3. MAZE_INDEX(xd, 1, 1) \in Points(xd, yd)
  <2>1. 1 \in 1 .. xd /\ 1 \in 1 .. yd /\ 2 * 1 - 1 = 1
    OBVIOUS
  <2> QED
    BY <2>1 DEF Points
<1>4. IsFiniteSet(0 .. last)
  <2> HIDE DEF last
  <2> QED
    BY <1>1, FS_Interval
<1> QED
  BY <1>2, <1>3, <1>4, FS_Subset

(* A level starts at its first square, with the fruit there eaten.         *)
LEMMA StartInv ==
    ASSUME Proportions, MazesGood, IInv, StartLevel
    PROVE  IInv'
<1>1. PICK m \in Mazes[level] :
        LET start == MAZE_INDEX(XDimOf(level), 1, 1)
        IN  /\ open' = m.open /\ exit' = m.exit
            /\ fruits' = m.fruits \ {start}
            /\ num_fruits' = Cardinality(m.fruits)
            /\ n_fruits' = Cardinality(m.fruits) - (IF start \in m.fruits THEN 1 ELSE 0)
  BY DEF StartLevel
<1>2. /\ rtc = "level" /\ level <= MAX_LEVEL /\ quit_flag = 0 /\ rtc' = "first"
      /\ seen' = Unveiled(level, 1, 1)
      /\ map_x' = SHOW_MIN /\ map_y' = SHOW_MIN
      /\ play_x' = BLOCK_X_DIM /\ play_y' = BLOCK_Y_DIM
      /\ dir' = DIR_STOP /\ next_dir' = DIR_STOP /\ move_cnt' = 0 /\ goto_next_level' = 0
      /\ UNCHANGED <<level, ticks, reversing, keyboardVars, tuxVars, mtx, quit_flag, winner, outcome>>
  BY DEF StartLevel, StartDir
<1>3. ThreadsInv /\ WinInv
  BY Parts
<1>4. /\ level \in 1 .. MAX_LEVEL /\ level \in Nat \ {0}
      /\ XDimOf(level) \in Nat \ {0} /\ YDimOf(level) \in Nat \ {0}
  BY <1>2, <1>3, DimsOK DEF ThreadsInv, TypeOK, Proportions
<1> DEFINE xd == XDimOf(level)
           yd == YDimOf(level)
           start == MAZE_INDEX(xd, 1, 1)
<1>5. GoodMaze(xd, yd, m.open, m.fruits, m.exit)
  BY <1>4 DEF MazesGood
<1>6. /\ m.open \subseteq Inside(xd, yd) /\ start \in m.open
      /\ IsFiniteSet(m.fruits) /\ m.exit \notin m.fruits
  <2>1. IsFiniteSet(Points(xd, yd)) /\ start \in Points(xd, yd)
    BY <1>4, PointsFinite
  <2> QED
    BY <1>5, <2>1, FS_Subset DEF GoodMaze
<1>7. start \in Unveiled(level, 1, 1)
  <2> DEFINE near == ((1 - 1) .. (1 + 1)) \X ((1 - 1) .. (1 + 1))
  <2>1. <<1, 1>> \in near /\ <<1, 1>>[1] = 1 /\ <<1, 1>>[2] = 1
    OBVIOUS
  <2>2. 1 \in 0 .. 2 * XDimOf(level) /\ 1 \in 0 .. 2 * YDimOf(level)
    BY <1>4
  <2> HIDE DEF near
  <2> QED
    BY <2>1, <2>2 DEF Unveiled, near
<1>8. /\ BLOCK_X_DIM \in Nat \ {0} /\ BLOCK_Y_DIM \in Nat \ {0}
      /\ BLOCK_X_DIM * 1 = BLOCK_X_DIM /\ BLOCK_Y_DIM * 1 = BLOCK_Y_DIM
  BY DEF Proportions
<1>9. /\ level' = level /\ XDimOf(level') = xd /\ YDimOf(level') = yd
  BY <1>2
<1>10. Approaches(1, 1)'
  <2>1. Square(1, 1)'
    <3>1. 1 \in 1 .. 2 * xd - 1 /\ 1 \in 1 .. 2 * yd - 1
      BY <1>4
    <3> QED
      BY <1>1, <1>2, <1>6, <1>7, <1>9, <3>1 DEF Square, XDimOf, YDimOf
  <2>2. 0 * DeltaX(dir') = 0 /\ 0 * DeltaY(dir') = 0
    BY DEF DeltaX, DeltaY
  <2> QED
    BY <1>2, <1>8, <2>1, <2>2 DEF Approaches
<1>11. PathInv'
  <2>1. 1 \in 1 .. 2 * xd - 1 /\ 1 \in 1 .. 2 * yd - 1
    BY <1>4
  <2>2. SHOW_MIN \in Int
    BY DEF Proportions
  <2> QED
    BY <1>1, <1>2, <1>6, <1>9, <1>10, <2>1, <2>2 DEF PathInv, XDimOf, YDimOf
<1>12. ViewOK'
  <2> DEFINE wide == (2 * xd + 1) * BLOCK_X_DIM
             high == (2 * yd + 1) * BLOCK_Y_DIM
  <2>1. SCROLL_X_DIM + 2 * SHOW_MIN <= wide /\ SCROLL_Y_DIM + 2 * SHOW_MIN <= high
    BY <1>4, ViewFits
  <2>2. wide \in Int /\ high \in Int
    BY <1>4, <1>8
  <2>3. /\ map_x' <= play_x' /\ play_x' + BLOCK_X_DIM <= map_x' + SCROLL_X_DIM
        /\ map_y' <= play_y' /\ play_y' + BLOCK_Y_DIM <= map_y' + SCROLL_Y_DIM
    BY <1>2 DEF Proportions
  <2>4. /\ SHOW_MIN <= map_x' /\ map_x' + SCROLL_X_DIM <= wide - SHOW_MIN
        /\ SHOW_MIN <= map_y' /\ map_y' + SCROLL_Y_DIM <= high - SHOW_MIN
    <3> HIDE DEF wide, high
    <3> QED
      BY <1>2, <2>1, <2>2 DEF Proportions
  <2> QED
    BY <1>9, <2>3, <2>4 DEF ViewOK, XDimOf, YDimOf
<1>13. Steered'
  BY <1>2, <1>11, <1>12 DEF Steered
<1>14. /\ IsFiniteSet(fruits') /\ n_fruits' = Cardinality(fruits')
       /\ Cardinality(m.fruits) \in Int /\ num_fruits' = Cardinality(m.fruits)
       /\ n_fruits' = Cardinality(m.fruits) - (IF start \in m.fruits THEN 1 ELSE 0)
  <2>1. Cardinality(m.fruits) \in Nat
    BY <1>6, FS_CardinalityType
  <2>2. /\ IsFiniteSet(m.fruits \ {start})
        /\ Cardinality(m.fruits \ {start}) =
             IF start \in m.fruits THEN Cardinality(m.fruits) - 1 ELSE Cardinality(m.fruits)
    BY <1>6, FS_RemoveElement
  <2> QED
    BY <1>1, <2>1, <2>2
<1>15. At(play_x, play_y)' = start
  <2>1. At(BLOCK_X_DIM * 1, BLOCK_Y_DIM * 1) = MAZE_INDEX(XDimOf(level), 1, 1)
    BY AtCorner
  <2> QED
    BY <1>2, <1>8, <1>9, <2>1 DEF At, XDimOf
<1>16. FruitInv'
  BY <1>1, <1>2, <1>6, <1>14, <1>15 DEF FruitInv
<1>17. Counted'
  BY <1>2, <1>14, <1>16 DEF Counted
<1>18. ThreadsInv'
  BY <1>2, <1>3, <1>4, Deltas DEF ThreadsInv, TypeOK, Playing, keyboardVars, tuxVars, DIR_STOP
<1>19. WinInv'
  BY <1>2, <1>3 DEF WinInv, WinEarned
<1> QED
  BY <1>13, <1>17, <1>18, <1>19, PartsNext

(* Between the levels, and between the ticks.                              *)
LEMMA NoMoreLevelsInv ==
    ASSUME Proportions, IInv, NoMoreLevels
    PROVE  IInv'
<1>1. ThreadsInv /\ WinInv
  BY Parts
<1>2. ~Playing'
  BY DEF NoMoreLevels, Playing
<1>3. ThreadsInv'
  BY <1>1, <1>2 DEF NoMoreLevels, ThreadsInv, TypeOK, mazeVars, playerVars, keyboardVars, tuxVars
<1>4. WinInv'
  BY <1>1 DEF NoMoreLevels, ThreadsInv, TypeOK, Proportions, WinInv, WinEarned, LeftWon, mazeVars
<1> QED
  BY <1>2, <1>3, <1>4, PartsNext

(* The test for the next level leaves the loop for a reason.               *)
LEMMA TestLevelInv ==
    ASSUME Proportions, IInv, TestLevel
    PROVE  IInv'
<1>1. /\ ThreadsInv /\ WinInv /\ Playing /\ Steered /\ Counted /\ level \in 1 .. MAX_LEVEL
      /\ rtc # "steer"
  BY InATick, Parts DEF TestLevel, Playing
<1>2. UNCHANGED <<open, fruits, exit, n_fruits, seen, playerVars, num_fruits, goto_next_level,
                  reversing, keyboardVars, tuxVars, next_dir, mtx, quit_flag, winner, outcome>>
  BY DEF TestLevel
<1>3. CASE rtc' = "tick" /\ ticks' \in 1 .. MaxTicks /\ UNCHANGED level
  <2>1. Steered' /\ Counted'
    BY <1>1, <1>2, <1>3, Keeps DEF mazeVars
  <2>2. ThreadsInv'
    BY <1>1, <1>2, <1>3 DEF ThreadsInv, TypeOK, Playing, Proportions, playerVars, keyboardVars, tuxVars
  <2>3. WinInv'
    BY <1>1, <1>2, <1>3 DEF WinInv, WinEarned, Playing
  <2> QED
    BY <2>1, <2>2, <2>3, PartsNext
<1>4. CASE /\ quit_flag = 1 \/ goto_next_level = 1
           /\ rtc' = "level" /\ level' = level + 1 /\ UNCHANGED ticks
  <2>1. ~Playing'
    BY <1>4 DEF Playing
  <2>2. ThreadsInv'
    BY <1>1, <1>2, <1>4, <2>1
    DEF ThreadsInv, TypeOK, Playing, Proportions, playerVars, keyboardVars, tuxVars
  <2>3. WinInv'
    <3>1. goto_next_level = 1 => n_fruits = 0 /\ fruits = {}
      BY <1>1 DEF Counted, FruitInv
    <3>2. winner # 1
      BY <1>1 DEF WinInv, Playing
    <3> QED
      BY <1>2, <1>4, <3>1, <3>2 DEF WinInv, WinEarned, LeftWon
  <2> QED
    BY <2>1, <2>2, <2>3, PartsNext
<1> QED
  BY <1>3, <1>4 DEF TestLevel

(* A tick that only locks and counts.                                      *)
LEMMA LockTickInv ==
    ASSUME Proportions, IInv, LockTick
    PROVE  IInv'
<1>1. ThreadsInv /\ WinInv /\ Playing /\ Steered /\ Counted
  BY InATick, Parts DEF LockTick, Playing
<1>2. Steered' /\ Counted'
  BY <1>1, Keeps DEF LockTick
<1>3. ThreadsInv'
  <2>1. Backwards' = Backwards
    BY DEF LockTick, Backwards, playerVars
  <2>2. ticks' \in 0 .. MaxTicks
    BY <1>1 DEF LockTick, ThreadsInv, TypeOK, Proportions
  <2>3. reversing' = Backwards'
    BY <2>1 DEF LockTick
  <2> QED
    BY <1>1, <2>2, <2>3
    DEF LockTick, ThreadsInv, TypeOK, Playing, mazeVars, playerVars, keyboardVars, tuxVars
<1>4. WinInv'
  BY <1>1 DEF LockTick, WinInv, WinEarned
<1> QED
  BY <1>2, <1>3, <1>4, PartsNext

(* The game is over, and won if its last level was.                        *)
LEMMA OverInv ==
    ASSUME Proportions, IInv, Over
    PROVE  IInv'
<1>1. ThreadsInv /\ WinInv
  BY Parts
<1>2. ~Playing'
  BY DEF Over, Playing, TestQuit
<1>3. ThreadsInv'
  BY <1>1, <1>2 DEF Over, TestQuit, ThreadsInv, TypeOK, mazeVars, playerVars, keyboardVars, tuxVars
<1>4. WinInv'
  <2>1. level \in 1 .. MAX_LEVEL + 1 /\ winner \in {0, 1} /\ MAX_LEVEL \in Nat \ {0}
    BY <1>1 DEF ThreadsInv, TypeOK, Proportions
  <2> QED
    BY <1>1, <2>1 DEF Over, TestQuit, WinInv, WinEarned, LeftWon, mazeVars
<1> QED
  BY <1>2, <1>3, <1>4, PartsNext

(* The threads that ask for a direction write one only between the ticks.  *)
LEMMA KeyboardInv ==
    ASSUME Proportions, IInv, KeyboardThread
    PROVE  IInv'
<1>1. /\ ThreadsInv /\ WinInv /\ (Playing => Steered /\ Counted)
  BY Parts
<1>2. UNCHANGED <<rtcVars, tuxVars, mtx, winner, outcome>>
  BY DEF KeyboardThread, TestWinner, GetKey, SetFromKey
<1>3. \/ UNCHANGED next_dir
      \/ next_dir' \in Dirs /\ mtx = "none"
  <2>1. CASE SetFromKey
    <3>1. ArrowDir[key] \in Dirs
      BY <1>1, <2>1 DEF SetFromKey, ThreadsInv, ArrowDir, Dirs, DIR_UP, DIR_DOWN, DIR_RIGHT, DIR_LEFT
    <3> QED
      BY <2>1, <3>1 DEF SetFromKey, MayWrite
  <2>2. CASE TestWinner \/ GetKey
    BY <2>2 DEF TestWinner, GetKey
  <2> QED
    BY <2>1, <2>2 DEF KeyboardThread
<1>4. /\ keyboard' \in {"test", "getc", "set", "done"} /\ state' \in 0 .. 2 /\ quit_flag' \in {0, 1}
      /\ keyboard' = "set" => key' \in 65 .. 68
      /\ quit_flag' = 0 => quit_flag = 0
  <2>1. CASE TestWinner
    BY <1>1, <2>1 DEF TestWinner, KeepReading, ThreadsInv, TypeOK
  <2>2. CASE GetKey
    BY <1>1, <2>2 DEF GetKey, ThreadsInv, TypeOK, ArrowDir
  <2>3. CASE SetFromKey
    BY <1>1, <2>3 DEF SetFromKey, ThreadsInv, TypeOK
  <2> QED
    BY <2>1, <2>2, <2>3 DEF KeyboardThread
<1>5. DIR_STOP \notin Dirs /\ 65 \notin Dirs
  BY Deltas
<1>6. Playing' => Steered' /\ Counted'
  <2>1. Playing' = Playing
    BY <1>2 DEF Playing, rtcVars
  <2>2. UNCHANGED <<mazeVars, playerVars, num_fruits, goto_next_level>>
    BY <1>2 DEF rtcVars
  <2> QED
    BY <1>1, <1>3, <1>5, <2>1, <2>2, Keeps
<1>7. ThreadsInv'
  <2>1. rtc = "steer" => UNCHANGED next_dir
    BY <1>1, <1>3 DEF ThreadsInv, TypeOK
  <2>2. rtc = "steer" => reversing' = Backwards'
    BY <1>1, <1>2, <2>1 DEF ThreadsInv, Backwards, rtcVars, playerVars
  <2>3. TypeOK'
    BY <1>1, <1>2, <1>3, <1>4 DEF ThreadsInv, TypeOK, rtcVars, tuxVars, mazeVars, playerVars
  <2> QED
    BY <1>1, <1>2, <1>3, <1>4, <1>5, <2>2, <2>3 DEF ThreadsInv, Playing, rtcVars, mazeVars
<1>8. WinInv'
  BY <1>1, <1>2, <1>4 DEF WinInv, WinEarned, LeftWon, rtcVars, mazeVars
<1> QED
  BY <1>6, <1>7, <1>8, PartsNext

(* The steps of the controller's thread.                                   *)
LEMMA TuxInv ==
    ASSUME Proportions, IInv, TuxThread
    PROVE  IInv'
<1>1. /\ ThreadsInv /\ WinInv /\ (Playing => Steered /\ Counted)
  BY Parts
<1>2. UNCHANGED <<rtcVars, keyboardVars, mtx, quit_flag, winner, outcome>>
  BY DEF TuxThread, PollButtons, SetFromButtons
<1>3. \/ UNCHANGED next_dir
      \/ next_dir' \in Dirs /\ mtx = "none"
  <2>1. CASE SetFromButtons
    <3>1. detected_buttons \in DOMAIN ButtonDir => ButtonDir[detected_buttons] \in Dirs
      BY DEF ButtonDir, Dirs, DIR_UP, DIR_DOWN, DIR_RIGHT, DIR_LEFT
    <3> QED
      BY <2>1, <3>1 DEF SetFromButtons, MayWrite
  <2>2. CASE PollButtons
    BY <2>2 DEF PollButtons
  <2> QED
    BY <2>1, <2>2 DEF TuxThread
<1>4. tux' \in {"test", "set", "done"}
  BY DEF TuxThread, PollButtons, SetFromButtons
<1>5. DIR_STOP \notin Dirs /\ 65 \notin Dirs
  BY Deltas
<1>6. Playing' => Steered' /\ Counted'
  <2>1. Playing' = Playing
    BY <1>2 DEF Playing, rtcVars
  <2>2. UNCHANGED <<mazeVars, playerVars, num_fruits, goto_next_level>>
    BY <1>2 DEF rtcVars
  <2> QED
    BY <1>1, <1>3, <1>5, <2>1, <2>2, Keeps
<1>7. ThreadsInv'
  <2>1. rtc = "steer" => UNCHANGED next_dir
    BY <1>1, <1>3 DEF ThreadsInv, TypeOK
  <2>2. rtc = "steer" => reversing' = Backwards'
    BY <1>1, <1>2, <2>1 DEF ThreadsInv, Backwards, rtcVars, playerVars
  <2>3. TypeOK'
    BY <1>1, <1>2, <1>3, <1>4 DEF ThreadsInv, TypeOK, rtcVars, keyboardVars, mazeVars, playerVars
  <2> QED
    BY <1>1, <1>2, <1>3, <1>5, <2>2, <2>3 DEF ThreadsInv, Playing, rtcVars, mazeVars, keyboardVars
<1>8. WinInv'
  BY <1>1, <1>2 DEF WinInv, WinEarned, LeftWon, rtcVars, mazeVars
<1> QED
  BY <1>6, <1>7, <1>8, PartsNext

(* Joining the threads, and doing nothing.                                 *)
LEMMA IdleInv ==
    ASSUME IInv, UNCHANGED <<rtcVars, keyboardVars, tuxVars, next_dir, mtx, quit_flag, winner>>
    PROVE  IInv'
<1>1. /\ ThreadsInv /\ WinInv /\ (Playing => Steered /\ Counted)
  BY Parts
<1> USE DEF rtcVars, keyboardVars, tuxVars
<1>2. Playing' => Steered' /\ Counted'
  <2>1. Playing' = Playing
    BY DEF Playing
  <2> QED
    BY <1>1, <2>1, Keeps
<1>3. ThreadsInv' /\ WinInv'
  BY <1>1
  DEF ThreadsInv, TypeOK, Playing, Backwards, WinInv, WinEarned, LeftWon, mazeVars, playerVars
<1> QED
  BY <1>2, <1>3, PartsNext

(* The game begins at its first level with the player at rest.             *)
LEMMA InitInv ==
    ASSUME Proportions, Init
    PROVE  IInv
<1>1. ~Playing
  BY DEF Init, Playing
<1>2. ThreadsInv
  BY <1>1 DEF Init, ThreadsInv, TypeOK, Proportions, Dirs, DIR_UP, DIR_LEFT, DIR_STOP
<1>3. WinInv
  BY DEF Init, WinInv, WinEarned, LeftWon
<1> QED
  BY <1>1, <1>2, <1>3, Parts

(* Every step of every thread preserves the invariant.                     *)
LEMMA StepInv ==
    ASSUME Proportions, MazesGood, IInv, [Next]_vars
    PROVE  IInv'
<1>1. CASE StartLevel      BY <1>1, StartInv
<1>2. CASE NoMoreLevels    BY <1>2, NoMoreLevelsInv
<1>3. CASE TestLevel       BY <1>3, TestLevelInv
<1>4. CASE LockTick        BY <1>4, LockTickInv
<1>5. CASE Steer           BY <1>5, SteerInv
<1>6. CASE Over            BY <1>6, OverInv
<1>7. CASE KeyboardThread  BY <1>7, KeyboardInv
<1>8. CASE TuxThread       BY <1>8, TuxInv
<1>9. CASE JoinAll         BY <1>9, IdleInv DEF JoinAll
<1>10. CASE UNCHANGED vars BY <1>10, IdleInv DEF vars
<1> QED
  BY <1>1, <1>2, <1>3, <1>4, <1>5, <1>6, <1>7, <1>8, <1>9, <1>10 DEF Next, RtcThread

(* From the squares that the player moves between to the pixels that       *)
(* OnPath speaks of.                                                       *)
LEMMA PathHolds ==
    ASSUME Proportions, IInv
    PROVE  OnPath
<1> SUFFICES ASSUME Playing PROVE OnPath
  BY DEF OnPath
<1> DEFINE ax == play_x + move_cnt * DeltaX(dir)
           ay == play_y + move_cnt * DeltaY(dir)
           bx == ax - BLOCK_X_DIM * DeltaX(dir)
           by == ay - BLOCK_Y_DIM * DeltaY(dir)
<1>1. /\ level \in Nat \ {0} /\ Steered
  BY InATick
<1>2. PICK a \in 1 .. 2 * XDimOf(level) - 1, b \in 1 .. 2 * YDimOf(level) - 1 : Approaches(a, b)
  BY <1>1 DEF Steered, PathInv
<1>3. /\ BLOCK_X_DIM \in Nat \ {0} /\ BLOCK_Y_DIM \in Nat \ {0} /\ a \in Int /\ b \in Int
      /\ DeltaX(dir) \in {-1, 0, 1} /\ DeltaY(dir) \in {-1, 0, 1}
  BY <1>1, <1>2, Deltas DEF Steered, Proportions
<1>4. move_cnt \in Nat
  BY <1>2, <1>3 DEF Approaches, BlockDim
<1>5. /\ BLOCK_X_DIM * a \in Int /\ move_cnt * DeltaX(dir) \in Int
      /\ BLOCK_Y_DIM * b \in Int /\ move_cnt * DeltaY(dir) \in Int
  BY <1>3, <1>4
<1>6. ax = BLOCK_X_DIM * a /\ ay = BLOCK_Y_DIM * b
  BY <1>2, <1>5 DEF Approaches
<1>7. bx = BLOCK_X_DIM * (a - DeltaX(dir)) /\ by = BLOCK_Y_DIM * (b - DeltaY(dir))
  <2>1. /\ BLOCK_X_DIM * (a - DeltaX(dir)) = BLOCK_X_DIM * a - BLOCK_X_DIM * DeltaX(dir)
        /\ BLOCK_Y_DIM * (b - DeltaY(dir)) = BLOCK_Y_DIM * b - BLOCK_Y_DIM * DeltaY(dir)
    BY <1>3, SMT
  <2> QED
    BY <1>6, <2>1
<1>8. ax % BLOCK_X_DIM = 0 /\ ay % BLOCK_Y_DIM = 0
  BY <1>3, <1>6, MultipleIs
<1>9. At(ax, ay) \in open \intersect seen
  <2>1. At(BLOCK_X_DIM * a, BLOCK_Y_DIM * b) = MAZE_INDEX(XDimOf(level), a, b)
    BY <1>3, AtCorner
  <2> QED
    BY <1>2, <1>6, <2>1 DEF Approaches, Square
<1>10. ASSUME move_cnt > 0
       PROVE  /\ dir \in Dirs /\ move_cnt < BlockDim(dir)
              /\ At(bx, by) \in open \intersect seen
  <2>1. /\ dir \in Dirs /\ move_cnt \in 1 .. BlockDim(dir) - 1
        /\ Square(a - DeltaX(dir), b - DeltaY(dir))
    BY <1>2, <1>10 DEF Approaches
  <2>2. At(bx, by) = MAZE_INDEX(XDimOf(level), a - DeltaX(dir), b - DeltaY(dir))
    <3>1. a - DeltaX(dir) \in Int /\ b - DeltaY(dir) \in Int
      BY <1>3
    <3> HIDE DEF bx, by
    <3> QED
      BY <1>7, <3>1, AtCorner
  <2>3. BlockDim(dir) \in Int
    BY <1>3 DEF BlockDim
  <2> QED
    BY <2>1, <2>2, <2>3 DEF Square
<1> QED
  BY <1>8, <1>9, <1>10 DEF OnPath

(* The player never leaves the open, unveiled squares of the maze, and the *)
(* view never loses the player, in a game of any size and whatever the     *)
(* threads write between two looks at next_dir (mazegame.c:549-656).       *)
THEOREM PlayerSafetyHolds ==
    ASSUME Proportions, MazesGood
    PROVE  Spec => []PlayerSafety
<1>1. Init => IInv
  BY InitInv
<1>2. IInv /\ [Next]_vars => IInv'
  BY StepInv
<1>3. IInv => PlayerSafety
  BY PathHolds DEF IInv, ThreadsInv, PlayerSafety
<1> QED
  BY <1>1, <1>2, <1>3, PTL DEF Spec

(* A game is won on the exit of the last level with no fruit left, quit or *)
(* not, and the count of the fruits is what lies there (:571-679).         *)
THEOREM WinsEarnedHolds ==
    ASSUME Proportions, MazesGood
    PROVE  Spec => []WinsEarned
<1>1. Init => IInv
  BY InitInv
<1>2. IInv /\ [Next]_vars => IInv'
  BY StepInv
<1>3. IInv => WinsEarned
  BY DEF IInv, WinInv, WinsEarned
<1> QED
  BY <1>1, <1>2, <1>3, PTL DEF Spec

------------------------------------------------------------------------------
(* Proofs about the threads and the program that tries the input.          *)

(* The threads have not begun, and the colour is black.                    *)
LEMMA ThreadsInit == Threads!Counted /\ Threads!Init => Threads!ThreadsInv
<1> SUFFICES ASSUME Threads!Counted, Threads!Init PROVE Threads!ThreadsInv
    OBVIOUS
<1>1. Threads!MainInv /\ Threads!OutcomeInv
    BY DEF Threads!Init, Threads!MainInv, Threads!OutcomeInv, Threads!Started
<1>2. rgb = <<0, 0, 0>> /\ <<0, 0, 0>> \in [1 .. 3 -> 0 .. BRIGHTEST] /\ comp = 0 /\ fade_dir = 0
    BY DEF Threads!Init, Threads!Counted
<1>3. Threads!FadeInv
    BY <1>2 DEF Threads!FadeInv, Threads!FadeInTurn, Threads!Counted
<1> QED
    BY <1>1, <1>3 DEF Threads!ThreadsInv, Threads!Init

(* What main does before there are threads, while it creates them, and     *)
(* when all of them have ended.                                            *)
LEMMA MainKeeps ==
    ASSUME Threads!MainInv, Threads!OutcomeInv, Threads!Main \/ Threads!MainOfTwo,
       UNCHANGED with_tux
    PROVE  Threads!MainInv' /\ Threads!OutcomeInv'
<1> USE DEF Threads!MainInv, Threads!OutcomeInv, Threads!Started, Threads!Joined,
   Threads!LevelsLeft, Threads!rtcVars, Threads!keyboardVars, Threads!tuxVars
<1>1. CASE Threads!Prepare
    BY <1>1 DEF Threads!Prepare, Threads!Fails, Threads!NoGame
<1>2. CASE Threads!Create
    BY <1>2 DEF Threads!Create
<1>3. CASE Threads!CreateNoMore
    BY <1>3 DEF Threads!CreateNoMore
<1>4. CASE Threads!CleanUp
    BY <1>4 DEF Threads!CleanUp
<1> QED
    BY <1>1, <1>2, <1>3, <1>4 DEF Threads!Main, Threads!MainOfTwo

(* The threads themselves: the clock's leaves its loop and tells of a win, *)
(* and the others leave theirs.                                            *)
LEMMA ThreadKeeps ==
    ASSUME Threads!Counted, at_level \in Nat,
           Threads!MainInv, Threads!OutcomeInv,
              Threads!RtcThread \/ Threads!KeyboardThread \/ Threads!TuxThread, UNCHANGED with_tux
    PROVE  Threads!MainInv' /\ Threads!OutcomeInv'
<1> USE DEF Threads!MainInv, Threads!OutcomeInv, Threads!Started, Threads!Joined,
   Threads!LevelsLeft, Threads!mainVars, Threads!rtcVars, Threads!keyboardVars, Threads!tuxVars
<1>1. CASE Threads!Level
    BY <1>1 DEF Threads!Level, Threads!Counted
<1>2. CASE Threads!Wait
    BY <1>2 DEF Threads!Wait
<1>3. CASE Threads!Tick
    BY <1>3 DEF Threads!Tick
<1>4. CASE Threads!Over
    BY <1>4 DEF Threads!Over, Threads!TestQuit
<1>5. CASE Threads!KeyboardThread
    BY <1>5 DEF Threads!KeyboardThread, Threads!TestWinner, Threads!GetKey
<1>6. CASE Threads!TuxThread
    BY <1>6 DEF Threads!TuxThread, Threads!Leaves
<1> QED
    BY <1>1, <1>2, <1>3, <1>4, <1>5, <1>6 DEF Threads!RtcThread

(* A colour at whose turn everything before it is where it goes.           *)
LEMMA FadedIs ==
    ASSUME Threads!Counted, Threads!FadeInv,
       UNCHANGED Threads!fadeVars
          \/ (comp' = Threads!Faded[1] /\ fade_dir' = Threads!Faded[2] /\ rgb' = Threads!Faded[3])
    PROVE  Threads!FadeInv'
<1> USE DEF Threads!FadeInv, Threads!FadeInTurn, Threads!Counted
<1> DEFINE last == IF fade_dir = 0 THEN BRIGHTEST ELSE 0
           step == IF fade_dir = 0 THEN 1 ELSE -1
<1>1. CASE UNCHANGED Threads!fadeVars
    BY <1>1 DEF Threads!fadeVars
<1>2. CASE rgb[comp + 1] # last /\ comp' = comp /\ fade_dir' = fade_dir
   /\ rgb' = [rgb EXCEPT ![comp + 1] = @ + step]
    <2>1. rgb[comp + 1] + step \in 0 .. BRIGHTEST
        BY <1>2
    <2>2. \A i \in 1 .. 3 : rgb'[i] = IF i = comp + 1 THEN rgb[i] + step ELSE rgb[i]
        BY <1>2
    <2>3. rgb' \in [1 .. 3 -> 0 .. BRIGHTEST]
        BY <1>2, <2>1
    <2> QED
        BY <1>2, <2>1, <2>2, <2>3
<1>3. CASE rgb[comp + 1] = last /\ comp < 2 /\ comp' = comp + 1 /\ fade_dir' = fade_dir
   /\ rgb' = rgb
    BY <1>3
<1>4. CASE rgb[comp + 1] = last /\ comp = 2 /\ comp' = 0 /\ fade_dir' = 1 - fade_dir /\ rgb' = rgb
    BY <1>4
<1> QED
    BY <1>1, <1>2, <1>3, <1>4 DEF Threads!Faded

(* Every step of the threads preserves their invariant.                    *)
LEMMA ThreadsStep == Threads!Counted /\ Threads!ThreadsInv
   /\ [Threads!Next]_(Threads!vars) => Threads!ThreadsInv'
<1> SUFFICES ASSUME Threads!Counted, Threads!ThreadsInv,
   [Threads!Next]_(Threads!vars) PROVE Threads!ThreadsInv'
    OBVIOUS
<1>0. UNCHANGED with_tux
    BY DEF Threads!Next, Threads!vars
<1>1. CASE Threads!Main \/ Threads!MainOfTwo
    <2>1. UNCHANGED <<at_level, Threads!fadeVars>>
        BY <1>1 DEF Threads!Main, Threads!MainOfTwo, Threads!Prepare, Threads!Create,
           Threads!CreateNoMore, Threads!CleanUp, Threads!rtcVars
    <2> QED
        BY <1>0, <1>1, <2>1, MainKeeps, FadedIs DEF Threads!ThreadsInv
<1>2. CASE Threads!RtcThread \/ Threads!KeyboardThread \/ Threads!TuxThread
    <2>1. UNCHANGED Threads!fadeVars
       \/ (comp' = Threads!Faded[1] /\ fade_dir' = Threads!Faded[2] /\ rgb' = Threads!Faded[3])
        BY <1>2 DEF Threads!RtcThread, Threads!Level, Threads!Wait, Threads!Tick, Threads!Over,
           Threads!KeyboardThread, Threads!TuxThread, Threads!rtcVars, Threads!fadeVars
    <2>2. at_level' \in Nat
        BY <1>2 DEF Threads!ThreadsInv, Threads!RtcThread, Threads!Level, Threads!Wait,
           Threads!Tick, Threads!Over, Threads!KeyboardThread, Threads!TuxThread, Threads!rtcVars
    <2> QED
        BY <1>0, <1>2, <2>1, <2>2, ThreadKeeps, FadedIs DEF Threads!ThreadsInv
<1>3. CASE UNCHANGED Threads!vars
    BY <1>3 DEF Threads!ThreadsInv, Threads!MainInv, Threads!OutcomeInv, Threads!FadeInv,
       Threads!FadeInTurn, Threads!Started, Threads!Joined, Threads!LevelsLeft,
                Threads!vars, Threads!mainVars, Threads!rtcVars, Threads!fadeVars,
                   Threads!keyboardVars, Threads!tuxVars
<1> QED
    BY <1>1, <1>2, <1>3 DEF Threads!Next, Threads!vars

(* Their invariant implies what is checked of them.                        *)
LEMMA ThreadsSafe == Threads!Counted /\ Threads!ThreadsInv => Threads!ThreadsSafety
<1> SUFFICES ASSUME Threads!Counted, Threads!ThreadsInv PROVE Threads!ThreadsSafety
    OBVIOUS
<1>1. Threads!LeftTidy
    BY DEF Threads!ThreadsInv, Threads!MainInv, Threads!Started, Threads!Joined, Threads!LeftTidy,
       Threads!Running
<1>2. Threads!OutcomeEarned
    BY DEF Threads!ThreadsInv, Threads!OutcomeInv, Threads!LevelsLeft, Threads!OutcomeEarned
<1> QED
    BY <1>1, <1>2 DEF Threads!ThreadsSafety, Threads!ThreadsInv, Threads!FadeInv

(* Nothing has been typed, and the terminal is as the shell left it.       *)
LEMMA InputInit == Input!Init => Input!InputInv
BY DEF Input!Init, Input!InputInv, Input!ToldInv, Input!StateInv, Input!SavedInv, Input!Dirs,
   Input!DIR_UP, Input!DIR_LEFT, Input!DIR_STOP

(* The terminal is set up and restored; nothing is told then.              *)
LEMMA TerminalKeeps ==
    ASSUME Input!InputInv, Input!Ioperm \/ Input!init_input \/ Input!shutdown_input
    PROVE  Input!InputInv'
<1>1. Input!SavedInv'
    BY DEF Input!InputInv, Input!SavedInv, Input!Ioperm, Input!init_input, Input!shutdown_input,
       Input!Restored, Input!terminalVars
<1>2. Input!ToldInv' /\ Input!StateInv'
    BY DEF Input!InputInv, Input!ToldInv, Input!StateInv, Input!Ioperm, Input!init_input,
       Input!shutdown_input, Input!commandVars, Input!historyVars
<1> QED
    BY <1>1, <1>2 DEF Input!InputInv

(* What an arrow key stands for is a direction.                            *)
LEMMA ArrowsAre == \A k \in DOMAIN Input!Arrow : Input!Arrow[k] \in Input!Dirs
BY DEF Input!Arrow, Input!Dirs, Input!DIR_UP, Input!DIR_RIGHT, Input!DIR_DOWN, Input!DIR_LEFT

(* So is what a button stands for.                                         *)
LEMMA ButtonsAre == \A b \in DOMAIN Input!Button : Input!Button[b] \in Input!Dirs
BY DEF Input!Button, Input!Dirs, Input!DIR_UP, Input!DIR_RIGHT, Input!DIR_DOWN, Input!DIR_LEFT

(* The FSM after another character.                                        *)
LEMMA CharKeeps ==
    ASSUME Input!StateInv, NEW k \in Chars, chars_state' = Input!AfterChar(chars_state, k),
           tail' = IF Len(tail) < 2 THEN Append(tail, k) ELSE <<tail[2], k>>
    PROVE  Input!StateInv'
<1> USE DEF Input!StateInv, Input!AfterChar
<1>1. tail = << >> \/ Len(tail) = 1 \/ Len(tail) = 2
    <2>1. tail # << >> => Len(tail) \in Nat \ {0}
        BY EmptySeq, Zenon
    <2>2. Len(tail) <= 2
        OBVIOUS
    <2>3. \A n \in Nat \ {0} : n <= 2 => n = 1 \/ n = 2
        OBVIOUS
    <2> QED
        BY <2>1, <2>2, <2>3, Zenon
<1>2. /\ tail' \in Seq(Chars) /\ Len(tail') \in 1 .. 2 /\ tail'[Len(tail')] = k /\ tail' # << >>
      /\ Len(tail') = 2 => tail # << >> /\ tail'[1] = tail[Len(tail)]
      /\ Len(tail') = 1 => tail = << >>
    BY <1>1
<1>3. ASSUME k = 91, tail # << >>, tail[Len(tail)] = 27 PROVE tail' = <<27, 91>>
    <2> DEFINE All == Chars \union {27, 91}
               arrow == <<27, 91>>
    <2>1. Len(tail') = Len(arrow) /\ \A i \in 1 .. Len(tail') : tail'[i] = arrow[i]
        BY <1>2, <1>3
    <2>2. tail' \in Seq(All) /\ arrow \in Seq(All)
        BY <1>2, SeqMonotonic
    <2> HIDE DEF arrow, All
    <2>3. tail' = arrow
        BY <2>1, <2>2, SeqEqual
    <2> QED
        BY <2>3 DEF arrow
<1>4. ASSUME tail' = <<27, 91>> PROVE k = 91 /\ tail # << >> /\ tail[Len(tail)] = 27
    <2>1. Len(tail') = 2 /\ tail'[1] = 27 /\ tail'[2] = 91
        BY <1>4
    <2> QED
        BY <1>2, <2>1
<1> QED
    BY <1>1, <1>2, <1>3, <1>4

(* A call of get_command, and the turn after it.                           *)
LEMMA CommandKeeps ==
    ASSUME Input!InputInv, Input!Enter \/ Input!Getc \/ Input!Eof \/ Input!TuxButtons \/ Input!Turn
    PROVE  Input!InputInv'
<1>1. Input!SavedInv'
    BY DEF Input!InputInv, Input!SavedInv, Input!Enter, Input!Getc, Input!Eof, Input!TuxButtons,
       Input!Turn, Input!terminalVars
<1>2. CASE Input!Enter
    BY <1>1, <1>2 DEF Input!InputInv, Input!ToldInv, Input!StateInv, Input!Enter, Input!historyVars
<1>3. CASE Input!Eof
    BY <1>1, <1>3 DEF Input!InputInv, Input!ToldInv, Input!StateInv, Input!Eof, Input!historyVars,
       Input!commandVars
<1>4. CASE Input!TuxButtons
    <2>1. Input!StateInv'
        BY <1>4 DEF Input!InputInv, Input!StateInv, Input!TuxButtons
    <2>2. Input!ToldInv'
        BY <1>4, ButtonsAre DEF Input!InputInv, Input!ToldInv, Input!TuxButtons, Input!Dirs,
           Input!DIR_UP, Input!DIR_LEFT, Input!DIR_STOP
    <2> QED
        BY <1>1, <2>1, <2>2 DEF Input!InputInv
<1>5. CASE Input!Turn
    <2>1. Input!StateInv'
        BY <1>5 DEF Input!InputInv, Input!StateInv, Input!Turn, Input!historyVars
    <2>2. heading' = told
        BY <1>5 DEF Input!InputInv, Input!ToldInv, Input!Turn, Input!Command, Input!Dirs,
           Input!DIR_UP, Input!DIR_LEFT, Input!DIR_STOP
    <2>3. Input!ToldInv'
        BY <1>5, <2>2 DEF Input!InputInv, Input!ToldInv, Input!Turn, Input!historyVars
    <2> QED
        BY <1>1, <2>1, <2>3 DEF Input!InputInv
<1>6. CASE Input!Getc
    <2>1. CASE UNCHANGED <<pushed, chars_state, tail, told>>
        BY <1>1, <1>6, <2>1 DEF Input!InputInv, Input!ToldInv, Input!StateInv, Input!Getc
    <2>2. CASE ~UNCHANGED <<pushed, chars_state, tail, told>>
        <3>1. PICK k \in Chars :
                /\ version # "tux" /\ main' \in {"getc", "quit"}
                /\ chars_state' = Input!AfterChar(chars_state, k)
                /\ pushed' = (IF chars_state = 2
                   /\ k \in DOMAIN Input!Arrow THEN Input!Arrow[k] ELSE pushed)
                /\ tail' = (IF Len(tail) < 2 THEN Append(tail, k) ELSE <<tail[2], k>>)
                /\ told' = (IF tail = <<27,
                   91>> /\ k \in DOMAIN Input!Arrow THEN Input!Arrow[k] ELSE told)
            BY <1>6, <2>2 DEF Input!Getc
        <3>2. Input!StateInv'
            BY <3>1, CharKeeps DEF Input!InputInv
        <3>3. UNCHANGED <<version, heading>>
            BY <1>6 DEF Input!Getc
        <3>4. Input!ToldInv'
            BY <3>1, <3>3, ArrowsAre DEF Input!InputInv, Input!ToldInv, Input!StateInv, Input!Dirs,
               Input!DIR_UP, Input!DIR_LEFT, Input!DIR_STOP
        <3> QED
            BY <1>1, <3>2, <3>4 DEF Input!InputInv
    <2> QED
        BY <2>1, <2>2
<1> QED
    BY <1>2, <1>3, <1>4, <1>5, <1>6

(* Every step of the program that tries the input preserves its            *)
(* invariant.                                                              *)
LEMMA InputStep == Input!InputInv /\ [Input!Next]_(Input!vars) => Input!InputInv'
<1>1. Input!InputInv /\ UNCHANGED Input!vars => Input!InputInv'
    BY DEF Input!InputInv, Input!ToldInv, Input!StateInv, Input!SavedInv, Input!vars,
       Input!terminalVars, Input!commandVars, Input!historyVars
<1> QED
    BY <1>1, TerminalKeeps, CommandKeeps DEF Input!Next

(* Its invariant implies what is checked of it.                            *)
LEMMA InputSafe == Input!InputInv => Input!InputSafety
BY DEF Input!InputInv, Input!ToldInv, Input!StateInv, Input!SavedInv, Input!InputSafety,
   Input!TurnsAsTold, Input!TerminalLeft

(* Whatever the levels, the ticks and the keys, a main that created its    *)
(* threads gives screen and terminal back when they have ended, but for    *)
(* the blocking of stdin, and tells the outcome that was earned, and the   *)
(* colour fades without a jump; whoever tries the input goes where he was  *)
(* told, and has a terminal that was saved restored (mazegame.c:858-954    *)
(* and input.c:125-242).                                                   *)
THEOREM EndsSafelyHolds ==
    ASSUME Threads!Counted PROVE MCSpec => []EndsSafely
<1>1. MCInit => Threads!ThreadsInv /\ Input!InputInv
    BY ThreadsInit, InputInit DEF MCInit
<1>2. [MCNext]_all => [Threads!Next]_(Threads!vars) /\ [Input!Next]_(Input!vars)
    BY DEF MCNext, Play, Making, Threaded, Asking, all, threads, asking, Threads!vars, Threads!mainVars,
           Threads!rtcVars, Threads!fadeVars, Threads!keyboardVars, Threads!tuxVars,
           Input!vars, Input!terminalVars, Input!commandVars, Input!historyVars
<1>3. Threads!ThreadsInv /\ Input!InputInv => EndsSafely
    BY ThreadsSafe, InputSafe DEF EndsSafely
<1> QED
    BY <1>1, <1>2, <1>3, ThreadsStep, InputStep, PTL DEF MCSpec
====
