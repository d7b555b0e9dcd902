---- MODULE MazeWalk ----
(* The player's walk over a maze and the picture of it, as two earlier     *)
(* versions of the game (originals) share them.  A walk is where the       *)
(* player and the view are; a maze is what lies in it and what was seen of *)
(* it; a picture maps the pixels of the view to bytes.                     *)
EXTENDS MazeLattice

CONSTANTS
    X_DIM, Y_DIM, OpenSpaces,      \* the maze, and the locations without a wall
    BLOCK_X_DIM, BLOCK_Y_DIM,      \* pixels of a location,
    Opaque,                        \* and those of them that the player covers
    SCROLL_X_DIM, SCROLL_Y_DIM,    \* pixels of the view
    PAN_BORDER, SHOW_MIN

Cells == (0 .. BLOCK_X_DIM - 1) \X (0 .. BLOCK_Y_DIM - 1)

Spot(a, b) == MAZE_INDEX(X_DIM, a, b)

MapWidth == (2 * X_DIM + 1) * BLOCK_X_DIM

MapHeight == (2 * Y_DIM + 1) * BLOCK_Y_DIM

\* The location a player at (x, y) is at, or came from.
Here(w) == Spot(w.x \div BLOCK_X_DIM, w.y \div BLOCK_Y_DIM)

------------------------------------------------------------------------------
(* The walk *)

AtStart ==
    [x |-> BLOCK_X_DIM, y |-> BLOCK_Y_DIM, dir |-> DIR_STOP, last |-> DIR_UP, moves |-> 0,
     map_x |-> SHOW_MIN, map_y |-> SHOW_MIN]

\* Before the first level: everything static is zero.
Nowhere ==
    [x |-> 0, y |-> 0, dir |-> DIR_UP, last |-> DIR_UP, moves |-> 0, map_x |-> 0, map_y |-> 0]

Length(d) == IF d \in {DIR_UP, DIR_DOWN} THEN BLOCK_Y_DIM ELSE BLOCK_X_DIM

\* A new direction that is the opposite of the old one is taken at once.
Turned(w, next) ==
    IF w.dir \in Dirs /\ next = Opposite(w.dir)
    THEN [w EXCEPT !.dir = next, !.moves = IF w.moves > 0 THEN Length(next) - w.moves ELSE 0]
    ELSE w

\* At a new square: the direction asked for if it is open, or on, or stop.
\* next is DIR_STOP only while the player has not moved: then it changes nothing.
Chosen(w, next) ==
    LET open(d) == Here(w) + StepOffset(X_DIM, d) \in OpenSpaces
        asked == IF next \in Dirs /\ open(next) THEN next ELSE w.dir
    IN  IF asked \in Dirs /\ open(asked) THEN [w EXCEPT !.dir = asked, !.moves = Length(asked)]
        ELSE [w EXCEPT !.dir = DIR_STOP]

\* Where the view is after a step of delta pixels that ended at pos.
Panned(map, pos, delta, scroll, block, whole) ==
    CASE delta = -1 /\ pos < map + block * PAN_BORDER /\ map > SHOW_MIN -> map - 1
      [] delta = 1 /\ pos > map + scroll - block * (PAN_BORDER + 1) /\ map + scroll < whole - SHOW_MIN -> map + 1
      [] OTHER -> map

\* move_up, move_right, move_down, move_left
Stepped(w) ==
    LET dx == CASE w.dir = DIR_RIGHT -> 1 [] w.dir = DIR_LEFT -> -1 [] OTHER -> 0
        dy == CASE w.dir = DIR_DOWN -> 1 [] w.dir = DIR_UP -> -1 [] OTHER -> 0
    IN  [w EXCEPT !.x = w.x + dx, !.y = w.y + dy, !.last = w.dir, !.moves = w.moves - 1,
                  !.map_x = Panned(w.map_x, w.x + dx, dx, SCROLL_X_DIM, BLOCK_X_DIM, MapWidth),
                  !.map_y = Panned(w.map_y, w.y + dy, dy, SCROLL_Y_DIM, BLOCK_Y_DIM, MapHeight)]

------------------------------------------------------------------------------
(* The picture *)

\* A byte: what it shows, the way the player looks, and how many times
\* COLOR_TRANS_OFFSET, a quarter of a byte's range, was added to it.
Byte(thing) == <<thing, 0, 0>>

ViewOf(w) == (w.map_x .. w.map_x + SCROLL_X_DIM - 1) \X (w.map_y .. w.map_y + SCROLL_Y_DIM - 1)

\* find_block
find_block(m, at) ==
    CASE m.fruits = {} /\ at = m.exit -> "exit"
      [] ~(m.fruits = {} /\ at = m.exit) /\ at \notin m.seen -> IF at \in m.fruits THEN "bump" ELSE "mist"
      [] ~(m.fruits = {} /\ at = m.exit) /\ at \in m.seen ->
             IF at \in m.fruits THEN "fruit" ELSE IF at \in OpenSpaces THEN "empty" ELSE "wall"

\* What the map shows at a pixel (fill_horiz_buffer, fill_vert_buffer).
MapByte(m, q) == Byte(find_block(m, Spot(q[1] \div BLOCK_X_DIM, q[2] \div BLOCK_Y_DIM)))

\* The build buffer before anything is drawn.
NoPicture == [q \in ViewOf(Nowhere) |-> Byte("none")]

MapPicture(m, w) == [q \in ViewOf(w) |-> MapByte(m, q)]

\* The view moves and the line that comes into it is drawn.
Scrolled(pic, m, w) == [q \in ViewOf(w) |-> IF q \in DOMAIN pic THEN pic[q] ELSE MapByte(m, q)]

\* draw_full_block: a block, given cell by cell, as far as it is in the view.
WithBlock(pic, x, y, blk) ==
    [q \in DOMAIN pic |-> IF <<q[1] - x, q[2] - y>> \in Cells THEN blk[<<q[1] - x, q[2] - y>>] ELSE pic[q]]

\* The block of location (a, b).
WithSpot(pic, m, a, b) ==
    WithBlock(pic, a * BLOCK_X_DIM, b * BLOCK_Y_DIM, [c \in Cells |-> Byte(find_block(m, Spot(a, b)))])

\* get_full_block, update_background_buffer: the block where the player is.
BlockAt(pic, w) == [c \in Cells |-> pic[<<w.x + c[1], w.y + c[2]>>]]

\* The player over the ground, which shows where the mask is not opaque.
PlayerOver(ground, w) == [c \in Cells |-> IF c \in Opaque THEN <<"player", w.last, 0>> ELSE ground[c]]

Screen(pic, w) ==
    [p \in (0 .. SCROLL_X_DIM - 1) \X (0 .. SCROLL_Y_DIM - 1) |-> pic[<<w.map_x + p[1], w.map_y + p[2]>>]]

------------------------------------------------------------------------------
(* What happens at a new square: unveil_around_player *)

\* check_for_fruit: a maze without the fruit here.
Eaten(m, w) == [m EXCEPT !.fruits = @ \ {Here(w)}]

\* Places that are unveiled around a player in square (a, b).
Around(a, b) ==
    {c \in (((a - 1) .. (a + 1)) \X ((b - 1) .. (b + 1)))
               \union {<<a, b - 2>>, <<a + 2, b>>, <<a, b + 2>>, <<a - 2, b>>} :
        c[1] \in 0 .. 2 * X_DIM /\ c[2] \in 0 .. 2 * Y_DIM}

AroundPlayer(w) == Around(w.x \div BLOCK_X_DIM, w.y \div BLOCK_Y_DIM)

\* unveil_space for each of them.
Unveiled(m, w) == [m EXCEPT !.seen = @ \union {Spot(c[1], c[2]) : c \in AroundPlayer(w)}]

\* The exit's column and row.
ExitAt(m) == CHOOSE c \in (0 .. 2 * X_DIM - 1) \X (0 .. 2 * Y_DIM - 1) : Spot(c[1], c[2]) = m.exit

\* What eating draws: the exit with the last fruit, and the empty square.
DrawnEaten(pic, m, w) ==
    LET left == Eaten(m, w)
        exit == ExitAt(m)
        exposed == IF left.fruits = {} THEN WithSpot(pic, left, exit[1], exit[2]) ELSE pic
    IN  IF Here(w) \in m.fruits
        THEN WithSpot(exposed, left, w.x \div BLOCK_X_DIM, w.y \div BLOCK_Y_DIM) ELSE pic

\* What unveiling draws: the blocks that were not seen before.
DrawnUnveiled(pic, m, w) ==
    LET new == {c \in AroundPlayer(w) : Spot(c[1], c[2]) \notin m.seen}
        cell(q) == <<q[1] \div BLOCK_X_DIM, q[2] \div BLOCK_Y_DIM>>
    IN  [q \in DOMAIN pic |-> IF cell(q) \in new THEN MapByte(Unveiled(m, w), q) ELSE pic[q]]

unveil_around_player(pic, m, w) ==
    [maze |-> Unveiled(Eaten(m, w), w),
     pic |-> DrawnUnveiled(DrawnEaten(pic, m, w), Eaten(m, w), w)]

check_for_win(m, w) == m.fruits = {} /\ Here(w) = m.exit

\* Before a maze is made.
NoMaze == [fruits |-> {}, exit |-> 0, seen |-> {}]

\* What the game takes for granted of a maze that make_maze returned.
FreshMaze(m) ==
    /\ m.seen = {} /\ m.fruits \subseteq Points(X_DIM, Y_DIM)
    /\ m.exit \in Points(X_DIM, Y_DIM) \ m.fruits
====
