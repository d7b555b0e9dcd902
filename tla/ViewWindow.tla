---- MODULE ViewWindow ----
(* modex.c: the view of the maze in a build buffer of four planes, which   *)
(* moves with the view and is copied to the middle when it reaches an end, *)
(* and the two pages of video memory the planes are shown from.  A byte    *)
(* holds the pixel last drawn there: its place in the maze and what of it  *)
(* shows.  The callers' order of calls is mazegame.c's.                    *)
EXTENDS Integers, FiniteSets

CONSTANTS
    SCROLL_X_DIM, SCROLL_Y_DIM,        \* the view; SCROLL_X_DIM a multiple of 4
    EXTRA,                             \* 20000 in the code: room to move in
    BLOCK_X_DIM, BLOCK_Y_DIM, Mask,    \* a block, and the pixels a player covers
    TEXT_LEN, FONT_HEIGHT,             \* a caption, and how far it is
    CAPTION_X_OFF, CAPTION_Y_OFF,      \* from the player, up and to the left
    X_DIM, Y_DIM, PAN_BORDER, SHOW_MIN, \* of a level's maze, in its squares,
    Exits,                             \* and the pixels where it may be won
    MaxTicks,
    MaxSeen, MaxAfter                  \* bounds: blocks unveiled in a level, and
                                       \* moves in one that is not clean any more

VARIABLES
    img3_off, show_x, show_y, build,   \* the buffer and where the view is in it
    fence,                             \* whether no byte outside it was written
    seen,                              \* blocks that are not under mist any more
    play_x, play_y, pc, ticks, ground, \* the thread that draws
    clean, after,                      \* since the level began: no tick missed and
                                       \* no caption; the moves after that
    mem, start, copied                 \* pages of video memory, the one shown

drawVars == <<build, fence, seen>>
windowVars == <<img3_off, show_x, show_y>>
videoVars == <<mem, start, copied>>
playVars == <<play_x, play_y, clean, after>>
vars == <<windowVars, drawVars, playVars, pc, ticks, ground, videoVars>>

SCROLL_X_WIDTH == SCROLL_X_DIM \div 4

SCROLL_SIZE == SCROLL_X_WIDTH * SCROLL_Y_DIM

SCREEN_SIZE == SCROLL_SIZE * 4 + 1

BUILD_BUF_SIZE == SCREEN_SIZE + EXTRA

BUILD_BASE_INIT == (BUILD_BUF_SIZE - SCREEN_SIZE) \div 2

Addresses == 0 .. BUILD_BUF_SIZE - 1

\* What a byte holds that no drawing of the present view has written.
Junk == <<-1, -1, "junk">>

Pixels(sx, sy) == (sx .. sx + SCROLL_X_DIM - 1) \X (sy .. sy + SCROLL_Y_DIM - 1)

\* The byte of a pixel, for a buffer whose offset is off.
Address(off, x, y) == off + (x \div 4) + y * SCROLL_X_WIDTH + (3 - (x % 4)) * SCROLL_SIZE

\* What a line of the maze's map shows at a pixel (find_block).
Shows(blocks, x, y) ==
    IF <<(x \div BLOCK_X_DIM) * BLOCK_X_DIM, (y \div BLOCK_Y_DIM) * BLOCK_Y_DIM>> \in blocks
    THEN "seen" ELSE "mist"

\* A buffer after these bytes are written; outside it, the fence breaks.
Written(buffer, bytes) ==
    [a \in Addresses |-> IF a \in DOMAIN bytes THEN bytes[a] ELSE buffer[a]]

Breaks(bytes) == ~(DOMAIN bytes \subseteq Addresses)

\* Bytes outside the view are not remembered: nothing may depend on them.
Forgotten(buffer, off, sx, sy) ==
    LET used == {Address(off, p[1], p[2]) : p \in Pixels(sx, sy)}
    IN  [a \in Addresses |-> IF a \in used THEN buffer[a] ELSE Junk]

\* The pixels of a line, from the blocks it goes through.
fill_horiz_buffer(sx, y, blocks) ==
    [i \in 0 .. SCROLL_X_DIM - 1 |-> <<sx + i, y, Shows(blocks, sx + i, y)>>]

fill_vert_buffer(x, sy, blocks) ==
    [i \in 0 .. SCROLL_Y_DIM - 1 |-> <<x, sy + i, Shows(blocks, x, sy + i)>>]

\* draw_horiz_line: each plane in turn, and a byte further after plane 0.
horiz_line(off, sx, y, blocks) ==
    LET byte(i) == off + (sx \div 4) + y * SCROLL_X_WIDTH
                   + ((sx % 4) + i) \div 4 + (3 - (((sx % 4) + i) % 4)) * SCROLL_SIZE
        index == [a \in {byte(i) : i \in 0 .. SCROLL_X_DIM - 1} |->
                     CHOOSE i \in 0 .. SCROLL_X_DIM - 1 : byte(i) = a]
        line == fill_horiz_buffer(sx, y, blocks)
    IN  [a \in DOMAIN index |-> line[index[a]]]

\* Variant: the plane is taken from the column on the screen.
vert_line_screen(off, sx, x, sy, blocks) ==
    LET byte(i) == off + (x \div 4) + sy * SCROLL_X_WIDTH
                   + (3 - ((x - sx) % 4)) * SCROLL_SIZE + i * SCROLL_X_WIDTH
        index == [a \in {byte(i) : i \in 0 .. SCROLL_Y_DIM - 1} |->
                     CHOOSE i \in 0 .. SCROLL_Y_DIM - 1 : byte(i) = a]
        line == fill_vert_buffer(x, sy, blocks)
    IN  [a \in DOMAIN index |-> line[index[a]]]

\* draw_vert_line
vert_line(off, sx, x, sy, blocks) ==
    LET byte(i) == off + (x \div 4) + sy * SCROLL_X_WIDTH
                   + (3 - (x % 4)) * SCROLL_SIZE + i * SCROLL_X_WIDTH
        index == [a \in {byte(i) : i \in 0 .. SCROLL_Y_DIM - 1} |->
                     CHOOSE i \in 0 .. SCROLL_Y_DIM - 1 : byte(i) = a]
        line == fill_vert_buffer(x, sy, blocks)
    IN  [a \in DOMAIN index |-> line[index[a]]]

\* Variant: only the first plane is looked at.
FitsFirstPlane(off, sx, sy) ==
    /\ off + (sx \div 4) + sy * SCROLL_X_WIDTH >= 0
    /\ off + ((sx + SCROLL_X_DIM - 1) \div 4)
           + (sy + SCROLL_Y_DIM - 1) * SCROLL_X_WIDTH < BUILD_BUF_SIZE

\* Whether a view fits the buffer where it is.
Fits(off, sx, sy) ==
    /\ off + (sx \div 4) + sy * SCROLL_X_WIDTH >= 0
    /\ off + 3 * SCROLL_SIZE + ((sx + SCROLL_X_DIM - 1) \div 4)
           + (sy + SCROLL_Y_DIM - 1) * SCROLL_X_WIDTH < BUILD_BUF_SIZE

Apart(sx, sy) ==
    \/ sx <= show_x - SCROLL_X_DIM \/ sx >= show_x + SCROLL_X_DIM
    \/ sy <= show_y - SCROLL_Y_DIM \/ sy >= show_y + SCROLL_Y_DIM

Recentred(sx, sy) == BUILD_BASE_INIT - (sx \div 4) - sy * SCROLL_X_WIDTH

MaxOf(a, b) == IF a > b THEN a ELSE b

MinOf(a, b) == IF a < b THEN a ELSE b

\* Variant: bytes are always copied from the first to the last.
CopyForward(from, to) == TRUE

\* The copy starts at the end that is not overwritten before it is read.
CopiesForward(from, to) == from >= to

\* What a byte-by-byte copy of these lengths leaves in the buffer.
CopyBytes(from, to, length) ==
    LET delta == from - to
        forward == CopiesForward(from, to)
        overwritten(i) == IF forward THEN i + delta \in 0 .. i - 1
                          ELSE i + delta \in i + 1 .. length - 1
        copy[i \in 0 .. length - 1] ==
            IF overwritten(i) THEN copy[i + delta] ELSE build[from + i]
    IN  [a \in to .. to + length - 1 |-> copy[a - to]]

\* The part of the old view that is in the new one, and what lies between.
Moved(sx, sy) ==
    LET start_x == MaxOf(sx, show_x)
        start_y == MaxOf(sy, show_y)
        end_x == MinOf(sx, show_x) + SCROLL_X_DIM - 1
        end_y == MinOf(sy, show_y) + SCROLL_Y_DIM - 1
        start_off == (start_x \div 4) + start_y * SCROLL_X_WIDTH
        length == (end_x \div 4) + end_y * SCROLL_X_WIDTH + 1 - start_off + 3 * SCROLL_SIZE
    IN  CopyBytes(img3_off + start_off, Recentred(sx, sy) + start_off, length)

\* set_view_window: the new offset, and the bytes it writes.
set_view_window(sx, sy) ==
    CASE Fits(img3_off, sx, sy) -> [off |-> img3_off, bytes |-> <<>>]
      [] ~Fits(img3_off, sx, sy) /\ Apart(sx, sy) -> [off |-> Recentred(sx, sy), bytes |-> <<>>]
      [] OTHER -> [off |-> Recentred(sx, sy), bytes |-> Moved(sx, sy)]

\* set_view_window and the line that comes into view, drawn where it is now.
Scrolled(sx, sy, line) ==
    LET moved == set_view_window(sx, sy)
    IN  /\ show_x' = sx /\ show_y' = sy /\ img3_off' = moved.off
        /\ build' = Forgotten(Written(Written(build, moved.bytes), line), moved.off, sx, sy)
        /\ fence' = (fence /\ ~Breaks(moved.bytes) /\ ~Breaks(line))

\* All lines of a view, one after the other.
AllLines(off, sx, sy, blocks) ==
    LET row == [y \in sy .. sy + SCROLL_Y_DIM - 1 |-> horiz_line(off, sx, y, blocks)]
        holder == [a \in UNION {DOMAIN row[y] : y \in DOMAIN row} |->
                      CHOOSE y \in DOMAIN row : a \in DOMAIN row[y]]
    IN  [a \in DOMAIN holder |-> row[holder[a]][a]]

\* Clipping along one axis: first pixel drawn, pixels skipped, pixels drawn.
Clipped(pos, show, dim, block) ==
    LET left == MaxOf(show - pos, 0)
    IN  [pos |-> pos + left, skip |-> left, count |-> MinOf(show + dim - pos, block) - left]

OffScreen(px, py) ==
    \/ px + BLOCK_X_DIM <= show_x \/ px >= show_x + SCROLL_X_DIM
    \/ py + BLOCK_Y_DIM <= show_y \/ py >= show_y + SCROLL_Y_DIM

\* draw_full_block and mask_background: the bytes of those of the block's
\* pixels that are let through; blk maps column and row to what is drawn.
DrawnWhere(through, px, py, blk) ==
    LET h == Clipped(px, show_x, SCROLL_X_DIM, BLOCK_X_DIM)
        v == Clipped(py, show_y, SCROLL_Y_DIM, BLOCK_Y_DIM)
        cells == {c \in (0 .. h.count - 1) \X (0 .. v.count - 1) :
                     <<h.skip + c[1], v.skip + c[2]>> \in through}
        byte(c) == Address(img3_off, h.pos + c[1], v.pos + c[2])
        index == [a \in {byte(c) : c \in cells} |-> CHOOSE c \in cells : byte(c) = a]
    IN  IF OffScreen(px, py) THEN <<>>
        ELSE [a \in DOMAIN index |-> blk[<<h.skip + index[a][1], v.skip + index[a][2]>>]]

Cells == (0 .. BLOCK_X_DIM - 1) \X (0 .. BLOCK_Y_DIM - 1)

Image(px, py, thing) == [c \in Cells |-> <<px + c[1], py + c[2], thing>>]

NotMasked == Cells \ Mask

DrawBytes(bytes) ==
    /\ build' = Written(build, bytes)
    /\ fence' = (fence /\ ~Breaks(bytes))

------------------------------------------------------------------------------
(* The thread that draws *)

\* A page of video memory that is not shown: overwritten before it is.
Blank == [i \in 0 .. 3 |-> [k \in 0 .. SCROLL_SIZE - 1 |-> Junk]]

\* The player's square at the start, and the pixels of a maze.
Corner == <<BLOCK_X_DIM, BLOCK_Y_DIM>>

MAP_X == (2 * X_DIM + 1) * BLOCK_X_DIM

MAP_Y == (2 * Y_DIM + 1) * BLOCK_Y_DIM

\* set_mode_X and the first level, whose view is a little off (0, 0).
Init ==
    /\ show_x = SHOW_MIN /\ show_y = SHOW_MIN
    /\ img3_off = IF Fits(BUILD_BASE_INIT, SHOW_MIN, SHOW_MIN) THEN BUILD_BASE_INIT
                  ELSE Recentred(SHOW_MIN, SHOW_MIN)
    /\ build = Written([a \in Addresses |-> Junk], AllLines(img3_off, SHOW_MIN, SHOW_MIN, {}))
    /\ fence = TRUE /\ seen = {}
    /\ play_x = Corner[1] /\ play_y = Corner[2] /\ clean = TRUE /\ after = 0
    /\ pc = "begun" /\ ticks = 0 /\ ground = <<>>
    /\ mem = <<Blank, Blank>> /\ start = 1 /\ copied = 0

\* prepare_maze_level: the view jumps back and all of it is drawn.
NewLevel ==
    /\ pc = "idle" /\ <<play_x, play_y>> \in Exits
    /\ LET moved == set_view_window(SHOW_MIN, SHOW_MIN)
           lines == AllLines(moved.off, SHOW_MIN, SHOW_MIN, {})
       IN  /\ show_x' = SHOW_MIN /\ show_y' = SHOW_MIN /\ img3_off' = moved.off
           /\ build' = Forgotten(Written(Written(build, moved.bytes), lines), moved.off, SHOW_MIN, SHOW_MIN)
           /\ fence' = (fence /\ ~Breaks(moved.bytes) /\ ~Breaks(lines))
    /\ play_x' = Corner[1] /\ play_y' = Corner[2] /\ clean' = TRUE /\ after' = 0
    /\ seen' = {} /\ pc' = "begun"
    /\ UNCHANGED <<ticks, ground, videoVars>>

NewSquare == play_x % BLOCK_X_DIM = 0 /\ play_y % BLOCK_Y_DIM = 0

BetweenTicks == pc = "idle" \/ (pc = "drawn" /\ ticks < MaxTicks)

\* The squares unveiled around the player.
Around == ((-1 .. 1) \X (-1 .. 1)) \union {<<0, -2>>, <<2, 0>>, <<0, 2>>, <<-2, 0>>}

\* unveil_around_player: blocks come out of the mist, in view or not.
Unveil ==
    /\ BetweenTicks \/ pc = "begun"
    /\ NewSquare /\ Cardinality(seen) < MaxSeen
    /\ \E d \in Around :
           LET bx == play_x + d[1] * BLOCK_X_DIM
               by == play_y + d[2] * BLOCK_Y_DIM
           IN  /\ <<bx, by>> \notin seen
               /\ bx \in 0 .. MAP_X - 1 /\ by \in 0 .. MAP_Y - 1
               /\ seen' = seen \union {<<bx, by>>}
               /\ DrawBytes(DrawnWhere(Cells, bx, by, Image(bx, by, "seen")))
    /\ clean' = (clean /\ pc # "drawn")
    /\ UNCHANGED <<windowVars, play_x, play_y, after, pc, ticks, ground, videoVars>>

\* The view follows the player: the line that comes into it is drawn.
Pan(sx, sy) ==
    LET off == set_view_window(sx, sy).off
        top == horiz_line(off, sx, sy, seen)
        bottom == horiz_line(off, sx, sy + SCROLL_Y_DIM - 1, seen)
        first == vert_line(off, sx, sx, sy, seen)
        last == vert_line(off, sx, sx + SCROLL_X_DIM - 1, sy, seen)
    IN  \/ sy < show_y /\ Scrolled(sx, sy, top)
        \/ sy > show_y /\ Scrolled(sx, sy, bottom)
        \/ sx < show_x /\ Scrolled(sx, sy, first)
        \/ sx > show_x /\ Scrolled(sx, sy, last)

\* Where the view is after a step from pos along one axis.
Followed(show, pos, delta, dim, block, map) ==
    IF delta = -1 /\ pos - 1 < show + block * PAN_BORDER /\ show > SHOW_MIN THEN show - 1
    ELSE IF delta = 1 /\ pos + 1 > show + dim - block * (PAN_BORDER + 1) /\ show + dim < map - SHOW_MIN
    THEN show + 1 ELSE show

\* move_up, move_right, move_down, move_left: along the maze's corridors.
Move ==
    /\ BetweenTicks /\ (clean \/ after < MaxAfter)
    /\ \E d \in {<<1, 0>>, <<-1, 0>>, <<0, 1>>, <<0, -1>>} :
           LET x == play_x + d[1]
               y == play_y + d[2]
               sx == Followed(show_x, play_x, d[1], SCROLL_X_DIM, BLOCK_X_DIM, MAP_X)
               sy == Followed(show_y, play_y, d[2], SCROLL_Y_DIM, BLOCK_Y_DIM, MAP_Y)
           IN  /\ x \in BLOCK_X_DIM .. MAP_X - 2 * BLOCK_X_DIM
               /\ y \in BLOCK_Y_DIM .. MAP_Y - 2 * BLOCK_Y_DIM
               /\ IF d[1] # 0 THEN y % (2 * BLOCK_Y_DIM) = BLOCK_Y_DIM
                  ELSE x % (2 * BLOCK_X_DIM) = BLOCK_X_DIM
               /\ play_x' = x /\ play_y' = y
               /\ \/ sx = show_x /\ sy = show_y /\ UNCHANGED <<windowVars, build, fence>>
                  \/ Pan(sx, sy)
    /\ pc' = "moved"
    /\ after' = IF clean THEN after ELSE after + 1
    /\ UNCHANGED <<seen, clean, ticks, ground, videoVars>>

\* get_full_block
BlockBytes(px, py) ==
    [c \in Cells |-> build[Address(img3_off, px + c[1], py + c[2])]]

\* The player's picture, and the ground again where the mask lets it through.
DrawPlayer ==
    /\ pc = "moved" \/ pc = "begun"
    /\ ground' = BlockBytes(play_x, play_y)
    /\ LET player == DrawnWhere(Cells, play_x, play_y, Image(play_x, play_y, "player"))
           through == DrawnWhere(NotMasked, play_x, play_y, ground')
       IN  /\ build' = Written(Written(build, player), through)
           /\ fence' = (fence /\ ~Breaks(player) /\ ~Breaks(through))
    /\ ticks' = ticks + 1 /\ clean' = (clean /\ ticks = 0)
    /\ pc' = "drawn"
    /\ UNCHANGED <<windowVars, seen, play_x, play_y, after, videoVars>>

\* draw_caption: a black bar, moved into the view, that nothing takes away.
Caption ==
    /\ BetweenTicks /\ NewSquare /\ clean
    /\ LET left == MinOf(MaxOf(play_x - CAPTION_X_OFF, show_x), show_x + SCROLL_X_DIM - TEXT_LEN)
           top == MaxOf(play_y - CAPTION_Y_OFF, show_y)
           bar == (left .. left + TEXT_LEN - 1) \X (top .. top + FONT_HEIGHT - 1)
           index == [a \in {Address(img3_off, p[1], p[2]) : p \in bar} |->
                        CHOOSE p \in bar : Address(img3_off, p[1], p[2]) = a]
       IN  DrawBytes([a \in DOMAIN index |-> <<index[a][1], index[a][2], "black">>])
    /\ clean' = FALSE
    /\ UNCHANGED <<windowVars, seen, play_x, play_y, after, pc, ticks, ground, videoVars>>

\* The page the planes are copied to.
HiddenPage == 3 - start

\* Where the bytes that show_screen copies to plane i begin.
PlaneStart(i) ==
    LET p_off == 3 - (show_x % 4)
    IN  img3_off + (show_x \div 4) + show_y * SCROLL_X_WIDTH
            + ((p_off - i + 4) % 4) * SCROLL_SIZE + (IF p_off < i THEN 1 ELSE 0)

\* copy_image, for one plane after the other.
CopyPlane ==
    /\ pc = "drawn" \/ pc = "showing"
    /\ copied < 4
    /\ mem' = [mem EXCEPT ![HiddenPage][copied] =
                  [k \in 0 .. SCROLL_SIZE - 1 |->
                      IF PlaneStart(copied) + k \in Addresses
                      THEN build[PlaneStart(copied) + k] ELSE Junk]]
    /\ copied' = copied + 1 /\ pc' = "showing"
    /\ UNCHANGED <<windowVars, drawVars, playVars, ticks, ground, start>>

\* The registers are pointed to the page just filled.
Flip ==
    /\ pc = "showing" /\ copied = 4
    /\ start' = 3 - start /\ copied' = 0
    /\ mem' = [mem EXCEPT ![start] = Blank]
    /\ pc' = "shown"
    /\ UNCHANGED <<windowVars, drawVars, playVars, ticks, ground>>

\* The ground is drawn where the player was.
Restore ==
    /\ pc = "shown"
    /\ DrawBytes(DrawnWhere(Cells, play_x, play_y, ground))
    /\ ground' = <<>> /\ ticks' = 0
    /\ pc' = "idle"
    /\ UNCHANGED <<windowVars, seen, playVars, videoVars>>

Next == NewLevel \/ Unveil \/ Move \/ DrawPlayer \/ Caption \/ CopyPlane \/ Flip \/ Restore

Spec == Init /\ [][Next]_vars

------------------------------------------------------------------------------

(* No byte outside the build buffer is ever written, which clear_mode_X    *)
(* looks for at the end (modex.c:357-368), and all of the view is in it.   *)
FenceWhole ==
    /\ fence
    /\ \A p \in Pixels(show_x, show_y) : Address(img3_off, p[1], p[2]) \in Addresses

(* Between redraws the buffer shows the maze and nothing else: no pixel of *)
(* a former place, none of the player.  That is so as long as no tick was  *)
(* missed, when the ground is taken with the player on it, and no caption  *)
(* drawn, which stays (mazegame.c:587, 645, 670).                          *)
PictureTrue ==
    pc \in {"begun", "idle"} /\ clean =>
        \A p \in Pixels(show_x, show_y) :
            build[Address(img3_off, p[1], p[2])] = <<p[1], p[2], Shows(seen, p[1], p[2])>>

(* The buffer that moves, its four shifted planes and the two pages are a  *)
(* picture of the view, of which nothing is lost when the view moves, and  *)
(* which the screen shows whole (modex.c:402-497, 602-631).                *)
pic == [p \in Pixels(show_x, show_y) |-> build[Address(img3_off, p[1], p[2])]]

screen == [p \in (0 .. SCROLL_X_DIM - 1) \X (0 .. SCROLL_Y_DIM - 1) |->
              mem[start][p[1] % 4][(p[1] \div 4) + p[2] * SCROLL_X_WIDTH]]

(* The fence behind the buffer stays whole, and what is shown is the maze  *)
(* (modex.c:380-520).                                                      *)
ViewSafety == FenceWhole /\ PictureTrue

Pic == INSTANCE Picture WITH
    XDim <- SCROLL_X_DIM, YDim <- SCROLL_Y_DIM,
    Sizes <- {<<BLOCK_X_DIM, BLOCK_Y_DIM>>, <<TEXT_LEN, FONT_HEIGHT>>},
    Start <- <<SHOW_MIN, SHOW_MIN>>, Lines <- {"mist", "seen"},
    Things <- {"mist", "seen", "player", "black"},
    view <- <<show_x, show_y>>

KeepsPicture == Pic!Spec
====
